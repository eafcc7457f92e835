------------------------------- MODULE TodoQueue -------------------------------
(***************************************************************************)
(* The queue of todos in memory (src/persistent-todo-queue, queue.rs,      *)
(* todo.rs and next_id of lib.rs): a sequence of records, new ones at the  *)
(* back, the oldest leaves first.                                          *)
(***************************************************************************)
EXTENDS Integers, Sequences

Todo(id, description) == [id |-> id, description |-> description]

\* Faulty variant: the number of pending todos taken for their largest id.
next_id_FromLength(queue) == Len(queue) + 1

\* max(pending ids) + 1, and 1 for an empty queue.
next_id(queue) ==
  IF queue = <<>> THEN 1
  ELSE (CHOOSE m \in {queue[i].id : i \in DOMAIN queue} :
          \A i \in DOMAIN queue : queue[i].id <= m) + 1

\* What `add` saves.
Enqueued(queue, description) == Append(queue, Todo(next_id(queue), description))

\* What `done` saves.
Dequeued(queue) == Tail(queue)
================================================================================
