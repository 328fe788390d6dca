----------------------------- MODULE TaskQueue -----------------------------
(***************************************************************************)
(* What an EventLoop promises to the threads that hand it work: the tasks  *)
(* pushed on it, by whichever thread, are executed by the loop's own       *)
(* thread, one at a time, each exactly once and in the order in which they *)
(* were pushed; and every task pushed is executed in the end.              *)
(*                                                                         *)
(* EventLoop.tla, which models the eventfd, the epoll_wait and the batches *)
(* of the code, implements this specification.                             *)
(***************************************************************************)
EXTENDS Sequences

CONSTANTS Task,     \* the closures that can be pushed
          NoTask    \* the loop is not executing a task

VARIABLES queue,    \* tasks pushed and not yet started, oldest first
          current   \* the task being executed, or NoTask

vars == <<queue, current>>

Init == /\ queue = <<>>
        /\ current = NoTask

(* Any thread pushes a task; it may be the loop's thread, inside a task. *)
Post == /\ \E t \in Task : queue' = Append(queue, t)
        /\ UNCHANGED current

(* The loop starts the oldest task, if it is not in the middle of another. *)
Start == /\ current = NoTask
         /\ queue # <<>>
         /\ current' = Head(queue)
         /\ queue' = Tail(queue)

Finish == /\ current # NoTask
          /\ current' = NoTask
          /\ UNCHANGED queue

Next == Post \/ Start \/ Finish

Safety == Init /\ [][Next]_vars

Spec == Safety /\ WF_vars(Start) /\ WF_vars(Finish)
=============================================================================
