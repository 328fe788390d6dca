---------------------------- MODULE MCEventLoop ----------------------------
(***************************************************************************)
(* EventLoop for TLC: the loop's thread and two others (the acceptor's and *)
(* a worker's), two tasks, and two channels besides the eventfd's, so that *)
(* one epoll_wait (MaxEvents = 2) may leave the eventfd's event out.       *)
(***************************************************************************)
EXTENDS EventLoop
=============================================================================
