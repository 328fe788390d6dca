------------------------------ MODULE TcpServer ------------------------------
(***************************************************************************)
(* A server from its start on: the TcpServer of source/server.hpp with its *)
(* Acceptor, which listens as soon as it is constructed, its LoopThreads,  *)
(* which Start creates before the base loop runs, and the connections that *)
(* the base loop accepts and deals to them.  The process may crash at any  *)
(* moment, and is started again.                                           *)
(*                                                                         *)
(* What becomes of a connection on its loop is in Connection.              *)
(***************************************************************************)
EXTENDS LoopThread, Sequences

CONSTANTS Client, Backlog, Descriptors, MaxStarts

ASSUME ServerAssumption == /\ Backlog \in Nat \ {0} /\ Descriptors \in Nat \ {0}
                           /\ MaxStarts \in Nat

VARIABLES server, socket, queue, client, starts   \* those of Acceptor

A == INSTANCE Acceptor

poolVars   == vars
listenVars == <<server, socket, queue, client, starts>>
serverVars == <<poolVars, listenVars>>

ServerInit == Init /\ A!Init

-----------------------------------------------------------------------------
(* The base thread: main constructs the server, which listens from then    *)
(* on, may ask for workers, and starts it.                                 *)

Construction(listens) == A!Start(listens) /\ UNCHANGED poolVars

Built == server = "wait"

Configure(count) == Built /\ SetCount(count) /\ UNCHANGED listenVars

StartServer == Built /\ Start /\ UNCHANGED listenVars

Create == (Launch \/ Construct \/ GetLoop) /\ UNCHANGED listenVars

Woken == WakeSpuriously /\ UNCHANGED listenVars

(* EventLoop::Start of the base loop. *)
Poll == pc = "serve" /\ A!Wait /\ UNCHANGED poolVars

(* Acceptor::accept, and NewConnection if there is a connection. *)
NewConnection ==
    /\ A!Accept
    /\ IF client' = client THEN UNCHANGED poolVars ELSE NextLoop \/ NextIsBase

-----------------------------------------------------------------------------
(* The threads of the pool, the kernel and the clients. *)

Worker(i) == ThreadEntry(i) /\ UNCHANGED listenVars

(* The loop it was dealt to releases a connection. *)
Release(c) == A!Close(c) /\ UNCHANGED poolVars

(* With the process its threads and its memory go. *)
Crash ==
    /\ A!Crash
    /\ pc' = "configure"
    /\ thread_count' = 0
    /\ made' = 0
    /\ thread' = [i \in Thread |-> "none"]
    /\ loop' = {}
    /\ mutex' = [i \in Thread |-> "raw"]
    /\ next_loop' = 0
    /\ overtook' = {}
    /\ ahead' = [i \in Thread |-> 0]

ClientStep(c) == /\ A!Connect(c) \/ A!Break(c) \/ A!Leave(c) \/ A!Expire(c)
                 /\ UNCHANGED poolVars

ServerNext == \/ \E listens \in BOOLEAN : Construction(listens)
              \/ \E count \in 0..MaxThreads : Configure(count)
              \/ StartServer
              \/ Create
              \/ Woken
              \/ Poll
              \/ NewConnection
              \/ \E i \in Thread : Worker(i)
              \/ Crash
              \/ \E c \in Client : Release(c) \/ ClientStep(c)

(* Somebody starts the process again, until listen does not fail; its      *)
(* threads run, and one obtains a lock that is free again and again;       *)
(* clients try until they are connected, and the kernel forgets.  No       *)
(* client need ever leave, and no descriptor ever be closed.               *)
Fairness ==
    /\ WF_serverVars(Construction(TRUE))
    /\ WF_serverVars(StartServer) /\ WF_serverVars(Create)
    /\ WF_serverVars(Poll) /\ WF_serverVars(NewConnection)
    /\ \A i \in Thread : /\ WF_serverVars(Worker(i))
                         /\ SF_serverVars(Lock(i) /\ UNCHANGED listenVars)
    /\ \A c \in Client : /\ WF_serverVars(A!Connect(c) /\ UNCHANGED poolVars)
                         /\ WF_serverVars(A!Expire(c) /\ UNCHANGED poolVars)

ServerSpec == ServerInit /\ [][ServerNext]_serverVars /\ Fairness

-----------------------------------------------------------------------------
(* As soon as the process is gone, or was not begun. *)
Gone == pc = "configure"

(* GetLoop returns, unless the thread has overtaken its constructor: its   *)
(* loop is handed over, whether the notification or the look at _loop      *)
(* comes first (server.hpp:754-775) ...                                    *)
LoopsHandedOver ==
    \A i \in Thread :
        (pc = "launch" /\ made = i) ~> (made > i \/ i \in overtook \/ Gone)

(* ... and the thread gets to its loop: the connections it was dealt are   *)
(* served.                                                                 *)
WorkersStart ==
    \A i \in Thread :
        thread[i] = "lock" ~> (thread[i] = "start" \/ i \in overtook \/ Gone)

(* The base loop, which also carries the timers and the connections of a   *)
(* server without workers, never waits in accept for a connection that was *)
(* reported and is gone, and the kernel's queue holds each waiting client  *)
(* once (server.hpp:130-133, 1060-1069).                                   *)
NeverBlocks == A!TypeOK /\ server # "blocked"

(* As long as the server is started again after a crash, and descriptors   *)
(* become free again and again, every client is accepted or breaks its     *)
(* connection: also those that come before there are workers, while the    *)
(* queue or the table of descriptors is full, or between a crash and the   *)
(* next start, which may fail while old connections are in TIME_WAIT       *)
(* (server.hpp:113-119, 146-153, 1060-1069, 1139-1142).  A server one of   *)
(* whose threads has overtaken its constructor promises nothing; nor does  *)
(* one whose table stays full, which no client that leaves prevents        *)
(* (server.hpp:853-866).                                                   *)
EveryClientAccepted ==
    []<>~A!Exhausted =>
        \A c \in Client :
            client[c] = "new" ~> \/ client[c] \in {"open", "left", "time_wait", "done"}
                                 \/ server = "down" /\ starts = MaxStarts
                                 \/ overtook # {}

(* A client that comes is served: its connection is accepted, and the loop *)
(* it is dealt to is one whose thread runs it.                             *)
EveryClientServed == LoopsHandedOver /\ WorkersStart /\ EveryClientAccepted
=============================================================================
