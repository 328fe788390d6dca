------------------------------ MODULE Acceptor ------------------------------
(***************************************************************************)
(* The listening socket of a server that is started, crashes and is        *)
(* started again: Socket::BuildServer and Acceptor of source/server.hpp,   *)
(* against a kernel that keeps a port occupied as long as connections the  *)
(* server ended are in TIME_WAIT.  TcpServer puts it together with the     *)
(* threads of the process.                                                 *)
(*                                                                         *)
(* The backlog, the queue of a listening socket, holds clients that are    *)
(* connected and not accepted yet.  epoll is level-triggered: accept takes *)
(* one connection, and the socket is reported again while there are more.  *)
(***************************************************************************)
EXTENDS Integers, Sequences, SequencesExt, FiniteSets

CONSTANTS Client,
          Backlog,      \* what listen is given: 8 in the code
          Descriptors,  \* connections the process may have open
          MaxStarts     \* bound of the model: starts of the server that succeed

VARIABLES server,   \* what the process is at
          socket,   \* its listening socket
          queue,    \* the connections that are not accepted yet
          client,   \* what became of each client
          starts    \* how often the server was started

vars == <<server, socket, queue, client, starts>>

(* The accepted connections whose descriptor the server has not closed:    *)
(* the client may have left, which by itself gives no descriptor back.     *)
Held == {c \in Client : client[c] \in {"open", "left"}}

TypeOK == /\ server \in {"down", "aborted", "wait", "accept", "blocked"}
          /\ DOMAIN socket = {"nonblock", "bound", "reuse", "listening"}
          /\ client \in [Client -> {"new", "queued", "open", "left", "time_wait",
                                 "done"}]
          /\ IsInjective(queue)
          /\ ToSet(queue) = {c \in Client : client[c] = "queued"}
          /\ Len(queue) <= Backlog
          /\ Cardinality(Held) <= Descriptors
          /\ starts \in 0 .. MaxStarts

NoSocket == [nonblock |-> FALSE, bound |-> FALSE, reuse |-> FALSE, listening |-> FALSE]

Init == /\ server = "down"
        /\ socket = NoSocket
        /\ queue = <<>>
        /\ client = [c \in Client |-> "new"]
        /\ starts = 0

-----------------------------------------------------------------------------
(* Socket::BuildServer, as functions of the socket. *)

\* (Mutant) The socket stays blocking.
StayBlocking(s) == s

SetNoBlock(s) == [s EXCEPT !.nonblock = TRUE]

Create == SetNoBlock(NoSocket)

(* External: a port is free if nothing is left on it, or if the socket was *)
(* said to reuse it before.                                                *)
PortIsFree == \A c \in Client : client[c] \notin {"open", "left", "time_wait"}

Bind(s) == [s EXCEPT !.bound = s.reuse \/ PortIsFree]

ReuseAddress(s) == [s EXCEPT !.reuse = TRUE]

Listen(s) == [s EXCEPT !.listening = TRUE]

(* It gives up when Bind or Listen fails. *)
BuildServer(listens) ==
    LET s == Bind(Create)
    IN  IF s.bound /\ listens THEN Listen(ReuseAddress(SetNoBlock(s))) ELSE s

(* The constructors of TcpServer and Acceptor.  If the socket could not be *)
(* built an assertion fails, and somebody starts the server again.         *)
Start(listens) ==
    /\ server \in {"down", "aborted"}
    /\ starts < MaxStarts
    /\ IF BuildServer(listens).listening
       THEN server' = "wait" /\ socket' = BuildServer(listens) /\ starts' = starts + 1
       ELSE server' = "aborted" /\ UNCHANGED <<socket, starts>>
    /\ UNCHANGED <<queue, client>>

(* The process ends, at any moment.  The kernel ends its connections, and  *)
(* resets those that were not accepted: these clients connect again.  What *)
(* the client had ended is over.                                           *)
Crash ==
    /\ server \in {"wait", "accept", "blocked"}
    /\ server' = "down"
    /\ socket' = NoSocket
    /\ queue' = <<>>
    /\ client' = [c \in Client |-> CASE client[c] = "open"   -> "time_wait"
                                     [] client[c] = "left"   -> "done"
                                     [] client[c] = "queued" -> "new"
                                     [] OTHER                -> client[c]]
    /\ UNCHANGED starts

-----------------------------------------------------------------------------
(* External: clients, which try until they are connected, and the kernel. *)

Becomes(c, what) == client' = [client EXCEPT ![c] = what]

Connect(c) ==
    /\ client[c] = "new"
    /\ socket.listening
    /\ Len(queue) < Backlog
    /\ queue' = Append(queue, c)
    /\ Becomes(c, "queued")
    /\ UNCHANGED <<server, socket, starts>>

(* A connection breaks before it is accepted. *)
Break(c) ==
    /\ client[c] = "queued"
    /\ \E i \in DOMAIN queue : queue[i] = c /\ queue' = RemoveAt(queue, i)
    /\ Becomes(c, "done")
    /\ UNCHANGED <<server, socket, starts>>

(* The client of an accepted connection closes its end. *)
Leave(c) ==
    /\ client[c] = "open"
    /\ Becomes(c, "left")
    /\ UNCHANGED <<server, socket, queue, starts>>

(* The kernel forgets it. *)
Expire(c) ==
    /\ client[c] = "time_wait"
    /\ Becomes(c, "done")
    /\ UNCHANGED <<server, socket, queue, starts>>

-----------------------------------------------------------------------------
(* The loop of the connection releases it and closes its descriptor: when, *)
(* and whether, is in Connection.  The end that closes first keeps the     *)
(* connection in TIME_WAIT.                                                *)
Close(c) ==
    /\ server \notin {"down", "aborted"}
    /\ c \in Held
    /\ Becomes(c, IF client[c] = "open" THEN "time_wait" ELSE "done")
    /\ UNCHANGED <<server, socket, queue, starts>>

(* The base loop: epoll_wait reports the socket ... *)
Wait ==
    /\ server = "wait"
    /\ queue # <<>>
    /\ server' = "accept"
    /\ UNCHANGED <<socket, queue, client, starts>>

Exhausted == Cardinality(Held) >= Descriptors

MayAccept == server = "accept" \/ (server = "blocked" /\ queue # <<>>)

\* (Mutant) When there is no descriptor the socket is not watched any more.
AcceptUntilFull ==
    /\ MayAccept
    /\ IF queue # <<>> /\ ~Exhausted
       THEN /\ server' = "wait"
            /\ queue' = Tail(queue)
            /\ Becomes(Head(queue), "open")
       ELSE /\ server' = IF queue = <<>> THEN "wait" ELSE "deaf"
            /\ UNCHANGED <<queue, client>>
    /\ UNCHANGED <<socket, starts>>

(* ... and Acceptor::accept takes one connection, if there is still one    *)
(* and a descriptor for it, and gives it to TcpServer::NewConnection; if   *)
(* not, it goes back to the loop, unless the socket makes it wait.         *)
Accept ==
    /\ MayAccept
    /\ IF queue # <<>> /\ ~Exhausted
       THEN /\ server' = "wait"
            /\ queue' = Tail(queue)
            /\ Becomes(Head(queue), "open")
       ELSE /\ server' = IF queue = <<>> /\ ~socket.nonblock THEN "blocked" ELSE "wait"
            /\ UNCHANGED <<queue, client>>
    /\ UNCHANGED <<socket, starts>>
=============================================================================
