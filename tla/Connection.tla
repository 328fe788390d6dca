----------------------------- MODULE Connection -----------------------------
(***************************************************************************)
(* The life of the connections of a TcpServer (source/server.hpp), from    *)
(* NewConnection in the acceptor's thread to the erasure of the last       *)
(* shared pointer: the handlers Channel::HandleEvents calls on a worker's  *)
(* loop, the tasks connections push on that loop, the inactivity timer,    *)
(* the epoll set with the map Epoller keeps beside it, and the kernel      *)
(* under them, which hands a closed descriptor to the next connection.     *)
(*                                                                         *)
(* The loop is the one of EventLoop, whose tasks and batches are kept and  *)
(* whose wakeup is taken for granted here (EventLoopProofs); the timers    *)
(* are those of Timers, which TimeWheel implements.  One worker: the loops *)
(* of a pool share nothing but the descriptors; or none, and then the base *)
(* loop is the worker's and RunInLoop calls instead of pushing.  An action *)
(* is a handler, a task, or a step of another thread between two calls     *)
(* that can be observed: the acceptor's, or one of the application's that  *)
(* keeps a PtrConnection a callback gave it and calls its functions.       *)
(*                                                                         *)
(* A buffer is empty or not, and so is a socket's receive queue.  The      *)
(* message callback is any that sends only before it shuts down, as the    *)
(* OnMessage of HttpServer and the EchoServer of the tests do.  OnMessage  *)
(* never shuts down without having sent something; the EchoServer sends a  *)
(* C string, which is empty if the data begins with a 0 byte, and shuts    *)
(* down all the same, once for every 1024 bytes.  A program says how often *)
(* its callback does so (`silent').                                        *)
(***************************************************************************)
EXTENDS Integers, Sequences, FiniteSets, SequencesExt

CONSTANTS Conn,      \* the connections clients may open, each once
          NoConn,    \* no connection
          Fd,        \* socket descriptors
          NoFd,      \* the descriptor of a Connection not yet constructed
          Timeout,   \* TcpServer::_timeout, in ticks
          MaxLate,   \* bound of the model: ticks the worker may be behind by
          MaxCalls,  \* bound of the model: how often the application calls
          Programs   \* the programs that use the library, and their clients

(* What a program and its clients do. *)
Program == [timers  : BOOLEAN,    \* TcpServer::_releaseOrNot: inactive
                                  \* connections are released
            prompt  : BOOLEAN,    \* no second passes while the acceptor is in
                                  \* NewConnection
            resets  : BOOLEAN,    \* clients may reset their connection
            workers : BOOLEAN,    \* SetCount was called
            silent  : Nat,      \* the ShutdownInLoop's, one within the other, in
                                \* which a message callback may have sent nothing
            empty   : BOOLEAN,  \* a Send with no Shutdown may be of no bytes
            calls   : SUBSET {"Send", "Shutdown", "Release", "EnableInactiveRelease",
                              "CancelInactiveRelease", "SwitchProtocol"},
                                  \* of a connection, by another thread
            conns   : SUBSET Conn,   \* the connections clients open
            fds     : SUBSET Fd]     \* the descriptors there are

ASSUME ProgramAssumption == Programs \subseteq Program /\ MaxCalls \in Nat
ASSUME TimeoutAssumption == Timeout \in Nat \ {0} /\ MaxLate \in Nat
ASSUME NoneAssumption == NoConn \notin Conn /\ NoFd \notin Fd

VARIABLES
  program,     \* which of the programs runs
  \* the kernel and the clients
  file,        \* whose socket is open at each descriptor
  peer,        \* the client's end
  rx,          \* the socket's receive queue is not empty
  \* the worker's Epoller
  channels,    \* _channels: whose Channel is found by each descriptor
  registered,  \* the descriptors in the kernel's epoll set
  interest,    \* the event mask the kernel holds for each of them
  \* the worker's loop
  pc,          \* its phase, as in EventLoop
  actives,     \* _revents of the channels epoll_wait returned, {} for the others
  tickActive,  \* epoll_wait returned the timerfd
  tasks,       \* _tasks
  pending,     \* the rest of the batch of RunTasks
  late,        \* expirations of the timerfd not yet read
  left,        \* ticks left to a connection's timer, 0 if it has none
  valid,       \* the timer is not cancelled
  \* the acceptor's thread
  accepting,   \* NewConnection: the connection, and the call it is about to make;
               \* "ready" when the base loop is to handle the listening socket
  connections, \* TcpServer::_connections
  baseTasks,   \* the connections whose RemoveConnectionInLoop is queued
  \* the application's threads
  held,        \* the connections they keep a pointer to
  calls,       \* how many calls they made
  \* the objects
  conn,        \* the Connection objects
  fault        \* how the process died, "none" while it lives

kernelVars == <<file, peer, rx>>
epollVars  == <<channels, registered, interest>>
timerVars  == <<late, left, valid>>
loopVars   == <<pc, actives, tickActive, tasks, pending>>
userVars   == <<held, calls, program>>
baseVars   == <<accepting, connections, baseTasks, userVars>>
vars == <<kernelVars, epollVars, timerVars, loopVars, baseVars, conn, fault>>

Status == {"CONNECTING", "CONNECTED", "DISCONNECTED", "DISCONNECTING"}

PeerState == {"away", "open", "fin",  \* not connected, connected, shut down
              "reset", "dead",        \* reset, and the error was reported
              "closed"}               \* this end closed the socket

Event == {"IN", "OUT", "ERR", "HUP"}

Fault == {"none", "assert", "bad_copy", "dangling_task", "dangling_timer", "dangling_event"}

Op == {"Established", "Send", "Shutdown", "Release",        \* of a Connection
       "EnableInactiveRelease", "CancelInactiveRelease", "SwitchProtocol",
       "Add", "Update", "Cancel"}                           \* of the TimeWheel

Timers  == program.timers
Prompt  == program.prompt
Resets  == program.resets
Workers == program.workers
Calls   == program.calls
Silent  == program.silent
Empty   == program.empty

TypeOK ==
    /\ program \in Programs
    /\ file \in [Fd -> Conn \cup {NoConn}]
    /\ peer \in [Conn -> PeerState]
    /\ rx \in [Conn -> BOOLEAN]
    /\ channels \in [Fd -> Conn \cup {NoConn}]
    /\ registered \in SUBSET Fd
    /\ interest \in [Fd -> SUBSET {"IN", "OUT"}]
    /\ pc \in {"monitor", "handle", "run"}
    /\ actives \in [Conn -> SUBSET Event]
    /\ tickActive \in BOOLEAN
    /\ tasks \in Seq(Op \X Conn)
    /\ pending \in Seq(Op \X Conn)
    /\ late \in 0 .. MaxLate
    /\ left \in [Conn -> 0 .. Timeout]
    /\ valid \in [Conn -> BOOLEAN]
    /\ accepting \in [step : {"idle", "ready", "establish", "insert"},
                      conn : Conn \cup {NoConn}]
    /\ connections \in SUBSET Conn
    /\ baseTasks \in Seq(Conn)
    /\ held \in SUBSET Conn
    /\ calls \in 0 .. MaxCalls
    /\ conn \in [Conn -> [status : Status, releaseOrNot : BOOLEAN,
                          fd : Fd \cup {NoFd}, events : SUBSET {"IN", "OUT"},
                          in : BOOLEAN, out : BOOLEAN, releases : Nat,
                          protocol : [message : {"first", "next"},
                                      others : {"first", "next"}]]]
    /\ fault \in Fault

Idle == [step |-> "idle", conn |-> NoConn]

Init ==
    /\ program \in Programs
    /\ file = [fd \in Fd |-> NoConn]
    /\ peer = [c \in Conn |-> "away"]
    /\ rx = [c \in Conn |-> FALSE]
    /\ channels = [fd \in Fd |-> NoConn]
    /\ registered = {}
    /\ interest = [fd \in Fd |-> {}]
    /\ pc = "monitor"
    /\ actives = [c \in Conn |-> {}]
    /\ tickActive = FALSE
    /\ tasks = <<>>
    /\ pending = <<>>
    /\ late = 0
    /\ left = [c \in Conn |-> 0]
    /\ valid = [c \in Conn |-> FALSE]
    /\ accepting = Idle
    /\ connections = {}
    /\ baseTasks = <<>>
    /\ held = {}
    /\ calls = 0
    /\ conn = [c \in Conn |->
                 [status |-> "CONNECTING", releaseOrNot |-> FALSE, fd |-> NoFd,
                  events |-> {}, in |-> FALSE, out |-> FALSE, releases |-> 0,
                  protocol |-> [message |-> "first", others |-> "first"]]]
    /\ fault = "none"

Running == fault = "none"

Open(c) == \E fd \in Fd : file[fd] = c

(***************************************************************************)
(* The shared pointers to a Connection: the map's, those bound into the    *)
(* tasks of RemoveConnection, NewConnection's own and the application's.   *)
(* The channel's callbacks, the tasks of the worker and the closure of the *)
(* timer hold the bare `this'.                                             *)
(***************************************************************************)
Freed(c) == /\ conn[c].fd # NoFd
            /\ c \notin connections
            /\ c \notin ToSet(baseTasks)
            /\ accepting.conn # c
            /\ c \notin held

(* Without a worker NewConnection is a handler of the one loop. *)
LoopIsFree == ~Workers => accepting.step \in {"idle", "ready"}
-----------------------------------------------------------------------------
(***************************************************************************)
(* The handlers.  One runs in the loop's thread from beginning to end; it  *)
(* takes and returns what it may change, h: the connection c and its       *)
(* members k, the epoll set, the socket, the tasks it pushed and how it    *)
(* died.  A handler that may go several ways returns the set of outcomes.  *)
(***************************************************************************)

Begin(c) == [c |-> c, k |-> conn[c], peer |-> peer[c], rx |-> rx[c],
             channels |-> channels, registered |-> registered, interest |-> interest,
             push |-> <<>>, fault |-> "none"]

(* What follows an outcome, unless the process died in it. *)
Then(outcomes, Handler(_)) ==
    UNION {IF h.fault = "none" THEN Handler(h) ELSE {h} : h \in outcomes}

Push(h, op) == [h EXCEPT !.push = Append(@, <<op, h.c>>)]

(* Channel::UpdateToEpoll.  Epoller::UpdateOrAdd decides by the descriptor *)
(* between MOD and ADD, and only logs it if the kernel refuses.            *)
UpdateToEpoll(h) ==
    LET fd   == h.k.fd
        add  == h.channels[fd] = NoConn
        kept == IF add THEN file[fd] # NoConn /\ fd \notin h.registered
                       ELSE fd \in h.registered
    IN  [h EXCEPT !.channels[fd] = IF add THEN h.c ELSE @,
                  !.registered   = IF kept THEN @ \cup {fd} ELSE @,
                  !.interest[fd] = IF kept THEN h.k.events ELSE @]

CareRead(h)     == UpdateToEpoll([h EXCEPT !.k.events = @ \cup {"IN"}])
CareWrite(h)    == UpdateToEpoll([h EXCEPT !.k.events = @ \cup {"OUT"}])
DisableWrite(h) == UpdateToEpoll([h EXCEPT !.k.events = @ \ {"OUT"}])

CareWriteOnce(h) == IF "OUT" \in h.k.events THEN h ELSE CareWrite(h)

(* Release never runs ReleaseInLoop itself: it always pushes it. *)
Release(h) == Push(h, "Release")

\* (Mutant) The connection is not watched for room to write in.
SendWithoutCare(h, some) ==
    IF h.k.status = "DISCONNECTED" THEN h ELSE [h EXCEPT !.k.out = @ \/ some]

(* The data may be of no bytes: room for it is asked for all the same. *)
SendInLoop(h, some) ==
    IF h.k.status = "DISCONNECTED"
    THEN h
    ELSE CareWriteOnce([h EXCEPT !.k.out = @ \/ some])

\* (Mutant) The output is not waited for.
ReleaseAtOnce(h, n) == Release(h)

(* What n ShutdownInLoop's, one within the other's message callback, do    *)
(* when the innermost callback has returned: each asks for the release.    *)
FlushOrRelease(h, n) ==
    IF h.k.out
    THEN CareWriteOnce(h)
    ELSE [h EXCEPT !.push = @ \o [i \in 1 .. n |-> <<"Release", h.c>>]]

Disconnecting(h) == [h EXCEPT !.k.status = "DISCONNECTING"]

(* UpgradeInLoop replaces every callback but the one for messages. *)
UpgradeInLoop(h) == [h EXCEPT !.k.protocol.others = "next"]

(* The message callback, called with a non-empty input buffer: the request *)
(* is incomplete, and what there is of it has been consumed or not; or     *)
(* requests have been answered and a piece of the next one may be left; or *)
(* the last answer has been sent, and what comes behind it may be left.    *)
(* In the last case the ShutdownInLoop that Shutdown runs calls the        *)
(* callback again on what is left: it may only do more of the same, which  *)
(* leaves the connection as the first time does.                           *)
(*                                                                         *)
(* Or it shuts down having sent nothing, with an empty Send or none; and   *)
(* again, in the ShutdownInLoop that this runs, on what is left.           *)
MessageCallback(h) ==
    LET Left(rest)  == [h EXCEPT !.k.in = rest]
        Silently(g) == {FlushOrRelease(Disconnecting(g), n) : n \in 1 .. Silent}
        Ways(rest) ==
            {Left(rest), SendInLoop(Left(rest), TRUE),
             FlushOrRelease(Disconnecting(SendInLoop(Left(rest), TRUE)), 1)}
            \cup (IF Empty THEN {SendInLoop(Left(rest), FALSE)} ELSE {})
            \cup Silently(Left(rest)) \cup Silently(SendInLoop(Left(rest), FALSE))
    IN  Ways(FALSE) \cup Ways(TRUE)

MessageIfAny(h) == IF h.k.in THEN MessageCallback(h) ELSE {h}

ShutdownInLoop(h) ==
    {FlushOrRelease(g, 1) : g \in MessageIfAny(Disconnecting(h))}

(* _in_buffer.WriteAndPush(buff, -1): std::copy over a range of -1 bytes   *)
(* is a memmove of 2^64 - 1 bytes or nothing, by the library; in the       *)
(* second case the buffer then loses a byte, perhaps its only one.         *)
PushMinusOne(h) == {[h EXCEPT !.fault = "bad_copy"], [h EXCEPT !.k.in = FALSE], h}

(* recv returns -1, and after ShutdownInLoop the handler goes on with that *)
(* -1 for a length.                                                        *)
ReadFails(h) ==
    Then(Then(ShutdownInLoop([h EXCEPT !.peer = "dead"]), PushMinusOne), MessageIfAny)

(* recv returns data; or -1; or 0, at the end of the stream or when there  *)
(* is nothing to read, which is like no data at all.                       *)
HandleRead(h) ==
    CASE file[h.k.fd] = h.c /\ h.rx ->
           MessageCallback([h EXCEPT !.k.in = TRUE, !.rx = FALSE])
      [] file[h.k.fd] # h.c \/ (h.peer = "reset" /\ ~h.rx) -> ReadFails(h)
      [] OTHER -> MessageIfAny(h)

SendFails(h) == file[h.k.fd] # h.c \/ h.peer \in {"reset", "dead"}

\* (Mutant) The shutdown is not completed when the output is flushed.
FlushedOnly(h) == DisableWrite([h EXCEPT !.k.out = FALSE])

Flushed(h) ==
    LET g == DisableWrite([h EXCEPT !.k.out = FALSE])
    IN  IF g.k.status = "DISCONNECTING" THEN Release(g) ELSE g

(* send fails, and the handler goes on with -1 for a length, which puts a  *)
(* byte back in the output; or it takes everything; or only part of it.    *)
HandleWrite(h, all) ==
    IF SendFails(h)
    THEN {Release([g EXCEPT !.k.out = TRUE]) :
             g \in MessageIfAny([h EXCEPT !.peer = IF @ = "reset" THEN "dead" ELSE @])}
    ELSE IF all \/ ~h.k.out THEN {Flushed(h)} ELSE {h}

HandleClose(h) == {Release(g) : g \in MessageIfAny(h)}

HandleAny(h) == {IF h.k.releaseOrNot THEN Push(h, "Update") ELSE h}

(* Channel::HandleEvents for the events `rev'.  `all': the socket takes    *)
(* all the output, if HandleWrite is called.                               *)
Outcomes(c, rev, all) ==
    LET read  == IF "IN" \in rev THEN HandleRead(Begin(c)) ELSE {Begin(c)}
        Write(h) == HandleWrite(h, all)
        write == CASE "OUT" \in rev -> Then(read, Write)
                   [] "OUT" \notin rev /\ rev \cap {"ERR", "HUP"} # {} ->
                        Then(read, HandleClose)
                   [] OTHER -> read
    IN  Then(write, HandleAny)

End(h) ==
    /\ conn' = [conn EXCEPT ![h.c] = h.k]
    /\ channels' = h.channels
    /\ registered' = h.registered
    /\ interest' = h.interest
    /\ peer' = [peer EXCEPT ![h.c] = h.peer]
    /\ rx' = [rx EXCEPT ![h.c] = h.rx]
    /\ tasks' = tasks \o h.push
    /\ fault' = h.fault
    /\ UNCHANGED file

(* The bare `this' of a Connection that is no more is dereferenced. *)
Dangling(where) == /\ fault' = where
                   /\ UNCHANGED <<kernelVars, epollVars, tasks, conn>>

-----------------------------------------------------------------------------
(***************************************************************************)
(* The worker's loop: epoll_wait, the events, the batch.                   *)
(***************************************************************************)

Ready(c) ==
    (IF rx[c] \/ peer[c] \in {"fin", "reset", "dead"} THEN {"IN"} ELSE {})
    \cup (IF peer[c] = "reset" THEN {"ERR"} ELSE {})
    \cup (IF peer[c] \in {"reset", "dead"} THEN {"HUP"} ELSE {})

(* What epoll_wait reports of a descriptor when the sockets of `writable'  *)
(* have room: ERR and HUP even if nobody asked.                            *)
Reported(fd, writable) ==
    IF fd \notin registered
    THEN {}
    ELSE LET c == file[fd]
             e == Ready(c) \cup (IF c \in writable \/ peer[c] \in {"reset", "dead"}
                                 THEN {"OUT"} ELSE {})
         IN  e \cap (interest[fd] \cup {"ERR", "HUP"})

\* (Mutant) Nothing wakes epoll_wait for a task.
MonitorEventsOnly(writable) ==
    /\ Running /\ LoopIsFree
    /\ pc = "monitor"
    /\ actives' = [c \in Conn |->
                     UNION {Reported(fd, writable) : fd \in {d \in Fd : channels[d] = c}}]
    /\ tickActive' = (late > 0)
    /\ tickActive' \/ \E c \in Conn : actives'[c] # {}
    /\ pc' = "handle"
    /\ UNCHANGED <<kernelVars, epollVars, timerVars, tasks, pending, baseVars, conn, fault>>

(* The channel the events of a descriptor go to is the one the map has for *)
(* it.  A task in the vector means that the eventfd is signalled.          *)
Monitor(writable) ==
    /\ Running /\ LoopIsFree
    /\ pc = "monitor"
    /\ actives' = [c \in Conn |->
                     UNION {Reported(fd, writable) : fd \in {d \in Fd : channels[d] = c}}]
    /\ tickActive' = (late > 0)
    /\ \/ accepting' = accepting
       \/ ~Workers /\ accepting' = [Idle EXCEPT !.step = "ready"]
    /\ \/ tasks # <<>>
       \/ tickActive'
       \/ accepting' # accepting
       \/ \E c \in Conn : actives'[c] # {}
    /\ pc' = "handle"
    /\ UNCHANGED <<kernelVars, epollVars, timerVars, tasks, pending, connections,
                   baseTasks, userVars, conn, fault>>

HandleEvents(c, all) ==
    /\ Running /\ LoopIsFree
    /\ pc = "handle"
    /\ actives[c] # {}
    /\ actives' = [actives EXCEPT ![c] = {}]
    /\ IF Freed(c)
       THEN Dangling("dangling_event")
       ELSE \E h \in Outcomes(c, actives[c], all) : End(h)
    /\ UNCHANGED <<timerVars, pc, tickActive, pending, baseVars>>

(* TimeWheel::Tick: the timers that are due fire, the earlier first; the   *)
(* closure of one is Connection::Release.                                  *)
Tick ==
    LET due == {c \in Conn : left[c] > 0 /\ left[c] <= late}
        firing == {c \in due : valid[c]}
    IN  /\ Running /\ LoopIsFree
        /\ pc = "handle"
        /\ tickActive
        /\ tickActive' = FALSE
        /\ late' = 0
        /\ left' = [c \in Conn |-> IF c \in due \/ left[c] = 0 THEN 0 ELSE left[c] - late]
        /\ valid' = [c \in Conn |-> valid[c] /\ c \notin due]
        /\ IF \E c \in firing : Freed(c)
           THEN Dangling("dangling_timer")
           ELSE /\ \E order \in SetToSeqs(firing) :
                     /\ \A i, j \in DOMAIN order : i < j => left[order[i]] <= left[order[j]]
                     /\ tasks' = tasks \o [i \in DOMAIN order |-> <<"Release", order[i]>>]
                /\ UNCHANGED <<kernelVars, epollVars, conn, fault>>
        /\ UNCHANGED <<pc, actives, pending, baseVars>>

(* A listening socket nobody was accepted from had no descriptor to spare. *)
RunTasks ==
    /\ Running /\ LoopIsFree
    /\ pc = "handle"
    /\ ~tickActive
    /\ \A c \in Conn : actives[c] = {}
    /\ pending' = tasks
    /\ tasks' = <<>>
    /\ pc' = IF tasks = <<>> THEN "monitor" ELSE "run"
    /\ accepting' = IF Workers THEN accepting ELSE Idle
    /\ UNCHANGED <<kernelVars, epollVars, timerVars, actives, tickActive, connections,
                   baseTasks, userVars, conn, fault>>

(* The next task of the batch is op of c; after the last, epoll_wait. *)
Task(op, c) ==
    /\ Running /\ LoopIsFree
    /\ pc = "run"
    /\ Head(pending) = <<op, c>>
    /\ pending' = Tail(pending)
    /\ pc' = IF Len(pending) = 1 THEN "monitor" ELSE "run"
    /\ UNCHANGED <<actives, tickActive>>

-----------------------------------------------------------------------------
(***************************************************************************)
(* The tasks of a Connection.                                              *)
(***************************************************************************)

EnableInactiveReleaseInLoop(c) ==
    /\ Task("EnableInactiveRelease", c)
    /\ IF Freed(c)
       THEN Dangling("dangling_task")
       ELSE LET h == [Begin(c) EXCEPT !.k.releaseOrNot = TRUE]
            IN  End(Push(h, IF left[c] > 0 THEN "Update" ELSE "Add"))
    /\ UNCHANGED <<timerVars, baseVars>>

\* (Mutant) Only the timer is cancelled.
CancelTimerOnly(c) ==
    /\ Task("CancelInactiveRelease", c)
    /\ IF Freed(c)
       THEN Dangling("dangling_task")
       ELSE End(IF left[c] > 0 THEN Push(Begin(c), "Cancel") ELSE Begin(c))
    /\ UNCHANGED <<timerVars, baseVars>>

CancelInactiveReleaseInLoop(c) ==
    /\ Task("CancelInactiveRelease", c)
    /\ IF Freed(c)
       THEN Dangling("dangling_task")
       ELSE LET h == [Begin(c) EXCEPT !.k.releaseOrNot = FALSE]
            IN  End(IF left[c] > 0 THEN Push(h, "Cancel") ELSE h)
    /\ UNCHANGED <<timerVars, baseVars>>

(* SendInLoop, ShutdownInLoop and UpgradeInLoop, pushed by another thread. *)
CalledInLoop(c) ==
    \E op \in {"Send", "Shutdown", "SwitchProtocol"} :
       /\ Task(op, c)
       /\ CASE Freed(c) -> Dangling("dangling_task")
            [] ~Freed(c) /\ op = "Send" ->
                 \E some \in BOOLEAN : (some \/ Empty) /\ End(SendInLoop(Begin(c), some))
            [] ~Freed(c) /\ op = "Shutdown" -> \E h \in ShutdownInLoop(Begin(c)) : End(h)
            [] OTHER -> End(UpgradeInLoop(Begin(c)))
       /\ UNCHANGED <<timerVars, baseVars>>

\* (Mutant) Nothing is asserted.
EstablishedAnyway(c) ==
    /\ Task("Established", c)
    /\ IF Freed(c)
       THEN Dangling("dangling_task")
       ELSE End(CareRead([Begin(c) EXCEPT !.k.status = "CONNECTED"]))
    /\ UNCHANGED <<timerVars, baseVars>>

EstablishedInLoop(c) ==
    /\ Task("Established", c)
    /\ CASE Freed(c) -> Dangling("dangling_task")
         [] ~Freed(c) /\ conn[c].status # "CONNECTING" ->
              End([Begin(c) EXCEPT !.fault = "assert"])
         [] OTHER -> End(CareRead([Begin(c) EXCEPT !.k.status = "CONNECTED"]))
    /\ UNCHANGED <<timerVars, baseVars>>

(* The server's closed callback: the base loop is to erase the connection  *)
(* from the map, or does so at once.                                       *)
RemoveConnection(c) ==
    /\ IF Workers
       THEN baseTasks' = Append(baseTasks, c) /\ UNCHANGED connections
       ELSE connections' = connections \ {c} /\ UNCHANGED baseTasks
    /\ UNCHANGED <<accepting, userVars>>

\* (Mutant) The channel stays in the map when the descriptor is closed.
ReleaseWithoutRemove(c) ==
    /\ Task("Release", c)
    /\ IF Freed(c)
       THEN Dangling("dangling_task") /\ UNCHANGED baseVars
       ELSE /\ conn' = [conn EXCEPT ![c].status = "DISCONNECTED",
                                    ![c].releaseOrNot = FALSE,
                                    ![c].releases = @ + 1]
            /\ registered' = IF file[conn[c].fd] = c
                             THEN registered \ {conn[c].fd} ELSE registered
            /\ file' = [d \in Fd |-> IF file[d] = c THEN NoConn ELSE file[d]]
            /\ peer' = [peer EXCEPT ![c] = "closed"]
            /\ RemoveConnection(c)
            /\ UNCHANGED <<rx, channels, interest, tasks, fault>>
    /\ UNCHANGED timerVars

\* (Mutant) The worker erases the connection from the server's map itself.
ReleaseAndErase(c) ==
    /\ Task("Release", c)
    /\ IF Freed(c)
       THEN Dangling("dangling_task") /\ UNCHANGED baseVars
       ELSE /\ conn' = [conn EXCEPT ![c].status = "DISCONNECTED",
                                    ![c].releaseOrNot = FALSE,
                                    ![c].releases = @ + 1]
            /\ channels' = [channels EXCEPT ![conn[c].fd] = NoConn]
            /\ registered' = registered \ {conn[c].fd}
            /\ interest' = [interest EXCEPT ![conn[c].fd] = {}]
            /\ file' = [d \in Fd |-> IF file[d] = c THEN NoConn ELSE file[d]]
            /\ peer' = [peer EXCEPT ![c] = "closed"]
            /\ connections' = connections \ {c}
            /\ UNCHANGED <<rx, tasks, fault, accepting, baseTasks, userVars>>
    /\ UNCHANGED timerVars

(* Epoller::Remove, by descriptor; then the socket is closed, once; then   *)
(* CancelInactiveReleaseInLoop, if the timer was enabled; then the closed  *)
(* callbacks, the last of which asks the acceptor's thread to forget the   *)
(* connection.                                                             *)
ReleaseInLoop(c) ==
    /\ Task("Release", c)
    /\ IF Freed(c)
       THEN Dangling("dangling_task") /\ UNCHANGED baseVars
       ELSE LET fd == conn[c].fd
            IN  /\ conn' = [conn EXCEPT ![c].status = "DISCONNECTED",
                                        ![c].releaseOrNot = FALSE,
                                        ![c].releases = @ + 1]
                /\ channels' = [channels EXCEPT ![fd] = NoConn]
                /\ IF channels[fd] # NoConn \/ file[fd] = c
                   THEN /\ registered' = registered \ {fd}
                        /\ interest' = [interest EXCEPT ![fd] = {}]
                   ELSE UNCHANGED <<registered, interest>>
                /\ file' = [d \in Fd |-> IF file[d] = c THEN NoConn ELSE file[d]]
                /\ peer' = [peer EXCEPT ![c] = "closed"]
                /\ rx' = [rx EXCEPT ![c] = FALSE]
                /\ tasks' = IF conn[c].releaseOrNot /\ left[c] > 0
                            THEN Append(tasks, <<"Cancel", c>>)
                            ELSE tasks
                /\ RemoveConnection(c)
                /\ UNCHANGED fault
    /\ UNCHANGED timerVars

(***************************************************************************)
(* The tasks of the TimeWheel, as the actions of Timers.                   *)
(***************************************************************************)

TimerTask(op, c) ==
    /\ Task(op, c)
    /\ UNCHANGED <<late, tasks, kernelVars, epollVars, baseVars, conn, fault>>

AddTimer(c) ==
    /\ TimerTask("Add", c)
    /\ left' = [left EXCEPT ![c] = IF @ = 0 THEN Timeout ELSE @]
    /\ valid' = [valid EXCEPT ![c] = left[c] = 0 \/ @]

\* (Mutant) A refresh adds to what is left.
UpdateTimerExtends(c) ==
    /\ TimerTask("Update", c)
    /\ left' = [left EXCEPT ![c] = IF @ = 0 THEN 0 ELSE @ + Timeout]
    /\ UNCHANGED valid

UpdateTimer(c) ==
    /\ TimerTask("Update", c)
    /\ left' = [left EXCEPT ![c] = IF @ = 0 THEN 0 ELSE Timeout]
    /\ UNCHANGED valid

\* (Mutant) A cancelled timer stays valid.
CancelNothing(c) == TimerTask("Cancel", c) /\ UNCHANGED <<left, valid>>

CancelTimer(c) ==
    /\ TimerTask("Cancel", c)
    /\ valid' = [valid EXCEPT ![c] = FALSE]
    /\ UNCHANGED left

-----------------------------------------------------------------------------
(***************************************************************************)
(* The acceptor's thread.                                                  *)
(***************************************************************************)

notBaseVars == <<epollVars, timerVars, pc, actives, tickActive, pending, userVars, fault>>

(* accept returns a free descriptor; NewConnection constructs the object   *)
(* and, if the server releases inactive connections, enables it: in the    *)
(* worker's loop, or at once.                                              *)
NewConnection(c, fd) ==
    /\ Running
    /\ accepting.step = IF Workers THEN "idle" ELSE "ready"
    /\ c \in program.conns /\ peer[c] = "away"
    /\ fd \in program.fds /\ file[fd] = NoConn
    /\ file' = [file EXCEPT ![fd] = c]
    /\ peer' = [peer EXCEPT ![c] = "open"]
    /\ conn' = [conn EXCEPT ![c].fd = fd, ![c].releaseOrNot = Timers /\ ~Workers]
    /\ tasks' = IF Timers
                THEN Append(tasks, <<IF Workers THEN "EnableInactiveRelease" ELSE "Add", c>>)
                ELSE tasks
    /\ accepting' = [step |-> "establish", conn |-> c]
    /\ UNCHANGED <<rx, connections, baseTasks, notBaseVars>>

Established ==
    /\ Running
    /\ accepting.step = "establish"
    /\ IF Workers
       THEN /\ tasks' = Append(tasks, <<"Established", accepting.conn>>)
            /\ UNCHANGED <<kernelVars, epollVars, conn, fault>>
       ELSE End(CareRead([Begin(accepting.conn) EXCEPT !.k.status = "CONNECTED"]))
    /\ accepting' = [accepting EXCEPT !.step = "insert"]
    /\ UNCHANGED <<connections, baseTasks, timerVars, pc, actives, tickActive, pending,
                   userVars>>

InsertConnection ==
    /\ Running
    /\ accepting.step = "insert"
    /\ connections' = connections \cup {accepting.conn}
    /\ accepting' = Idle
    /\ UNCHANGED <<kernelVars, conn, tasks, baseTasks, notBaseVars>>

RemoveConnectionInLoop ==
    /\ Running
    /\ accepting.step = "idle"
    /\ baseTasks # <<>>
    /\ connections' = connections \ {Head(baseTasks)}
    /\ baseTasks' = Tail(baseTasks)
    /\ UNCHANGED <<kernelVars, conn, tasks, accepting, notBaseVars>>

-----------------------------------------------------------------------------
(***************************************************************************)
(* The application's threads.                                              *)
(***************************************************************************)

notUserVars == <<kernelVars, epollVars, timerVars, pc, actives, tickActive, pending,
                 accepting, connections, baseTasks, conn, fault>>

(* The connected callback hands its pointer over. *)
Hold(c) ==
    /\ Running
    /\ Calls # {}
    /\ conn[c].status = "CONNECTED" /\ c \notin held
    /\ held' = held \cup {c}
    /\ UNCHANGED <<calls, program, tasks, notUserVars>>

Drop(c) ==
    /\ Running
    /\ c \in held
    /\ held' = held \ {c}
    /\ UNCHANGED <<calls, program, tasks, notUserVars>>

(* From another thread, RunInLoop pushes. *)
Call(c, op) ==
    /\ Running
    /\ c \in held
    /\ calls < MaxCalls
    /\ calls' = calls + 1
    /\ tasks' = Append(tasks, <<op, c>>)
    /\ UNCHANGED <<held, program, notUserVars>>

-----------------------------------------------------------------------------
(***************************************************************************)
(* External: the clients, and the second hand.                             *)
(***************************************************************************)

notClientVars == <<file, epollVars, timerVars, loopVars, baseVars, conn, fault>>

ClientSends(c) ==
    /\ Running
    /\ peer[c] = "open" /\ ~rx[c]
    /\ rx' = [rx EXCEPT ![c] = TRUE]
    /\ UNCHANGED <<peer, notClientVars>>

ClientShutsDown(c) ==
    /\ Running
    /\ peer[c] = "open"
    /\ peer' = [peer EXCEPT ![c] = "fin"]
    /\ UNCHANGED <<rx, notClientVars>>

ClientResets(c) ==
    /\ Running
    /\ Resets
    /\ peer[c] \in {"open", "fin"}
    /\ peer' = [peer EXCEPT ![c] = "reset"]
    /\ UNCHANGED <<rx, notClientVars>>

Second ==
    /\ Running
    /\ Timers
    /\ Prompt => accepting.step = "idle"
    /\ late < MaxLate
    /\ late' = late + 1
    /\ UNCHANGED <<kernelVars, epollVars, left, valid, loopVars, baseVars, conn, fault>>

-----------------------------------------------------------------------------
WorkerStep ==
    \/ \E writable \in SUBSET {c \in Conn : Open(c)} : Monitor(writable)
    \/ \E c \in Conn, all \in BOOLEAN : HandleEvents(c, all)
    \/ Tick
    \/ RunTasks
    \/ \E c \in Conn : \/ EnableInactiveReleaseInLoop(c)
                       \/ CancelInactiveReleaseInLoop(c)
                       \/ CalledInLoop(c)
                       \/ EstablishedInLoop(c)
                       \/ ReleaseInLoop(c)
                       \/ AddTimer(c)
                       \/ UpdateTimer(c)
                       \/ CancelTimer(c)

BaseStep == Established \/ InsertConnection \/ RemoveConnectionInLoop

UserStep == \E c \in Conn : Hold(c) \/ Drop(c) \/ \E op \in Calls : Call(c, op)

ClientStep == \E c \in Conn : ClientSends(c) \/ ClientShutsDown(c) \/ ClientResets(c)

Next == \/ WorkerStep
        \/ BaseStep
        \/ \E c \in Conn, fd \in Fd : NewConnection(c, fd)
        \/ UserStep
        \/ ClientStep
        \/ Second

TakesOutput(c) == "OUT" \in actives[c] /\ HandleEvents(c, TRUE)

(***************************************************************************)
(* Both threads are scheduled, and time passes.  A client that is owed     *)
(* output reads again and again, so that its socket has room when the loop *)
(* polls and takes what HandleWrite offers it.                             *)
(***************************************************************************)
Fairness ==
    /\ WF_vars(WorkerStep)
    /\ WF_vars(BaseStep)
    /\ WF_vars(Second)
    /\ SF_vars(Monitor(Conn))
    /\ \A c \in Conn : SF_vars(TakesOutput(c))

Safety == Init /\ [][Next]_vars

Spec == Safety /\ Fairness
-----------------------------------------------------------------------------
(* Only the message callback, or a Send of another thread, brings a        *)
(* connection to its end; and a callback that shuts down without a word    *)
(* does not do so again within that shutdown.                              *)
Graceful == ~Timers /\ ~Resets /\ Calls \subseteq {"Send"} /\ Silent <= 1 /\ ~Empty

(* Shutdown by another thread after the release sets the status back.      *)
ShutByOthers == "Shutdown" \in Calls

(* The loop is never held up for as long as the timers run.                *)
NeverLate == Timers => MaxLate < Timeout

(* Nothing releases a connection in a later batch than it was released in: *)
(* no other thread asks for it, and no timer fires between the release and *)
(* the Cancel it pushes.                                                   *)
NoLateRelease == /\ Calls \subseteq {"Send", "CancelInactiveRelease", "SwitchProtocol"}
                 /\ NeverLate

(* The timer is enabled when the connection arrives or never.              *)
NeverEnabled == "EnableInactiveRelease" \notin Calls

OneRelease == \A c \in Conn : conn[c].releases <= 1

(* NoDanglingTask: ReleaseInLoop, EstablishedInLoop and the other tasks,   *)
(* which are bound to a bare `this', find their Connection when they run.  *)
NoDanglingTask == fault # "dangling_task"

(* EstablishedInTime: the assertion of EstablishedInLoop holds, if the     *)
(* acceptor gets from EnableInactiveRelease to Established within the      *)
(* timeout, and the loop is not held up for one.                           *)
EstablishedInTime == Prompt /\ NeverLate => fault # "assert"

(* NoDanglingTimer: the closure of an inactivity timer, which is bound to  *)
(* a bare `this' and cancelled by a task that runs in a later batch than   *)
(* the release of the connection, does not run on a freed connection: if   *)
(* nothing releases it late, or if there are no timers.                    *)
NoDanglingTimer == NoLateRelease \/ (~Timers /\ NeverEnabled) => fault # "dangling_timer"

(* NoFault: each way to die needs its cause.  An assertion fails only if   *)
(* the acceptor is held up, a timer's closure finds its connection freed   *)
(* only if a release came late, and without timers, resets, calls of other *)
(* threads and silent shutdowns within shutdowns no task and no event      *)
(* does, and no buffer is given a negative length.                         *)
NoFault ==
    /\ EstablishedInTime
    /\ NoDanglingTimer
    /\ Graceful /\ Calls = {} => fault = "none"

(* ReleasedOnce: a connection is released once, whether the handler that   *)
(* reads or the one that writes finds a reason to in a round of events.    *)
(* Release only pushes a task, and ReleaseInLoop does not look whether it  *)
(* already ran: a second one calls the closed callbacks again, and the     *)
(* first may have freed the object.                                        *)
ReleasedOnce == Graceful => \A c \in Conn : conn[c].releases <= 1

TimerOps == {"EnableInactiveRelease", "CancelInactiveRelease", "Add", "Update", "Cancel"}

(* No operation on the timer of c is queued or about to be. *)
Settled(c) == \A t \in ToSet(tasks) \cup ToSet(pending) : t[2] = c => t[1] \notin TimerOps

(* CancelHolds: when every operation on its timer has been executed, a     *)
(* connection that does not want to be released for inactivity has no      *)
(* timer that would do it: CancelInactiveReleaseInLoop and                 *)
(* EnableInactiveReleaseInLoop look for the timer before they push the     *)
(* operation that changes it, with refreshes and ticks in between.         *)
CancelHolds ==
    \A c \in Conn :
        Settled(c) /\ ~conn[c].releaseOrNot => ~(left[c] > 0 /\ valid[c])

(* EnabledIsArmed: and one that does has a timer that will, unless it has  *)
(* fired.                                                                  *)
EnabledIsArmed ==
    \A c \in Conn :
        /\ Settled(c) /\ conn[c].releaseOrNot
        /\ <<"Release", c>> \notin ToSet(tasks) \cup ToSet(pending)
        => left[c] > 0 /\ valid[c]

(* TimersAsAsked: whatever the order of the calls of another thread, the   *)
(* refreshes and the ticks, the timer is what was asked for last, as long  *)
(* as no other thread enables it again (server.hpp:919-932).               *)
TimersAsAsked == Running /\ NeverEnabled => CancelHolds /\ EnabledIsArmed

(* FlushedBeforeClose: a connection that is shut down is closed only when  *)
(* its output was all taken by the socket, if the client reads it.         *)
FlushedBeforeClose ==
    Graceful /\ Calls = {} => \A c \in Conn : conn[c].status = "DISCONNECTED" => ~conn[c].out

(* FoundIsAlive: the channel the epoll map finds by a descriptor belongs   *)
(* to the connection that has the descriptor, and never to one that was    *)
(* released: no event reaches a stale channel, or a channel that belongs   *)
(* to an earlier owner of the descriptor.                                  *)
FoundIsAlive ==
    ~ShutByOthers => \A fd \in Fd : channels[fd] # NoConn =>
        LET c == channels[fd]
        IN  /\ file[fd] = c
            /\ conn[c].fd = fd
            /\ conn[c].status # "DISCONNECTED"
            /\ ~Freed(c)

(* ConnectedIsFound: an established connection that was not released can   *)
(* be reached by events: the map finds it and the kernel has the mask its  *)
(* channel has, although descriptors are reused as soon as they are closed *)
(* and epoll_ctl errors are ignored.  A connection that is released a      *)
(* second time, in a later batch, removes the channel of whoever has its   *)
(* descriptor by then.                                                     *)
ConnectedIsFound ==
    ~ShutByOthers /\ (NoLateRelease \/ OneRelease) =>
        \A c \in Conn : conn[c].status \in {"CONNECTED", "DISCONNECTING"} =>
            /\ channels[conn[c].fd] = c
            /\ conn[c].fd \in registered
            /\ interest[conn[c].fd] = conn[c].events
            /\ "IN" \in conn[c].events

(* WatchedWhileUnsent: while there is output the kernel is asked for room  *)
(* to write it in; and when there is none it is not, which would keep the  *)
(* loop spinning, unless the connection is about to be released, or the    *)
(* program sends nothing and goes on.                                      *)
WatchedWhileUnsent ==
    ~ShutByOthers => \A c \in Conn : conn[c].status \in {"CONNECTED", "DISCONNECTING"} =>
        /\ conn[c].out => "OUT" \in conn[c].events
        /\ "OUT" \in conn[c].events /\ ~Empty =>
              conn[c].out \/ <<"Release", c>> \in ToSet(tasks) \cup ToSet(pending)

(* FreedIsClosed: the object goes only after ReleaseInLoop closed its      *)
(* descriptor, and the server's map keeps no connection that is closed     *)
(* unless its removal is queued: nothing leaks, whichever of NewConnection *)
(* and the release is first to get to the map.                             *)
FreedIsClosed ==
    ~ShutByOthers => \A c \in Conn :
        /\ Freed(c) => conn[c].status = "DISCONNECTED" /\ ~Open(c)
        /\ c \in connections /\ conn[c].status = "DISCONNECTED" => c \in ToSet(baseTasks)

(* StatusAdvances: once a connection is disconnecting or disconnected it   *)
(* never goes back.                                                        *)
StatusAdvances ==
    [][\A c \in Conn :
         /\ conn[c].status = "DISCONNECTING" => conn'[c].status \in {"DISCONNECTING", "DISCONNECTED"}
         /\ conn[c].status = "DISCONNECTED" /\ ~ShutByOthers =>
               conn'[c].status = "DISCONNECTED"]_vars

(* ShutdownCompletes: a connection being shut down is flushed, closed and  *)
(* freed in the end.                                                       *)
ShutdownCompletes ==
    \A c \in Conn : (conn[c].status = "DISCONNECTING") ~> (Freed(c) \/ ~Running)

(* EveryConnectionServed: a connection that was accepted is established.   *)
EveryConnectionServed ==
    \A c \in Conn : (accepting.conn = c) ~> (conn[c].status # "CONNECTING" \/ ~Running)

(* LazyLinkReleased: a connection whose client is gone is released in the  *)
(* end, by its inactivity timer.                                           *)
LazyLinkReleased ==
    \A c \in Conn : (peer[c] = "fin") ~> (peer[c] # "fin" \/ ~Running)
=============================================================================
