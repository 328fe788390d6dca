-------------------------- MODULE ConnectionProofs --------------------------
(***************************************************************************)
(* What TLAPS proves of Connection, for any connections, descriptors,      *)
(* timeouts and programs: types; what the epoll tables find; who keeps a   *)
(* connection; that timers do as they were asked and no closure or         *)
(* assertion fails without its cause; and, in graceful programs, that a    *)
(* connection is released once and flushed first.                          *)
(*                                                                         *)
(* A handler is a composition of operators on records, so the first part   *)
(* says of each operator what its result is like if its argument is like   *)
(* that (Runs, Sound).  The second part reduces the actions to a few kinds *)
(* of steps, by what they do to the objects and the tables, and the        *)
(* invariants after it (LifeInv, FoundInv, KeptInv, OwedInv) are shown to  *)
(* be kept by the kinds.  The others speak of the tasks in the queue, and go       *)
(* through the actions themselves: GraceInv of graceful programs, and, on  *)
(* what each action does to the queue as one line (Moved, Turns), ArmInv   *)
(* of the timers, LateInv of the releases, EstInv of the task that         *)
(* establishes a connection, and GoneInv of second releases.               *)
(***************************************************************************)
EXTENDS Connection, FiniteSetTheorems, SequenceTheorems, TLAPS

-----------------------------------------------------------------------------
(* The elements of sequences. *)

LEMMA AppendedSet ==
    ASSUME NEW S, NEW q \in Seq(S), NEW e \in S
    PROVE  Append(q, e) \in Seq(S) /\ ToSet(Append(q, e)) = ToSet(q) \cup {e}
<1>1. /\ Append(q, e) \in Seq(S) /\ DOMAIN Append(q, e) = 1..(Len(q) + 1)
      /\ Append(q, e)[Len(q) + 1] = e
      /\ \A i \in 1..Len(q) : Append(q, e)[i] = q[i]
      /\ DOMAIN q = 1..Len(q) /\ Len(q) \in Nat
  OBVIOUS
<1>2. \A x : x \in ToSet(Append(q, e)) <=> x \in ToSet(q) \/ x = e
  BY <1>1 DEF ToSet
<1> QED
  BY <1>1, <1>2

LEMMA JoinedSet ==
    ASSUME NEW S, NEW p \in Seq(S), NEW q \in Seq(S)
    PROVE  p \o q \in Seq(S) /\ ToSet(p \o q) = ToSet(p) \cup ToSet(q)
<1>1. /\ p \o q \in Seq(S) /\ DOMAIN (p \o q) = 1..(Len(p) + Len(q))
      /\ \A i \in 1..Len(p) : (p \o q)[i] = p[i]
      /\ \A i \in 1..Len(q) : (p \o q)[Len(p) + i] = q[i]
      /\ DOMAIN p = 1..Len(p) /\ DOMAIN q = 1..Len(q)
      /\ Len(p) \in Nat /\ Len(q) \in Nat
  OBVIOUS
<1>2. \A i \in 1..(Len(p) + Len(q)) :
         i \in 1..Len(p) \/ \E j \in 1..Len(q) : i = Len(p) + j
  <2> SUFFICES ASSUME NEW i \in 1..(Len(p) + Len(q)), i \notin 1..Len(p)
               PROVE  \E j \in 1..Len(q) : i = Len(p) + j
    OBVIOUS
  <2>1. i - Len(p) \in 1..Len(q) /\ i = Len(p) + (i - Len(p))
    BY <1>1
  <2> QED
    BY <2>1
<1>3. \A i \in 1..Len(p) : i \in 1..(Len(p) + Len(q))
  BY <1>1
<1>4. \A i \in 1..Len(q) : Len(p) + i \in 1..(Len(p) + Len(q))
  BY <1>1
<1> DEFINE r == p \o q
<1>5. /\ ToSet(r) = {r[i] : i \in 1..(Len(p) + Len(q))}
      /\ ToSet(p) = {p[i] : i \in 1..Len(p)}
      /\ ToSet(q) = {q[i] : i \in 1..Len(q)}
  BY <1>1 DEF ToSet
<1>6. /\ \A i \in 1..Len(p) : r[i] = p[i]
      /\ \A i \in 1..Len(q) : r[Len(p) + i] = q[i]
  BY <1>1
<1> HIDE DEF r
<1>7. ASSUME NEW x \in ToSet(r) PROVE x \in ToSet(p) \/ x \in ToSet(q)
  <2>1. PICK i \in 1..(Len(p) + Len(q)) : x = r[i]
    BY <1>5, <1>7
  <2>2. CASE i \in 1..Len(p)
    BY <1>5, <1>6, <2>1, <2>2
  <2>3. CASE \E j \in 1..Len(q) : i = Len(p) + j
    BY <1>5, <1>6, <2>1, <2>3
  <2> QED
    BY <1>2, <2>2, <2>3
<1>8. ASSUME NEW x \in ToSet(p) PROVE x \in ToSet(r)
  BY <1>3, <1>5, <1>6, <1>8
<1>9. ASSUME NEW x \in ToSet(q) PROVE x \in ToSet(r)
  BY <1>4, <1>5, <1>6, <1>9
<1> QED
  BY <1>1, <1>7, <1>8, <1>9 DEF r

LEMMA TailSet ==
    ASSUME NEW S, NEW q \in Seq(S), q # <<>>
    PROVE  /\ Head(q) \in S /\ Tail(q) \in Seq(S)
           /\ ToSet(q) = {Head(q)} \cup ToSet(Tail(q))
           /\ Len(q) = 1 <=> Tail(q) = <<>>
<1>1. /\ Head(q) = q[1] /\ Head(q) \in S /\ Tail(q) \in Seq(S)
      /\ DOMAIN Tail(q) = 1..(Len(q) - 1) /\ DOMAIN q = 1..Len(q)
      /\ Len(q) \in Nat \ {0} /\ Len(Tail(q)) = Len(q) - 1
      /\ \A i \in 1..(Len(q) - 1) : Tail(q)[i] = q[i + 1]
  OBVIOUS
<1>2. \A i \in 1..Len(q) : i = 1 \/ \E j \in 1..(Len(q) - 1) : i = j + 1
  <2> SUFFICES ASSUME NEW i \in 1..Len(q), i # 1
               PROVE  \E j \in 1..(Len(q) - 1) : i = j + 1
    OBVIOUS
  <2>1. i - 1 \in 1..(Len(q) - 1) /\ i = (i - 1) + 1
    BY <1>1
  <2> QED
    BY <2>1
<1>3. 1 \in 1..Len(q) /\ \A j \in 1..(Len(q) - 1) : j + 1 \in 1..Len(q)
  BY <1>1
<1> DEFINE r == Tail(q)
<1>4. /\ ToSet(q) = {q[i] : i \in 1..Len(q)}
      /\ ToSet(r) = {r[i] : i \in 1..(Len(q) - 1)}
      /\ \A i \in 1..(Len(q) - 1) : r[i] = q[i + 1]
      /\ r \in Seq(S) /\ Len(r) = Len(q) - 1
  BY <1>1 DEF ToSet
<1>5. r = <<>> <=> Len(r) = 0
  <2>1. r \in Seq(S)
    BY <1>4
  <2> HIDE DEF r
  <2> QED
    BY <2>1
<1> HIDE DEF r
<1>6. ASSUME NEW x \in ToSet(q) PROVE x = Head(q) \/ x \in ToSet(r)
  <2>1. PICK i \in 1..Len(q) : x = q[i]
    BY <1>4, <1>6
  <2>2. CASE i = 1
    BY <1>1, <2>1, <2>2
  <2>3. CASE \E j \in 1..(Len(q) - 1) : i = j + 1
    BY <1>4, <2>1, <2>3
  <2> QED
    BY <1>2, <2>2, <2>3
<1>7. Head(q) \in ToSet(q)
  BY <1>1, <1>3, <1>4
<1>8. ASSUME NEW x \in ToSet(r) PROVE x \in ToSet(q)
  BY <1>3, <1>4, <1>8
<1>9. Len(q) = 1 <=> r = <<>>
  BY <1>1, <1>4, <1>5
<1> QED
  BY <1>1, <1>6, <1>7, <1>8, <1>9 DEF r

LEMMA EmptySet == ToSet(<<>>) = {}
  BY DEF ToSet

LEMMA InSeq ==
    ASSUME NEW S, NEW q \in Seq(S)
    PROVE  ToSet(q) \subseteq S
  BY DEF ToSet

-----------------------------------------------------------------------------
(* A Connection object, and a handler's state. *)

Object == [status : Status, releaseOrNot : BOOLEAN,
           fd : Fd \cup {NoFd}, events : SUBSET {"IN", "OUT"},
           in : BOOLEAN, out : BOOLEAN, releases : Nat,
           protocol : [message : {"first", "next"}, others : {"first", "next"}]]

Pushed == {"Release", "Add", "Update", "Cancel"}

HandlerState == [c : Conn, k : Object, peer : PeerState, rx : BOOLEAN,
                 channels : [Fd -> Conn \cup {NoConn}], registered : SUBSET Fd,
                 interest : [Fd -> SUBSET {"IN", "OUT"}],
                 push : Seq(Pushed \X Conn), fault : Fault]

(* What UpdateToEpoll does to the descriptor of its connection, and that   *)
(* it does nothing else.                                                   *)
LEMMA UpdateFields ==
    ASSUME NEW h \in HandlerState, h.k.fd \in Fd, NEW g, g = UpdateToEpoll(h)
    PROVE  /\ g \in HandlerState
           /\ g.c = h.c /\ g.k = h.k /\ g.peer = h.peer /\ g.rx = h.rx
           /\ g.push = h.push /\ g.fault = h.fault
           /\ \A d \in Fd \ {h.k.fd} : /\ g.channels[d] = h.channels[d]
                                       /\ g.interest[d] = h.interest[d]
                                       /\ d \in g.registered <=> d \in h.registered
           /\ h.channels[h.k.fd] = NoConn =>
                 /\ g.channels[h.k.fd] = h.c
                 /\ file[h.k.fd] # NoConn /\ h.k.fd \notin h.registered =>
                       h.k.fd \in g.registered /\ g.interest[h.k.fd] = h.k.events
           /\ h.channels[h.k.fd] # NoConn =>
                 /\ g.channels[h.k.fd] = h.channels[h.k.fd]
                 /\ h.k.fd \in g.registered <=> h.k.fd \in h.registered
                 /\ h.k.fd \in h.registered => g.interest[h.k.fd] = h.k.events
<1> DEFINE fd   == h.k.fd
           add  == h.channels[fd] = NoConn
           kept == IF add THEN file[fd] # NoConn /\ fd \notin h.registered
                          ELSE fd \in h.registered
           table == [h.channels EXCEPT ![fd] = IF add THEN h.c ELSE @]
           set   == IF kept THEN h.registered \cup {fd} ELSE h.registered
           masks == [h.interest EXCEPT ![fd] = IF kept THEN h.k.events ELSE @]
<1>1. g = [h EXCEPT !.channels = table, !.registered = set, !.interest = masks]
  BY DEF UpdateToEpoll
<1>2. /\ h.channels \in [Fd -> Conn \cup {NoConn}] /\ h.registered \in SUBSET Fd
      /\ h.interest \in [Fd -> SUBSET {"IN", "OUT"}] /\ h.c \in Conn
      /\ h.k.events \in SUBSET {"IN", "OUT"}
  BY DEF HandlerState, Object
<1>3. /\ table \in [Fd -> Conn \cup {NoConn}] /\ set \in SUBSET Fd
      /\ masks \in [Fd -> SUBSET {"IN", "OUT"}]
  BY <1>2
<1>4. /\ \A d \in Fd \ {fd} : /\ table[d] = h.channels[d] /\ masks[d] = h.interest[d]
                              /\ d \in set <=> d \in h.registered
      /\ table[fd] = IF add THEN h.c ELSE h.channels[fd]
      /\ masks[fd] = IF kept THEN h.k.events ELSE h.interest[fd]
      /\ kept => fd \in set
      /\ ~kept => set = h.registered
  BY <1>2
<1> HIDE DEF table, set, masks
<1>5. /\ g \in HandlerState
      /\ g.c = h.c /\ g.k = h.k /\ g.peer = h.peer /\ g.rx = h.rx
      /\ g.push = h.push /\ g.fault = h.fault
      /\ g.channels = table /\ g.registered = set /\ g.interest = masks
  BY <1>1, <1>3 DEF HandlerState
<1> QED
  BY <1>4, <1>5

-----------------------------------------------------------------------------
(***************************************************************************)
(* What a handler of a connection that was established may have done so    *)
(* far: in any program (Runs), and in one whose connections are not shut   *)
(* down after their release (Sound).                                       *)
(***************************************************************************)

Up == {"CONNECTED", "DISCONNECTING"}

Runs(h) ==
    /\ h \in HandlerState
    /\ h.k.fd \in Fd /\ h.k.fd = conn[h.c].fd
    /\ h.k.status # "CONNECTING"
    /\ conn[h.c].status = "DISCONNECTING" => h.k.status = "DISCONNECTING"
    /\ h.k.releases = conn[h.c].releases
    /\ h.peer # "away" /\ peer[h.c] # "away"
    /\ \A d \in Fd : h.channels[d] \in {channels[d], h.c}
    /\ \A i \in DOMAIN h.push : h.push[i][2] = h.c
    /\ Silent \in Nat

(* The connection has its descriptor, and the tables have it or nobody *)
Placed(h) ==
    /\ h.k.status \in Up
    /\ file[h.k.fd] = h.c
    /\ h.peer # peer[h.c] => peer[h.c] = "reset"
    /\ "IN" \in h.k.events
    /\ h.channels[h.k.fd] \in {h.c, NoConn}
    /\ h.k.fd \in h.registered <=> h.channels[h.k.fd] = h.c
    /\ \A d \in Fd \ {h.k.fd} : /\ h.channels[d] = channels[d]
                                /\ h.interest[d] = interest[d]
                                /\ d \in h.registered <=> d \in registered

Synced(h) == h.channels[h.k.fd] = h.c => h.interest[h.k.fd] = h.k.events

Watched(h) == h.k.out => "OUT" \in h.k.events

Sound(h) == Placed(h) /\ Synced(h) /\ Watched(h)

Queued == ToSet(tasks) \cup ToSet(pending)

(* It does not wait for room with nothing to write and nothing to come. *)
Owed(h) == ~Empty /\ "OUT" \in h.k.events =>
              h.k.out \/ <<"Release", h.c>> \in ToSet(h.push) \cup Queued

(* Members of the connection are assigned to. *)
LEMMA Assigned ==
    ASSUME NEW h, Runs(h), NEW k \in Object, k.fd = h.k.fd, k.releases = h.k.releases,
           k.status \in {h.k.status, "DISCONNECTING"},
           NEW g, g = [h EXCEPT !.k = k]
    PROVE  /\ Runs(g)
           /\ g.c = h.c /\ g.k = k /\ g.peer = h.peer /\ g.rx = h.rx
           /\ g.channels = h.channels /\ g.registered = h.registered
           /\ g.interest = h.interest /\ g.push = h.push /\ g.fault = h.fault
           /\ Placed(h) /\ "IN" \in k.events => Placed(g)
           /\ Synced(h) /\ k.events = h.k.events => Synced(g)
<1>1. h \in HandlerState
  BY DEF Runs
<1>2. /\ g \in HandlerState
      /\ g.c = h.c /\ g.k = k /\ g.peer = h.peer /\ g.rx = h.rx
      /\ g.channels = h.channels /\ g.registered = h.registered
      /\ g.interest = h.interest /\ g.push = h.push /\ g.fault = h.fault
  BY <1>1 DEF HandlerState
<1>3. Runs(g)
  BY <1>2 DEF Runs
<1>4. Placed(h) /\ "IN" \in k.events => Placed(g)
  BY <1>2 DEF Placed, Up
<1>5. Synced(h) /\ k.events = h.k.events => Synced(g)
  BY <1>2 DEF Synced
<1> QED
  BY <1>2, <1>3, <1>4, <1>5

(* The tables are brought up to date, whatever the mask was changed to. *)
LEMMA Updated ==
    ASSUME NEW h, Runs(h), NEW g, g = UpdateToEpoll(h)
    PROVE  /\ Runs(g) /\ g.k = h.k /\ g.c = h.c /\ g.push = h.push /\ g.fault = h.fault
           /\ Placed(h) => Placed(g) /\ Synced(g) /\ g.channels[g.k.fd] = g.c
<1>1. h \in HandlerState /\ h.k.fd \in Fd
  BY DEF Runs
<1>2. /\ g \in HandlerState
      /\ g.c = h.c /\ g.k = h.k /\ g.peer = h.peer /\ g.rx = h.rx
      /\ g.push = h.push /\ g.fault = h.fault
      /\ \A d \in Fd \ {h.k.fd} : /\ g.channels[d] = h.channels[d]
                                  /\ g.interest[d] = h.interest[d]
                                  /\ d \in g.registered <=> d \in h.registered
      /\ h.channels[h.k.fd] = NoConn =>
            /\ g.channels[h.k.fd] = h.c
            /\ file[h.k.fd] # NoConn /\ h.k.fd \notin h.registered =>
                  h.k.fd \in g.registered /\ g.interest[h.k.fd] = h.k.events
      /\ h.channels[h.k.fd] # NoConn =>
            /\ g.channels[h.k.fd] = h.channels[h.k.fd]
            /\ h.k.fd \in g.registered <=> h.k.fd \in h.registered
            /\ h.k.fd \in h.registered => g.interest[h.k.fd] = h.k.events
  BY <1>1, UpdateFields
<1>3. \A d \in Fd : g.channels[d] \in {h.channels[d], h.c}
  BY <1>2
<1>4. Runs(g)
  BY <1>2, <1>3 DEF Runs
<1>5. ASSUME Placed(h) PROVE Placed(g) /\ Synced(g) /\ g.channels[g.k.fd] = g.c
  <2>1. h.c # NoConn
    BY <1>1, NoneAssumption DEF HandlerState
  <2>2. /\ g.channels[h.k.fd] = h.c /\ h.k.fd \in g.registered
        /\ g.interest[h.k.fd] = h.k.events
    BY <1>2, <1>5, <2>1 DEF Placed
  <2> QED
    BY <1>2, <1>5, <2>2 DEF Placed, Synced
<1> QED
  BY <1>2, <1>4, <1>5

LEMMA PushedOne ==
    ASSUME NEW h, Runs(h), NEW op \in Pushed, NEW g, g = Push(h, op)
    PROVE  /\ Runs(g) /\ g.k = h.k /\ g.c = h.c /\ g.fault = h.fault
           /\ g.push = Append(h.push, <<op, h.c>>)
           /\ ToSet(g.push) = ToSet(h.push) \cup {<<op, h.c>>}
           /\ g.channels = h.channels /\ g.registered = h.registered
           /\ g.interest = h.interest
           /\ Placed(h) => Placed(g)
           /\ Synced(h) => Synced(g)
           /\ Watched(h) => Watched(g)
           /\ Sound(h) => Sound(g)
<1>1. h \in HandlerState /\ h.c \in Conn /\ h.push \in Seq(Pushed \X Conn)
  BY DEF Runs, HandlerState
<1> DEFINE push == Append(h.push, <<op, h.c>>)
<1>2. push \in Seq(Pushed \X Conn) /\ ToSet(push) = ToSet(h.push) \cup {<<op, h.c>>}
  BY <1>1, AppendedSet
<1>3. \A i \in DOMAIN push : push[i][2] = h.c
  BY <1>1 DEF Runs
<1>4. g = [h EXCEPT !.push = push]
  BY DEF Push
<1> HIDE DEF push
<1>5. /\ g \in HandlerState
      /\ g.c = h.c /\ g.k = h.k /\ g.peer = h.peer /\ g.rx = h.rx
      /\ g.channels = h.channels /\ g.registered = h.registered
      /\ g.interest = h.interest /\ g.push = push /\ g.fault = h.fault
  BY <1>1, <1>2, <1>4 DEF HandlerState
<1>6. Runs(g)
  BY <1>3, <1>5 DEF Runs
<1>7. (Placed(h) => Placed(g)) /\ (Synced(h) => Synced(g)) /\ (Watched(h) => Watched(g))
  BY <1>5 DEF Placed, Synced, Watched
<1> QED
  BY <1>2, <1>5, <1>6, <1>7 DEF Sound, push

(***************************************************************************)
(* The handlers, one by one.                                               *)
(***************************************************************************)

(* The input buffer is filled or emptied; the status goes on. *)
WithInput(h, b) == [h EXCEPT !.k.in = b]

LEMMA InputSet ==
    ASSUME NEW h, Runs(h), NEW b \in BOOLEAN, NEW g, g = WithInput(h, b)
    PROVE  /\ Runs(g) /\ g.c = h.c /\ g.push = h.push /\ g.fault = h.fault
           /\ g.k = [h.k EXCEPT !.in = b]
           /\ Sound(h) => Sound(g)
<1> DEFINE k == [h.k EXCEPT !.in = b]
<1>1. h.k \in Object
  BY DEF Runs, HandlerState
<1>2. /\ k \in Object /\ k.fd = h.k.fd /\ k.releases = h.k.releases
      /\ k.status \in {h.k.status, "DISCONNECTING"} /\ k.status = h.k.status
      /\ k.events = h.k.events /\ k.out = h.k.out
  BY <1>1 DEF Object
<1>3. g = [h EXCEPT !.k = k]
  BY DEF WithInput
<1> HIDE DEF k
<1>4. /\ Runs(g) /\ g.c = h.c /\ g.k = k /\ g.push = h.push /\ g.fault = h.fault
      /\ Placed(h) /\ "IN" \in k.events => Placed(g)
      /\ Synced(h) /\ k.events = h.k.events => Synced(g)
  BY <1>2, <1>3, Assigned
<1>5. Sound(h) => Sound(g)
  BY <1>2, <1>4 DEF Sound, Placed, Watched
<1> QED
  BY <1>4, <1>5 DEF k

LEMMA Disconnects ==
    ASSUME NEW h, Runs(h), NEW g, g = Disconnecting(h)
    PROVE  /\ Runs(g) /\ g.c = h.c /\ g.push = h.push /\ g.fault = h.fault
           /\ g.k = [h.k EXCEPT !.status = "DISCONNECTING"]
           /\ Sound(h) => Sound(g)
<1> DEFINE k == [h.k EXCEPT !.status = "DISCONNECTING"]
<1>1. h.k \in Object
  BY DEF Runs, HandlerState
<1>2. /\ k \in Object /\ k.fd = h.k.fd /\ k.releases = h.k.releases
      /\ k.status = "DISCONNECTING" /\ k.events = h.k.events /\ k.out = h.k.out
  BY <1>1 DEF Object, Status
<1>3. g = [h EXCEPT !.k = k]
  BY DEF Disconnecting
<1> HIDE DEF k
<1>4. /\ Runs(g) /\ g.c = h.c /\ g.k = k /\ g.push = h.push /\ g.fault = h.fault
      /\ Placed(h) /\ "IN" \in k.events => Placed(g)
      /\ Synced(h) /\ k.events = h.k.events => Synced(g)
  BY <1>2, <1>3, Assigned
<1>5. Sound(h) => Sound(g)
  BY <1>2, <1>4 DEF Sound, Placed, Watched
<1> QED
  BY <1>4, <1>5 DEF k

(* With output the kernel is asked for room, if it is not already. *)
LEMMA WriteCared ==
    ASSUME NEW h, Runs(h), NEW g, g = CareWriteOnce(h)
    PROVE  /\ Runs(g) /\ g.c = h.c /\ g.push = h.push /\ g.fault = h.fault
           /\ g.k = [h.k EXCEPT !.events = @ \cup {"OUT"}]
           /\ Placed(h) /\ Synced(h) => Sound(g)
<1>1. h.k \in Object
  BY DEF Runs, HandlerState
<1>2. CASE "OUT" \in h.k.events
  <2>1. g = h
    BY <1>2 DEF CareWriteOnce
  <2>2. h.k.events \cup {"OUT"} = h.k.events
    BY <1>2
  <2>3. h.k = [h.k EXCEPT !.events = @ \cup {"OUT"}]
    BY <1>1, <2>2 DEF Object
  <2> QED
    BY <1>2, <2>1, <2>3 DEF Sound, Watched
<1>3. CASE "OUT" \notin h.k.events
  <2> DEFINE k == [h.k EXCEPT !.events = @ \cup {"OUT"}]
             a == [h EXCEPT !.k = k]
  <2>1. /\ k \in Object /\ k.fd = h.k.fd /\ k.releases = h.k.releases
        /\ k.status = h.k.status /\ k.events = h.k.events \cup {"OUT"} /\ k.out = h.k.out
    BY <1>1 DEF Object
  <2>2. g = UpdateToEpoll(a)
    BY <1>3 DEF CareWriteOnce, CareWrite
  <2> HIDE DEF k
  <2>3. /\ Runs(a) /\ a.c = h.c /\ a.k = k /\ a.push = h.push /\ a.fault = h.fault
        /\ Placed(h) /\ "IN" \in k.events => Placed(a)
    BY <2>1, Assigned
  <2> HIDE DEF a
  <2>4. /\ Runs(g) /\ g.k = a.k /\ g.c = a.c /\ g.push = a.push /\ g.fault = a.fault
        /\ Placed(a) => Placed(g) /\ Synced(g)
    BY <2>2, <2>3, Updated
  <2>5. Placed(h) /\ Synced(h) => Sound(g)
    BY <2>1, <2>3, <2>4 DEF Placed, Sound, Watched
  <2> QED
    BY <2>3, <2>4, <2>5 DEF k
<1> QED
  BY <1>2, <1>3

(* All the output was taken. *)
LEMMA WriteDisabled ==
    ASSUME NEW h, Runs(h), NEW g, g = DisableWrite([h EXCEPT !.k.out = FALSE])
    PROVE  /\ Runs(g) /\ g.c = h.c /\ g.push = h.push /\ g.fault = h.fault
           /\ g.k = [h.k EXCEPT !.out = FALSE, !.events = @ \ {"OUT"}]
           /\ Placed(h) => Sound(g)
<1> DEFINE k == [h.k EXCEPT !.out = FALSE, !.events = @ \ {"OUT"}]
           a == [h EXCEPT !.k = k]
<1>1. h \in HandlerState /\ h.k \in Object
  BY DEF Runs, HandlerState
<1>2. /\ k \in Object /\ k.fd = h.k.fd /\ k.releases = h.k.releases
      /\ k.status = h.k.status /\ k.events = h.k.events \ {"OUT"} /\ k.out = FALSE
  BY <1>1 DEF Object
<1>3. g = UpdateToEpoll(a)
  <2>1. [[h EXCEPT !.k.out = FALSE] EXCEPT !.k.events = @ \ {"OUT"}] = a
    BY <1>1 DEF HandlerState, Object
  <2> QED
    BY <2>1 DEF DisableWrite
<1> HIDE DEF k
<1>4. /\ Runs(a) /\ a.c = h.c /\ a.k = k /\ a.push = h.push /\ a.fault = h.fault
      /\ Placed(h) /\ "IN" \in k.events => Placed(a)
  BY <1>2, Assigned
<1> HIDE DEF a
<1>5. /\ Runs(g) /\ g.k = a.k /\ g.c = a.c /\ g.push = a.push /\ g.fault = a.fault
      /\ Placed(a) => Placed(g) /\ Synced(g)
  BY <1>3, <1>4, Updated
<1>6. Placed(h) => Sound(g)
  BY <1>2, <1>4, <1>5 DEF Placed, Sound, Watched
<1> QED
  BY <1>4, <1>5, <1>6 DEF k

(* Nothing was pushed but what Release pushes. *)
OnlyReleases(h) == \A i \in DOMAIN h.push : h.push[i] = <<"Release", h.c>>

(* g is what became of h. *)
Follows(h, g) == /\ Runs(g) /\ g.c = h.c
                 /\ Sound(h) => Sound(g)
                 /\ g.k.releaseOrNot = h.k.releaseOrNot
                 /\ OnlyReleases(h) => OnlyReleases(g)
                 /\ Owed(h) => Owed(g)
                 /\ "OUT" \in h.k.events => "OUT" \in g.k.events
                 /\ g.fault \in {h.fault, "bad_copy"}

LEMMA SamePush ==
    ASSUME NEW h, NEW g, g.push = h.push, g.c = h.c
    PROVE  OnlyReleases(h) => OnlyReleases(g)
  BY DEF OnlyReleases

(* And it neither pushed a task nor died. *)
Mute(h, g) == g.push = h.push /\ g.fault = h.fault

LEMMA FollowsOn ==
    ASSUME NEW f, NEW g, NEW h, Follows(f, g), Follows(g, h)
    PROVE  Follows(f, h)
  BY DEF Follows

LEMMA Released ==
    ASSUME NEW h, Runs(h), NEW g, g = Release(h)
    PROVE  /\ Follows(h, g) /\ Owed(g) /\ g.k = h.k /\ g.fault = h.fault
           /\ g.push = Append(h.push, <<"Release", h.c>>)
<1>1. "Release" \in Pushed /\ g = Push(h, "Release")
  BY DEF Pushed, Release
<1>2. /\ Runs(g) /\ g.k = h.k /\ g.c = h.c /\ g.fault = h.fault
      /\ g.push = Append(h.push, <<"Release", h.c>>)
      /\ ToSet(g.push) = ToSet(h.push) \cup {<<"Release", h.c>>}
      /\ Sound(h) => Sound(g)
  BY <1>1, PushedOne
<1>3. h.push \in Seq(Pushed \X Conn)
  BY DEF Runs, HandlerState
<1>4. OnlyReleases(h) => OnlyReleases(g)
  BY <1>2, <1>3 DEF OnlyReleases
<1>5. Owed(g)
  BY <1>2 DEF Owed
<1> QED
  BY <1>2, <1>4, <1>5 DEF Follows

(* Several releases are pushed, or one, which is what Release does. *)
LEMMA ReleasedOften ==
    ASSUME NEW h, Runs(h), NEW n \in Nat \ {0},
           NEW g, g = [h EXCEPT !.push = @ \o [i \in 1 .. n |-> <<"Release", h.c>>]]
    PROVE  /\ Follows(h, g) /\ Owed(g) /\ g.k = h.k /\ g.fault = h.fault
           /\ n = 1 => g.push = Append(h.push, <<"Release", h.c>>)
<1> DEFINE e == <<"Release", h.c>>
           r == [i \in 1 .. n |-> e]
           push == h.push \o r
<1>1. h \in HandlerState /\ h.push \in Seq(Pushed \X Conn) /\ e \in Pushed \X Conn
  BY DEF Runs, HandlerState, Pushed
<1> HIDE DEF e
<1>2. /\ r \in Seq(Pushed \X Conn) /\ DOMAIN r = 1 .. n /\ Len(r) = n
      /\ \A i \in 1 .. n : r[i] = e
  <2>1. r \in [1 .. n -> Pushed \X Conn]
    BY <1>1
  <2>2. r \in Seq(Pushed \X Conn)
    BY <2>1, SeqDef
  <2>3. DOMAIN r = 1 .. n /\ \A i \in 1 .. n : r[i] = e
    OBVIOUS
  <2> HIDE DEF r
  <2>4. Len(r) = n
    BY <2>2, <2>3, LenProperties
  <2> QED
    BY <2>2, <2>3, <2>4
<1> HIDE DEF r
<1>3. ToSet(r) = {e}
  <2>1. 1 \in 1 .. n
    OBVIOUS
  <2> QED
    BY <1>2, <2>1 DEF ToSet
<1>4. push \in Seq(Pushed \X Conn) /\ ToSet(push) = ToSet(h.push) \cup {e}
  BY <1>1, <1>2, <1>3, JoinedSet
<1>5. \A x \in ToSet(push) : x[2] = h.c
  <2>1. \A x \in ToSet(h.push) : x[2] = h.c
    BY DEF Runs, ToSet
  <2>2. e[2] = h.c
    BY DEF e
  <2> QED
    BY <1>4, <2>1, <2>2
<1>6. n = 1 => push = Append(h.push, e)
  <2> SUFFICES ASSUME n = 1 PROVE push = Append(h.push, e)
    OBVIOUS
  <2>1. r = <<e>>
    BY <1>2
  <2> QED
    BY <1>1, <2>1
<1>7. g = [h EXCEPT !.push = push]
  BY DEF r, e
<1> HIDE DEF push
<1>8. /\ g \in HandlerState
      /\ g.c = h.c /\ g.k = h.k /\ g.peer = h.peer /\ g.rx = h.rx
      /\ g.channels = h.channels /\ g.registered = h.registered
      /\ g.interest = h.interest /\ g.push = push /\ g.fault = h.fault
  BY <1>1, <1>4, <1>7 DEF HandlerState
<1>9. \A i \in DOMAIN push : push[i][2] = h.c
  BY <1>5 DEF ToSet
<1>10. Runs(g)
  BY <1>8, <1>9 DEF Runs
<1>11. Sound(h) => Sound(g)
  BY <1>8 DEF Sound, Placed, Synced, Watched
<1>12. OnlyReleases(h) => OnlyReleases(g)
  <2> SUFFICES ASSUME OnlyReleases(h), NEW i \in DOMAIN push PROVE push[i] = e
    BY <1>8 DEF OnlyReleases, e
  <2>1. push[i] \in ToSet(h.push) \cup {e}
    BY <1>4 DEF ToSet
  <2> QED
    BY <2>1 DEF OnlyReleases, ToSet, e
<1>13. Owed(g)
  BY <1>4, <1>8 DEF Owed, e
<1> QED
  BY <1>6, <1>8, <1>10, <1>11, <1>12, <1>13 DEF Follows, e

LEMMA Sent ==
    ASSUME NEW h, Runs(h), NEW some \in BOOLEAN, NEW g, g = SendInLoop(h, some)
    PROVE  /\ Runs(g) /\ g.c = h.c /\ Mute(h, g)
           /\ Sound(h) => Sound(g)
           /\ g.k.status = h.k.status /\ g.k.releaseOrNot = h.k.releaseOrNot
           /\ "OUT" \in h.k.events => "OUT" \in g.k.events
           /\ h.k.out => g.k.out
           /\ h.k.status # "DISCONNECTED" /\ some => g.k.out
           /\ some \/ Empty => Follows(h, g)
<1>1. h.k \in Object
  BY DEF Runs, HandlerState
<1>2. CASE h.k.status = "DISCONNECTED"
  BY <1>2 DEF SendInLoop, Follows, Mute
<1>3. CASE h.k.status # "DISCONNECTED"
  <2> DEFINE k == [h.k EXCEPT !.out = @ \/ some]
             a == [h EXCEPT !.k = k]
  <2>1. /\ k \in Object /\ k.fd = h.k.fd /\ k.releases = h.k.releases
        /\ k.status = h.k.status /\ k.events = h.k.events
        /\ k.out = (h.k.out \/ some)
        /\ k.releaseOrNot = h.k.releaseOrNot
    <3>1. PICK o \in BOOLEAN : o = (h.k.out \/ some)
      OBVIOUS
    <3>2. k = [h.k EXCEPT !.out = o]
      BY <1>1, <3>1 DEF Object
    <3> HIDE DEF k
    <3> QED
      BY <1>1, <3>1, <3>2 DEF Object
  <2>2. g = CareWriteOnce(a)
    BY <1>3 DEF SendInLoop
  <2> HIDE DEF k
  <2>3. /\ Runs(a) /\ a.c = h.c /\ a.k = k /\ a.push = h.push /\ a.fault = h.fault
        /\ Placed(h) /\ "IN" \in k.events => Placed(a)
        /\ Synced(h) /\ k.events = h.k.events => Synced(a)
    BY <2>1, Assigned
  <2> HIDE DEF a
  <2>4. /\ Runs(g) /\ g.c = a.c /\ g.push = a.push /\ g.fault = a.fault
        /\ g.k = [k EXCEPT !.events = @ \cup {"OUT"}]
        /\ Placed(a) /\ Synced(a) => Sound(g)
    BY <2>2, <2>3, WriteCared
  <2>5. /\ g.k.status = h.k.status /\ g.k.out = k.out /\ "OUT" \in g.k.events
        /\ g.k.releaseOrNot = h.k.releaseOrNot
    BY <2>1, <2>4 DEF Object
  <2>6. Sound(h) => Sound(g)
    BY <2>1, <2>3, <2>4 DEF Sound, Placed
  <2>7. some \/ Empty => Owed(g)
    BY <2>1, <2>5 DEF Owed
  <2> QED
    BY <2>1, <2>3, <2>4, <2>5, <2>6, <2>7, SamePush DEF Follows, Mute
<1> QED
  BY <1>2, <1>3

LEMMA FlushedOrReleased ==
    ASSUME NEW h, Runs(h), NEW n \in Nat \ {0}, NEW g, g = FlushOrRelease(h, n)
    PROVE  /\ Follows(h, g) /\ Owed(g) /\ g.fault = h.fault
           /\ h.k.out => g.push = h.push /\ g.k.out
           /\ ~h.k.out => ~g.k.out /\ (n = 1 => g.push = Append(h.push, <<"Release", h.c>>))
           /\ g.k.status = h.k.status /\ g.k.releaseOrNot = h.k.releaseOrNot
<1>1. h.k \in Object
  BY DEF Runs, HandlerState
<1>2. CASE h.k.out
  <2>1. g = CareWriteOnce(h)
    BY <1>2 DEF FlushOrRelease
  <2>2. /\ Runs(g) /\ g.c = h.c /\ g.push = h.push /\ g.fault = h.fault
        /\ g.k = [h.k EXCEPT !.events = @ \cup {"OUT"}]
        /\ Placed(h) /\ Synced(h) => Sound(g)
    BY <2>1, WriteCared
  <2>3. /\ g.k.status = h.k.status /\ g.k.releaseOrNot = h.k.releaseOrNot
        /\ g.k.out = h.k.out /\ "OUT" \in g.k.events
    BY <1>1, <2>2 DEF Object
  <2>4. Owed(g)
    BY <1>2, <2>3 DEF Owed
  <2> QED
    BY <1>2, <2>2, <2>3, <2>4, SamePush DEF Follows, Sound
<1>3. CASE ~h.k.out
  <2>1. g = [h EXCEPT !.push = @ \o [i \in 1 .. n |-> <<"Release", h.c>>]]
    BY <1>3 DEF FlushOrRelease
  <2> QED
    BY <1>3, <2>1, ReleasedOften
<1> QED
  BY <1>2, <1>3

(* One release is asked for, of a connection that has no output. *)
AsksOnce(h, g) == /\ g.push = Append(h.push, <<"Release", h.c>>)
                  /\ g.k.status = "DISCONNECTING" /\ ~g.k.out

LEMMA Called ==
    ASSUME NEW h, Runs(h), NEW g \in MessageCallback(h)
    PROVE  /\ Follows(h, g) /\ g.fault = h.fault
           /\ g.k.status \in {h.k.status, "DISCONNECTING"}
           /\ g.k.releaseOrNot = h.k.releaseOrNot
           /\ h.k.status \in Up /\ h.k.out => g.push = h.push /\ g.k.out
           /\ h.k.status \in Up /\ Silent <= 1 => g.push = h.push \/ AsksOnce(h, g)
<1>1. h.k \in Object
  BY DEF Runs, HandlerState
<1>2. PICK b \in BOOLEAN :
         LET w == WithInput(h, b)
         IN  \/ g = w
             \/ \E some \in BOOLEAN : (some \/ Empty) /\ g = SendInLoop(w, some)
             \/ g = FlushOrRelease(Disconnecting(SendInLoop(w, TRUE)), 1)
             \/ \E n \in 1 .. Silent :
                   \/ g = FlushOrRelease(Disconnecting(w), n)
                   \/ g = FlushOrRelease(Disconnecting(SendInLoop(w, FALSE)), n)
  <2> DEFINE Ways(w) ==
         {w, SendInLoop(w, TRUE), FlushOrRelease(Disconnecting(SendInLoop(w, TRUE)), 1)}
         \cup (IF Empty THEN {SendInLoop(w, FALSE)} ELSE {})
         \cup {FlushOrRelease(Disconnecting(w), n) : n \in 1 .. Silent}
         \cup {FlushOrRelease(Disconnecting(SendInLoop(w, FALSE)), n) : n \in 1 .. Silent}
  <2>1. g \in Ways(WithInput(h, FALSE)) \cup Ways(WithInput(h, TRUE))
    BY Zenon DEF MessageCallback, WithInput
  <2> HIDE DEF Ways
  <2>2. PICK b \in BOOLEAN : g \in Ways(WithInput(h, b))
    BY <2>1
  <2> DEFINE w == WithInput(h, b)
  <2>3. g \in Ways(w)
    BY <2>2
  <2> HIDE DEF w
  <2>4. \/ g = w
        \/ g = SendInLoop(w, TRUE)
        \/ Empty /\ g = SendInLoop(w, FALSE)
        \/ g = FlushOrRelease(Disconnecting(SendInLoop(w, TRUE)), 1)
        \/ \E n \in 1 .. Silent :
               \/ g = FlushOrRelease(Disconnecting(w), n)
               \/ g = FlushOrRelease(Disconnecting(SendInLoop(w, FALSE)), n)
    BY <2>3, Zenon DEF Ways
  <2> QED
    BY <2>4 DEF w
<1> DEFINE w == WithInput(h, b)
<1>3. /\ Follows(h, w) /\ Mute(h, w) /\ w.k.status = h.k.status
      /\ w.k.releaseOrNot = h.k.releaseOrNot /\ w.k.out = h.k.out
  <2>1. /\ Runs(w) /\ w.c = h.c /\ w.push = h.push /\ w.fault = h.fault
        /\ w.k = [h.k EXCEPT !.in = b]
        /\ Sound(h) => Sound(w)
    BY InputSet
  <2> HIDE DEF w
  <2>2. w.k.status = h.k.status /\ w.k.releaseOrNot = h.k.releaseOrNot
        /\ w.k.out = h.k.out /\ w.k.events = h.k.events
    BY <1>1, <2>1 DEF Object
  <2>3. Owed(h) => Owed(w)
    BY <2>1, <2>2 DEF Owed
  <2> QED
    BY <2>1, <2>2, <2>3, SamePush DEF Follows, Mute
<1> HIDE DEF w
<1>4. ASSUME NEW some \in BOOLEAN, NEW a, a = SendInLoop(w, some)
      PROVE  /\ Runs(a) /\ a.c = h.c /\ Mute(h, a)
             /\ Sound(h) => Sound(a)
             /\ a.k.status = h.k.status /\ a.k.releaseOrNot = h.k.releaseOrNot
             /\ "OUT" \in h.k.events => "OUT" \in a.k.events
             /\ h.k.out => a.k.out
             /\ h.k.status # "DISCONNECTED" /\ some => a.k.out
             /\ some \/ Empty => Follows(h, a)
  <2>1. Runs(w) /\ w.c = h.c
    BY <1>3 DEF Follows
  <2>2. /\ Runs(a) /\ a.c = w.c /\ Mute(w, a)
        /\ Sound(w) => Sound(a)
        /\ a.k.status = w.k.status /\ a.k.releaseOrNot = w.k.releaseOrNot
        /\ "OUT" \in w.k.events => "OUT" \in a.k.events
        /\ w.k.out => a.k.out
        /\ w.k.status # "DISCONNECTED" /\ some => a.k.out
        /\ some \/ Empty => Follows(w, a)
    BY <1>4, <2>1, Sent
  <2>3. (Sound(h) => Sound(a)) /\ ("OUT" \in h.k.events => "OUT" \in a.k.events)
    BY <1>3, <2>2 DEF Follows
  <2>4. some \/ Empty => Follows(h, a)
    BY <1>3, <2>2, FollowsOn
  <2> QED
    BY <1>3, <2>1, <2>2, <2>3, <2>4 DEF Mute
<1>5. ASSUME NEW a, Runs(a), a.c = h.c, Mute(h, a), Sound(h) => Sound(a),
             "OUT" \in h.k.events => "OUT" \in a.k.events,
             a.k.releaseOrNot = h.k.releaseOrNot, h.k.out => a.k.out,
             NEW n \in Nat \ {0}, g = FlushOrRelease(Disconnecting(a), n),
             n = 1 \/ ~(Silent <= 1)
      PROVE  /\ Follows(h, g) /\ g.fault = h.fault
             /\ g.k.status = "DISCONNECTING"
             /\ g.k.releaseOrNot = h.k.releaseOrNot
             /\ h.k.out => g.push = h.push /\ g.k.out
             /\ Silent <= 1 => g.push = h.push \/ AsksOnce(h, g)
  <2> DEFINE d == Disconnecting(a)
  <2>1. /\ Runs(d) /\ d.c = a.c /\ d.push = a.push /\ d.fault = a.fault
        /\ d.k = [a.k EXCEPT !.status = "DISCONNECTING"]
        /\ Sound(a) => Sound(d)
    BY <1>5, Disconnects
  <2>2. a.k \in Object
    BY <1>5 DEF Runs, HandlerState
  <2>3. /\ d.k.status = "DISCONNECTING" /\ d.k.releaseOrNot = a.k.releaseOrNot
        /\ d.k.out = a.k.out /\ d.k.events = a.k.events
    BY <2>1, <2>2 DEF Object
  <2>4. g = FlushOrRelease(d, n)
    BY <1>5
  <2> HIDE DEF d
  <2>5. /\ Follows(d, g) /\ Owed(g) /\ g.fault = d.fault
        /\ d.k.out => g.push = d.push /\ g.k.out
        /\ ~d.k.out => ~g.k.out /\ (n = 1 => g.push = Append(d.push, <<"Release", d.c>>))
        /\ g.k.status = d.k.status /\ g.k.releaseOrNot = d.k.releaseOrNot
    <3>1. Runs(d)
      BY <2>1
    <3> QED
      BY ONLY <3>1, <2>4, n \in Nat \ {0}, FlushedOrReleased
  <2>6. OnlyReleases(h) => OnlyReleases(d)
    BY <1>5, <2>1, SamePush DEF Mute
  <2>7. Follows(h, g)
    BY <1>5, <2>1, <2>3, <2>5, <2>6 DEF Follows, Mute
  <2>8. Silent <= 1 => g.push = h.push \/ AsksOnce(h, g)
    BY <1>5, <2>1, <2>3, <2>5 DEF Mute, AsksOnce
  <2> QED
    BY <1>5, <2>1, <2>3, <2>5, <2>7, <2>8 DEF Mute
<1>6. CASE g = w
  BY <1>3, <1>6 DEF Mute
<1>7. ASSUME NEW some \in BOOLEAN, some \/ Empty, g = SendInLoop(w, some)
      PROVE  /\ Follows(h, g) /\ Mute(h, g) /\ g.k.status = h.k.status
             /\ g.k.releaseOrNot = h.k.releaseOrNot /\ (h.k.out => g.k.out)
  BY <1>4, <1>7
<1>8. CASE g = FlushOrRelease(Disconnecting(SendInLoop(w, TRUE)), 1)
  <2> DEFINE a == SendInLoop(w, TRUE)
  <2>1. /\ Runs(a) /\ a.c = h.c /\ Mute(h, a) /\ (Sound(h) => Sound(a))
        /\ "OUT" \in h.k.events => "OUT" \in a.k.events
        /\ a.k.releaseOrNot = h.k.releaseOrNot /\ (h.k.out => a.k.out)
    BY <1>4
  <2>2. g = FlushOrRelease(Disconnecting(a), 1)
    BY <1>8
  <2> HIDE DEF a
  <2> QED
    BY <1>5, <2>1, <2>2
<1>9. ASSUME NEW n \in 1 .. Silent, g = FlushOrRelease(Disconnecting(w), n)
      PROVE  /\ Follows(h, g) /\ g.fault = h.fault
             /\ g.k.status = "DISCONNECTING"
             /\ g.k.releaseOrNot = h.k.releaseOrNot
             /\ h.k.out => g.push = h.push /\ g.k.out
             /\ Silent <= 1 => g.push = h.push \/ AsksOnce(h, g)
  <2>1. n \in Nat \ {0} /\ (n = 1 \/ ~(Silent <= 1))
    BY <1>9 DEF Runs
  <2>2. /\ Runs(w) /\ w.c = h.c /\ (Sound(h) => Sound(w))
        /\ "OUT" \in h.k.events => "OUT" \in w.k.events
    BY <1>3 DEF Follows
  <2> QED
    BY <1>3, <1>5, <1>9, <2>1, <2>2
<1>10. ASSUME NEW n \in 1 .. Silent,
              g = FlushOrRelease(Disconnecting(SendInLoop(w, FALSE)), n)
       PROVE  /\ Follows(h, g) /\ g.fault = h.fault
              /\ g.k.status = "DISCONNECTING"
              /\ g.k.releaseOrNot = h.k.releaseOrNot
              /\ h.k.out => g.push = h.push /\ g.k.out
              /\ Silent <= 1 => g.push = h.push \/ AsksOnce(h, g)
  <2> DEFINE a == SendInLoop(w, FALSE)
  <2>1. n \in Nat \ {0} /\ (n = 1 \/ ~(Silent <= 1))
    BY <1>10 DEF Runs
  <2>2. /\ Runs(a) /\ a.c = h.c /\ Mute(h, a) /\ (Sound(h) => Sound(a))
        /\ "OUT" \in h.k.events => "OUT" \in a.k.events
        /\ a.k.releaseOrNot = h.k.releaseOrNot /\ (h.k.out => a.k.out)
    BY <1>4
  <2>3. g = FlushOrRelease(Disconnecting(a), n)
    BY <1>10
  <2> HIDE DEF a
  <2> QED
    BY <1>5, <2>1, <2>2, <2>3
<1>11. \/ g = w
       \/ \E some \in BOOLEAN : (some \/ Empty) /\ g = SendInLoop(w, some)
       \/ g = FlushOrRelease(Disconnecting(SendInLoop(w, TRUE)), 1)
       \/ \E n \in 1 .. Silent :
             \/ g = FlushOrRelease(Disconnecting(w), n)
             \/ g = FlushOrRelease(Disconnecting(SendInLoop(w, FALSE)), n)
  BY <1>2 DEF w
<1> QED
  BY <1>6, <1>7, <1>8, <1>9, <1>10, <1>11 DEF Mute

LEMMA CalledIfAny ==
    ASSUME NEW h, Runs(h), NEW g \in MessageIfAny(h)
    PROVE  /\ Follows(h, g) /\ g.fault = h.fault
           /\ g.k.status \in {h.k.status, "DISCONNECTING"}
           /\ g.k.releaseOrNot = h.k.releaseOrNot
           /\ h.k.status \in Up /\ h.k.out => g.push = h.push /\ g.k.out
           /\ h.k.status \in Up /\ Silent <= 1 => g.push = h.push \/ AsksOnce(h, g)
<1>1. CASE h.k.in
  BY <1>1, Called DEF MessageIfAny
<1>2. CASE ~h.k.in
  <2>1. g = h
    BY <1>2 DEF MessageIfAny
  <2> QED
    BY <2>1 DEF Follows
<1> QED
  BY <1>1, <1>2

LEMMA ShutDown ==
    ASSUME NEW h, Runs(h), NEW g \in ShutdownInLoop(h)
    PROVE  /\ Follows(h, g) /\ g.k.status = "DISCONNECTING" /\ g.fault = h.fault
           /\ h.k.out => g.k.out
<1> DEFINE d == Disconnecting(h)
<1>1. /\ Runs(d) /\ d.c = h.c /\ d.push = h.push /\ d.fault = h.fault
      /\ d.k = [h.k EXCEPT !.status = "DISCONNECTING"]
      /\ Sound(h) => Sound(d)
  BY Disconnects
<1>2. /\ d.k.status = "DISCONNECTING" /\ d.k.out = h.k.out
      /\ d.k.releaseOrNot = h.k.releaseOrNot /\ d.k.events = h.k.events
  BY <1>1 DEF Runs, HandlerState, Object
<1>3. PICK a \in MessageIfAny(d) : g = FlushOrRelease(a, 1)
  BY DEF ShutdownInLoop
<1> HIDE DEF d
<1>4. /\ Follows(d, a) /\ a.fault = d.fault /\ a.k.status \in {d.k.status, "DISCONNECTING"}
      /\ d.k.status \in Up /\ d.k.out => a.k.out
  BY <1>1, CalledIfAny
<1>5. /\ Follows(a, g) /\ Owed(g) /\ g.fault = a.fault /\ g.k.status = a.k.status
      /\ a.k.out => g.k.out
  BY <1>3, <1>4, FlushedOrReleased DEF Follows
<1> QED
  BY <1>1, <1>2, <1>4, <1>5, SamePush DEF Follows, Up

(* The socket's queue is emptied, its error is reported, or the process    *)
(* dies.                                                                   *)
Outside(h, p, r, f) == [h EXCEPT !.peer = p, !.rx = r, !.fault = f]

LEMMA Elsewhere ==
    ASSUME NEW h, Runs(h), NEW p \in PeerState, p # "away", NEW r \in BOOLEAN, NEW f \in Fault,
           NEW g, g = Outside(h, p, r, f)
    PROVE  /\ Runs(g) /\ g.c = h.c /\ g.k = h.k /\ g.push = h.push /\ g.fault = f
           /\ Sound(h) /\ (p = h.peer \/ h.peer = "reset") => Sound(g)
<1>1. h \in HandlerState
  BY DEF Runs
<1>2. /\ g \in HandlerState
      /\ g.c = h.c /\ g.k = h.k /\ g.peer = p /\ g.rx = r
      /\ g.channels = h.channels /\ g.registered = h.registered
      /\ g.interest = h.interest /\ g.push = h.push /\ g.fault = f
  BY <1>1 DEF HandlerState, Outside
<1>3. Runs(g)
  BY <1>2 DEF Runs
<1>4. Sound(h) /\ (p = h.peer \/ h.peer = "reset") => Sound(g)
  BY <1>2 DEF Sound, Placed, Synced, Watched
<1> QED
  BY <1>2, <1>3, <1>4

LEMMA PushedMinusOne ==
    ASSUME NEW h, Runs(h), NEW g \in PushMinusOne(h)
    PROVE  Follows(h, g) /\ g.k.status = h.k.status /\ g.k.out = h.k.out
<1>1. h \in HandlerState /\ h.k \in Object
  BY DEF Runs, HandlerState
<1>2. CASE g = h
  BY <1>2 DEF Follows
<1>3. CASE g = [h EXCEPT !.k.in = FALSE]
  <2>1. g = WithInput(h, FALSE)
    BY <1>3 DEF WithInput
  <2>2. /\ Runs(g) /\ g.c = h.c /\ g.push = h.push /\ g.fault = h.fault
        /\ g.k = [h.k EXCEPT !.in = FALSE]
        /\ Sound(h) => Sound(g)
    BY <2>1, InputSet
  <2>3. /\ g.k.status = h.k.status /\ g.k.out = h.k.out /\ g.k.events = h.k.events
        /\ g.k.releaseOrNot = h.k.releaseOrNot
    BY <1>1, <2>2 DEF Object
  <2> QED
    BY <2>2, <2>3, SamePush DEF Follows, Owed
<1>4. CASE g = [h EXCEPT !.fault = "bad_copy"]
  <2>1. g = Outside(h, h.peer, h.rx, "bad_copy")
    BY <1>1, <1>4 DEF HandlerState, Outside
  <2>2. h.peer \in PeerState /\ h.peer # "away" /\ h.rx \in BOOLEAN /\ "bad_copy" \in Fault
    BY <1>1 DEF HandlerState, Runs, Fault
  <2> QED
    BY <2>1, <2>2, Elsewhere, SamePush DEF Follows, Owed
<1> QED
  BY <1>2, <1>3, <1>4 DEF PushMinusOne

LEMMA HandledRead ==
    ASSUME NEW h, Runs(h), NEW g \in HandleRead(h)
    PROVE  /\ Follows(h, g)
           /\ Sound(h) /\ h.peer # "reset" =>
                 /\ g.fault = h.fault
                 /\ h.k.out => g.push = h.push
                 /\ Silent <= 1 => g.push = h.push \/ AsksOnce(h, g)
           /\ Sound(h) /\ h.k.out => g.k.out
<1>1. /\ h \in HandlerState /\ h.k \in Object /\ h.peer \in PeerState /\ h.peer # "away"
      /\ h.rx \in BOOLEAN /\ h.fault \in Fault
  BY DEF Runs, HandlerState
<1>2. CASE file[h.k.fd] = h.c /\ h.rx
  <2>0. PICK no \in BOOLEAN, yes \in BOOLEAN : no = FALSE /\ yes = TRUE
    OBVIOUS
  <2> DEFINE a == Outside(h, h.peer, no, h.fault)
             b == WithInput(a, yes)
  <2>1. [h EXCEPT !.k.in = TRUE, !.rx = FALSE] = b
    BY <1>1, <2>0 DEF WithInput, HandlerState, Object, Outside
  <2>2. g \in MessageCallback(b)
    BY <1>2, <2>1 DEF HandleRead
  <2>3. /\ Runs(a) /\ a.c = h.c /\ a.k = h.k /\ a.push = h.push /\ a.fault = h.fault
        /\ Sound(h) => Sound(a)
    BY <1>1, Elsewhere
  <2> HIDE DEF a
  <2>4. /\ Runs(b) /\ b.c = a.c /\ b.push = a.push /\ b.fault = a.fault
        /\ b.k = [a.k EXCEPT !.in = yes]
        /\ Sound(a) => Sound(b)
    BY <2>3, InputSet
  <2>5. /\ b.k.status = h.k.status /\ b.k.releaseOrNot = h.k.releaseOrNot
        /\ b.k.out = h.k.out /\ b.k.events = h.k.events
    BY <1>1, <2>3, <2>4 DEF Object
  <2> HIDE DEF b
  <2>6. /\ Follows(b, g) /\ g.fault = b.fault
        /\ b.k.status \in Up /\ b.k.out => g.push = b.push /\ g.k.out
        /\ b.k.status \in Up /\ Silent <= 1 => g.push = b.push \/ AsksOnce(b, g)
    BY <2>2, <2>4, Called
  <2>7. Follows(h, b)
    BY <2>3, <2>4, <2>5, SamePush DEF Follows, Owed
  <2>8. Follows(h, g)
    BY <2>6, <2>7, FollowsOn
  <2>9. Sound(h) => h.k.status \in Up
    BY DEF Sound, Placed
  <2> QED
    BY <2>3, <2>4, <2>5, <2>6, <2>8, <2>9 DEF AsksOnce
<1>3. CASE ~(file[h.k.fd] = h.c /\ h.rx) /\ (file[h.k.fd] # h.c \/ h.peer = "reset")
  <2> DEFINE a == Outside(h, "dead", h.rx, h.fault)
  <2>1. [h EXCEPT !.peer = "dead"] = a
    BY <1>1 DEF HandlerState, Outside
  <2>2. \E b \in ShutdownInLoop(a) : \E d \in IF b.fault = "none" THEN PushMinusOne(b) ELSE {b} :
           g \in IF d.fault = "none" THEN MessageIfAny(d) ELSE {d}
    <3>1. g \in ReadFails(h)
      BY <1>1, <1>3 DEF HandleRead
    <3> QED
      BY <2>1, <3>1 DEF ReadFails, Then
  <2>3. /\ Runs(a) /\ a.c = h.c /\ a.k = h.k /\ a.push = h.push /\ a.fault = h.fault
        /\ Sound(h) /\ h.peer = "reset" => Sound(a)
    BY <1>1, Elsewhere DEF PeerState
  <2>4. Sound(h) => h.peer = "reset"
    BY <1>3 DEF Sound, Placed
  <2> HIDE DEF a
  <2>5. PICK b \in ShutdownInLoop(a) : \E d \in IF b.fault = "none" THEN PushMinusOne(b) ELSE {b} :
           g \in IF d.fault = "none" THEN MessageIfAny(d) ELSE {d}
    BY <2>2
  <2>6. PICK d \in IF b.fault = "none" THEN PushMinusOne(b) ELSE {b} :
           g \in IF d.fault = "none" THEN MessageIfAny(d) ELSE {d}
    BY <2>5
  <2>7. Follows(a, b) /\ b.k.status = "DISCONNECTING" /\ (a.k.out => b.k.out)
    BY <2>3, ShutDown
  <2>8. Follows(b, d) /\ d.k.status = b.k.status /\ d.k.out = b.k.out
    BY <2>6, <2>7, PushedMinusOne DEF Follows
  <2>9. Follows(d, g) /\ (d.k.status \in Up /\ d.k.out => g.k.out)
    BY <2>6, <2>8, CalledIfAny DEF Follows
  <2>10. Follows(a, g)
    BY <2>7, <2>8, <2>9, FollowsOn
  <2>11. Follows(h, g)
    BY <2>3, <2>4, <2>10, SamePush DEF Follows, Owed
  <2> QED
    BY <2>3, <2>4, <2>7, <2>8, <2>9, <2>11 DEF Up
<1>4. CASE ~(file[h.k.fd] = h.c /\ h.rx) /\ ~(file[h.k.fd] # h.c \/ h.peer = "reset")
  <2>1. g \in MessageIfAny(h)
    BY <1>4 DEF HandleRead
  <2> QED
    BY <2>1, CalledIfAny DEF Sound, Placed
<1> QED
  BY <1>2, <1>3, <1>4

LEMMA HandledWrite ==
    ASSUME NEW h, Runs(h), NEW all, NEW g \in HandleWrite(h, all)
    PROVE  /\ Runs(g) /\ g.c = h.c
           /\ g.k.releaseOrNot = h.k.releaseOrNot
           /\ OnlyReleases(h) => OnlyReleases(g)
           /\ Owed(h) => Owed(g)
           /\ g.fault \in {h.fault, "bad_copy"}
           /\ Sound(h) /\ "OUT" \in h.k.events => Sound(g)
           /\ Sound(h) /\ h.peer \notin {"reset", "dead"} =>
                 g.fault = h.fault /\ (g.push = h.push \/ AsksOnce(h, g))
<1>1. /\ h \in HandlerState /\ h.k \in Object /\ h.peer \in PeerState /\ h.peer # "away"
      /\ h.rx \in BOOLEAN /\ h.fault \in Fault
  BY DEF Runs, HandlerState
<1>2. CASE SendFails(h)
  <2> DEFINE p == IF h.peer = "reset" THEN "dead" ELSE h.peer
             a == Outside(h, p, h.rx, h.fault)
  <2>1. [h EXCEPT !.peer = IF @ = "reset" THEN "dead" ELSE @] = a
    BY <1>1 DEF HandlerState, Outside
  <2>2. PICK b \in MessageIfAny(a) : g = Release([b EXCEPT !.k.out = TRUE])
    BY <1>2, <2>1 DEF HandleWrite
  <2>3. p \in PeerState /\ p # "away" /\ (p = h.peer \/ h.peer = "reset")
    BY <1>1 DEF PeerState
  <2> HIDE DEF p
  <2>4. /\ Runs(a) /\ a.c = h.c /\ a.k = h.k /\ a.push = h.push /\ a.fault = h.fault
        /\ Sound(h) => Sound(a)
    BY <1>1, <2>3, Elsewhere
  <2> HIDE DEF a
  <2>5. /\ Runs(b) /\ b.c = a.c /\ b.fault = a.fault /\ (Sound(a) => Sound(b))
        /\ b.k.releaseOrNot = a.k.releaseOrNot /\ (OnlyReleases(a) => OnlyReleases(b))
        /\ "OUT" \in a.k.events => "OUT" \in b.k.events
    BY <2>4, CalledIfAny DEF Follows
  <2>6. b.k \in Object
    BY <2>5 DEF Runs, HandlerState
  <2> DEFINE k == [b.k EXCEPT !.out = TRUE]
             d == [b EXCEPT !.k = k]
  <2>7. /\ k \in Object /\ k.fd = b.k.fd /\ k.releases = b.k.releases
        /\ k.status = b.k.status /\ k.events = b.k.events /\ k.out = TRUE
        /\ k.releaseOrNot = b.k.releaseOrNot
    BY <2>6 DEF Object
  <2>8. g = Release(d)
    BY <2>2
  <2> HIDE DEF k
  <2>9. /\ Runs(d) /\ d.c = b.c /\ d.k = k /\ d.push = b.push /\ d.fault = b.fault
        /\ Placed(b) /\ "IN" \in k.events => Placed(d)
        /\ Synced(b) /\ k.events = b.k.events => Synced(d)
    BY <2>5, <2>7, Assigned
  <2> HIDE DEF d
  <2>10. Follows(d, g) /\ Owed(g)
    BY <2>8, <2>9, Released
  <2>11. ASSUME Sound(h), "OUT" \in h.k.events PROVE Sound(g)
    <3>1. Sound(b) /\ "OUT" \in b.k.events
      BY <2>4, <2>5, <2>11 DEF Sound, Watched, Placed
    <3>2. Sound(d)
      BY <2>7, <2>9, <3>1 DEF Sound, Watched, Placed
    <3> QED
      BY <2>10, <3>2 DEF Follows
  <2>12. ~(Sound(h) /\ h.peer \notin {"reset", "dead"})
    BY <1>2 DEF Sound, Placed, SendFails
  <2> QED
    BY <2>4, <2>5, <2>7, <2>9, <2>10, <2>11, <2>12, SamePush DEF Follows
<1>3. CASE ~SendFails(h) /\ g = Flushed(h)
  <2> DEFINE d == DisableWrite([h EXCEPT !.k.out = FALSE])
  <2>1. g = IF d.k.status = "DISCONNECTING" THEN Release(d) ELSE d
    BY <1>3 DEF Flushed
  <2>2. /\ Runs(d) /\ d.c = h.c /\ d.push = h.push /\ d.fault = h.fault
        /\ d.k = [h.k EXCEPT !.out = FALSE, !.events = @ \ {"OUT"}]
        /\ Placed(h) => Sound(d)
    BY WriteDisabled
  <2> HIDE DEF d
  <2>3. d.k.releaseOrNot = h.k.releaseOrNot /\ ~d.k.out /\ "OUT" \notin d.k.events
    BY <1>1, <2>2 DEF Object
  <2>4. CASE d.k.status = "DISCONNECTING"
    <3>1. /\ Follows(d, g) /\ Owed(g) /\ g.k = d.k /\ g.fault = d.fault
          /\ g.push = Append(d.push, <<"Release", d.c>>)
      BY <2>1, <2>2, <2>4, Released
    <3> QED
      BY <2>2, <2>3, <2>4, <3>1, SamePush DEF Follows, Sound, AsksOnce
  <2>5. CASE d.k.status # "DISCONNECTING"
    BY <2>1, <2>2, <2>3, <2>5, SamePush DEF Sound, Owed
  <2> QED
    BY <2>4, <2>5
<1>4. CASE ~SendFails(h) /\ g = h
  BY <1>4
<1> QED
  BY <1>2, <1>3, <1>4 DEF HandleWrite

LEMMA HandledClose ==
    ASSUME NEW h, Runs(h), NEW g \in HandleClose(h)
    PROVE  Follows(h, g)
<1>1. PICK a \in MessageIfAny(h) : g = Release(a)
  BY DEF HandleClose
<1>2. Follows(h, a)
  BY CalledIfAny
<1>3. Follows(a, g)
  BY <1>1, <1>2, Released DEF Follows
<1> QED
  BY <1>2, <1>3, FollowsOn

LEMMA HandledAny ==
    ASSUME NEW h, Runs(h), NEW g \in HandleAny(h)
    PROVE  /\ Runs(g) /\ g.c = h.c /\ (Sound(h) => Sound(g)) /\ (Owed(h) => Owed(g))
           /\ g.k = h.k /\ g.fault = h.fault
           /\ IF h.k.releaseOrNot THEN g.push = Append(h.push, <<"Update", h.c>>) ELSE g = h
<1>1. CASE h.k.releaseOrNot
  <2>1. g = Push(h, "Update") /\ "Update" \in Pushed
    BY <1>1 DEF HandleAny, Pushed
  <2>2. /\ Runs(g) /\ g.k = h.k /\ g.c = h.c /\ g.fault = h.fault
        /\ g.push = Append(h.push, <<"Update", h.c>>)
        /\ ToSet(g.push) = ToSet(h.push) \cup {<<"Update", h.c>>}
        /\ Sound(h) => Sound(g)
    BY <2>1, PushedOne
  <2>3. Owed(h) => Owed(g)
    BY <2>2 DEF Owed
  <2> QED
    BY <1>1, <2>2, <2>3
<1>2. CASE ~h.k.releaseOrNot
  BY <1>2 DEF HandleAny
<1> QED
  BY <1>1, <1>2

(* What a round of events pushes: releases, and at the end a refresh if    *)
(* the timer is enabled.                                                   *)
AsksAndRefreshes(h, c) ==
    \E r \in Seq({<<"Release", c>>}) :
        h.push = IF h.k.releaseOrNot THEN Append(r, <<"Update", c>>) ELSE r

(* Events are handled: read, write or close, and any. *)
LEMMA HandledEvents ==
    ASSUME NEW c \in Conn, Runs(Begin(c)), NEW rev, NEW all, NEW g \in Outcomes(c, rev, all)
    PROVE  /\ Runs(g) /\ g.c = c
           /\ g.k.releaseOrNot = conn[c].releaseOrNot
           /\ g.fault = "none" => AsksAndRefreshes(g, c)
           /\ g.fault \in {"none", "bad_copy"}
           /\ /\ Sound(Begin(c))
              /\ "OUT" \in rev => "OUT" \in conn[c].events
              => Sound(g)
           /\ Owed(Begin(c)) => Owed(g)
           /\ /\ Sound(Begin(c)) /\ peer[c] \notin {"reset", "dead"}
              /\ rev \cap {"ERR", "HUP"} = {} /\ ~conn[c].releaseOrNot
              /\ Silent <= 1 /\ ("OUT" \in rev => conn[c].out)
              => /\ g.fault = "none" /\ ~g.k.releaseOrNot
                 /\ \/ g.push = <<>>
                    \/ /\ g.push = <<<<"Release", c>>>>
                       /\ g.k.status = "DISCONNECTING" /\ ~g.k.out
<1> DEFINE h == Begin(c)
<1>1. /\ h.c = c /\ h.k = conn[c] /\ h.peer = peer[c] /\ h.push = <<>> /\ h.fault = "none"
  BY DEF Begin
<1>2. PICK a \in IF "IN" \in rev THEN HandleRead(h) ELSE {h} :
         \E b \in IF a.fault # "none" THEN {a}
                  ELSE IF "OUT" \in rev THEN HandleWrite(a, all)
                  ELSE IF rev \cap {"ERR", "HUP"} # {} THEN HandleClose(a) ELSE {a} :
            g \in IF b.fault = "none" THEN HandleAny(b) ELSE {b}
  <2>1. CASE "OUT" \in rev
    BY <2>1 DEF Outcomes, Then
  <2>2. CASE "OUT" \notin rev /\ rev \cap {"ERR", "HUP"} # {}
    BY <2>2 DEF Outcomes, Then
  <2>3. CASE "OUT" \notin rev /\ rev \cap {"ERR", "HUP"} = {}
    BY <2>3 DEF Outcomes, Then
  <2> QED
    BY <2>1, <2>2, <2>3
<1>3. PICK b \in IF a.fault # "none" THEN {a}
                 ELSE IF "OUT" \in rev THEN HandleWrite(a, all)
                 ELSE IF rev \cap {"ERR", "HUP"} # {} THEN HandleClose(a) ELSE {a} :
         g \in IF b.fault = "none" THEN HandleAny(b) ELSE {b}
  BY <1>2
<1> HIDE DEF h
<1>4. /\ Follows(h, a)
      /\ Sound(h) /\ h.peer # "reset" =>
            /\ a.fault = h.fault
            /\ h.k.out => a.push = h.push
            /\ Silent <= 1 => a.push = h.push \/ AsksOnce(h, a)
  <2>1. CASE "IN" \in rev
    BY <2>1, HandledRead DEF h
  <2>2. CASE "IN" \notin rev
    BY <2>2 DEF h, Follows
  <2> QED
    BY <2>1, <2>2
<1>5. /\ Runs(b) /\ b.c = a.c /\ (Owed(a) => Owed(b))
      /\ b.k.releaseOrNot = a.k.releaseOrNot /\ (OnlyReleases(a) => OnlyReleases(b))
      /\ b.fault \in {a.fault, "bad_copy"}
      /\ Sound(a) /\ ("OUT" \in rev => "OUT" \in a.k.events) => Sound(b)
      /\ Sound(a) /\ a.peer \notin {"reset", "dead"} /\ rev \cap {"ERR", "HUP"} = {} =>
            /\ b.fault = a.fault
            /\ "OUT" \notin rev => b = a
            /\ b.push = a.push \/ AsksOnce(a, b)
  <2>1. CASE a.fault = "none" /\ "OUT" \in rev
    BY <1>4, <2>1, HandledWrite DEF Follows
  <2>2. CASE a.fault = "none" /\ "OUT" \notin rev /\ rev \cap {"ERR", "HUP"} # {}
    BY <1>4, <2>2, HandledClose DEF Follows
  <2>3. CASE b = a
    BY <1>4, <2>3 DEF Follows
  <2> QED
    BY <2>1, <2>2, <2>3
<1>6. /\ Runs(g) /\ g.c = b.c /\ (Sound(b) => Sound(g)) /\ (Owed(b) => Owed(g))
      /\ g.k = b.k /\ g.fault = b.fault
      /\ ~b.k.releaseOrNot => g = b
      /\ b.fault = "none" /\ b.k.releaseOrNot => g.push = Append(b.push, <<"Update", b.c>>)
  <2>1. CASE b.fault = "none"
    BY <1>3, <1>5, <2>1, HandledAny
  <2>2. CASE b.fault # "none"
    BY <1>3, <1>5, <2>2
  <2> QED
    BY <2>1, <2>2
<1>7. /\ Runs(g) /\ g.c = c /\ g.k.releaseOrNot = conn[c].releaseOrNot
      /\ g.fault \in {"none", "bad_copy"}
  BY <1>1, <1>4, <1>5, <1>6 DEF Follows
<1>10. ASSUME g.fault = "none" PROVE AsksAndRefreshes(g, c)
  <2>1. OnlyReleases(h)
    BY <1>1 DEF OnlyReleases
  <2>2. b.c = c /\ OnlyReleases(b) /\ b.fault = "none" /\ g.k.releaseOrNot = b.k.releaseOrNot
    BY <1>1, <1>4, <1>5, <1>6, <1>10, <2>1 DEF Follows
  <2>3. b.push \in Seq(Pushed \X Conn)
    BY <1>5 DEF Runs, HandlerState
  <2>4. b.push \in Seq({<<"Release", c>>})
    BY <2>2, <2>3 DEF OnlyReleases
  <2>5. g.push = IF g.k.releaseOrNot THEN Append(b.push, <<"Update", c>>) ELSE b.push
    BY <1>6, <2>2
  <2> QED
    BY <2>4, <2>5 DEF AsksAndRefreshes
<1>8. ASSUME Sound(h), "OUT" \in rev => "OUT" \in conn[c].events PROVE Sound(g)
  <2>1. Sound(a)
    BY <1>4, <1>8 DEF Follows
  <2>2. "OUT" \in rev => "OUT" \in a.k.events
    BY <1>1, <1>4, <1>8 DEF Follows
  <2> QED
    BY <1>5, <1>6, <2>1, <2>2
<1>9. ASSUME Sound(h), peer[c] \notin {"reset", "dead"},
             rev \cap {"ERR", "HUP"} = {}, ~conn[c].releaseOrNot,
             Silent <= 1, "OUT" \in rev => conn[c].out
      PROVE  /\ g.fault = "none" /\ ~g.k.releaseOrNot
             /\ \/ g.push = <<>>
                \/ /\ g.push = <<<<"Release", c>>>>
                   /\ g.k.status = "DISCONNECTING" /\ ~g.k.out
  <2>1. Sound(a) /\ a.c = c /\ a.fault = "none" /\ ~a.k.releaseOrNot
    BY <1>1, <1>4, <1>9 DEF Follows
  <2>2. a.peer \notin {"reset", "dead"}
    BY <1>9, <2>1 DEF Sound, Placed
  <2>3. /\ b.fault = "none" /\ ~b.k.releaseOrNot
        /\ "OUT" \notin rev => b = a
        /\ b.push = a.push \/ AsksOnce(a, b)
    BY <1>5, <1>9, <2>1, <2>2
  <2>4. a.push = <<>> \/ AsksOnce(h, a)
    BY <1>1, <1>4, <1>9
  <2>5. "OUT" \in rev => a.push = <<>>
    BY <1>1, <1>4, <1>9
  <2>6. b.push = <<>> \/ (/\ b.push = Append(<<>>, <<"Release", c>>)
                          /\ b.k.status = "DISCONNECTING" /\ ~b.k.out)
    BY <1>1, <2>1, <2>3, <2>4, <2>5 DEF AsksOnce
  <2>7. Append(<<>>, <<"Release", c>>) = <<<<"Release", c>>>>
    OBVIOUS
  <2> QED
    BY <1>6, <2>3, <2>6, <2>7
<1>11. Owed(h) => Owed(g)
  BY <1>4, <1>5, <1>6 DEF Follows
<1> QED
  BY <1>7, <1>8, <1>9, <1>10, <1>11 DEF h

-----------------------------------------------------------------------------
(***************************************************************************)
(* Types.  The object a handler finds has been accepted, the task it runs  *)
(* is there, and finitely many timers run, so that Tick pushes a sequence. *)
(***************************************************************************)

Born(c) == conn[c].fd # NoFd

LifeOK == \A c \in Conn :
    /\ peer[c] = "away" => ~Born(c)
    /\ ~Born(c) => conn[c].status = "CONNECTING"
    /\ conn[c].status = "CONNECTING" => conn[c].events = {} /\ ~conn[c].out

ReachedOK == \A c \in Conn :
    /\ actives[c] # {} \/ c \in held => conn[c].status # "CONNECTING"
    /\ left[c] > 0 => Born(c)

MappedOK == \A fd \in Fd :
    channels[fd] # NoConn => conn[channels[fd]].status # "CONNECTING"

QueuedOK == \A t \in Queued :
    /\ Born(t[2])
    /\ t[1] \in {"Send", "Shutdown"} => conn[t[2]].status # "CONNECTING"
    /\ t[1] = "Shutdown" => ShutByOthers

AcceptOK ==
    /\ accepting.step \in {"idle", "ready"} => accepting.conn = NoConn
    /\ accepting.step \in {"establish", "insert"} =>
          accepting.conn \in Conn /\ Born(accepting.conn)
    /\ ~Workers /\ accepting.step = "establish" => conn[accepting.conn].status = "CONNECTING"

PhaseOK ==
    /\ pc # "handle" => \A c \in Conn : actives[c] = {}
    /\ pc = "run" <=> pending # <<>>

TimersOK == IsFiniteSet({c \in Conn : left[c] > 0})

LifeInv == /\ TypeOK /\ LifeOK /\ ReachedOK /\ MappedOK /\ QueuedOK
           /\ AcceptOK /\ PhaseOK /\ TimersOK

-----------------------------------------------------------------------------
(* What a handler does to the state when it ends. *)

BodyOK ==
    /\ file \in [Fd -> Conn \cup {NoConn}]
    /\ peer \in [Conn -> PeerState]
    /\ rx \in [Conn -> BOOLEAN]
    /\ channels \in [Fd -> Conn \cup {NoConn}]
    /\ registered \in SUBSET Fd
    /\ interest \in [Fd -> SUBSET {"IN", "OUT"}]
    /\ conn \in [Conn -> Object]
    /\ fault \in Fault

LEMMA Bodied == LifeInv => BodyOK
  BY DEF LifeInv, TypeOK, BodyOK, Object

LEMMA Ended ==
    ASSUME BodyOK, NEW h \in HandlerState, End(h)
    PROVE  /\ BodyOK'
           /\ conn'[h.c] = h.k /\ peer'[h.c] = h.peer
           /\ \A d \in Conn \ {h.c} : conn'[d] = conn[d] /\ peer'[d] = peer[d]
           /\ channels' = h.channels /\ registered' = h.registered /\ interest' = h.interest
           /\ tasks' = tasks \o h.push /\ fault' = h.fault /\ file' = file
<1>1. /\ h.c \in Conn /\ h.k \in Object /\ h.peer \in PeerState /\ h.rx \in BOOLEAN
      /\ h.channels \in [Fd -> Conn \cup {NoConn}] /\ h.registered \in SUBSET Fd
      /\ h.interest \in [Fd -> SUBSET {"IN", "OUT"}] /\ h.fault \in Fault
  BY DEF HandlerState
<1>2. /\ conn' = [conn EXCEPT ![h.c] = h.k] /\ peer' = [peer EXCEPT ![h.c] = h.peer]
      /\ rx' = [rx EXCEPT ![h.c] = h.rx]
      /\ channels' = h.channels /\ registered' = h.registered /\ interest' = h.interest
      /\ tasks' = tasks \o h.push /\ fault' = h.fault /\ file' = file
  BY DEF End
<1>3. conn' \in [Conn -> Object] /\ peer' \in [Conn -> PeerState] /\ rx' \in [Conn -> BOOLEAN]
  BY <1>1, <1>2 DEF BodyOK
<1>4. /\ conn'[h.c] = h.k /\ peer'[h.c] = h.peer
      /\ \A d \in Conn \ {h.c} : conn'[d] = conn[d] /\ peer'[d] = peer[d]
  BY <1>1, <1>2 DEF BodyOK
<1> QED
  BY <1>1, <1>2, <1>3, <1>4 DEF BodyOK

LEMMA Begun ==
    ASSUME BodyOK, NEW c \in Conn
    PROVE  /\ Begin(c) \in HandlerState
           /\ Begin(c).c = c /\ Begin(c).k = conn[c] /\ Begin(c).peer = peer[c]
           /\ Begin(c).rx = rx[c] /\ Begin(c).channels = channels
           /\ Begin(c).registered = registered /\ Begin(c).interest = interest
           /\ Begin(c).push = <<>> /\ Begin(c).fault = "none"
           /\ conn[c] \in Object
<1>1. "none" \in Fault /\ <<>> \in Seq(Pushed \X Conn)
  BY DEF Fault
<1> QED
  BY <1>1 DEF Begin, HandlerState, BodyOK

LEMMA HowSilent == LifeInv => Silent \in Nat
  BY ProgramAssumption DEF LifeInv, TypeOK, Program, Silent

LEMMA BeginRuns ==
    ASSUME LifeInv, NEW c \in Conn, conn[c].status # "CONNECTING"
    PROVE  Runs(Begin(c))
<1>1. Born(c) /\ peer[c] # "away"
  BY DEF LifeInv, LifeOK
<1>2. conn[c].fd \in Fd
  BY <1>1, Bodied DEF BodyOK, Object, Born
<1> QED
  BY <1>1, <1>2, Bodied, Begun, HowSilent DEF Runs

-----------------------------------------------------------------------------
(***************************************************************************)
(* What the tables find, in a program whose connections are not shut down  *)
(* after their release: a descriptor is owned by the connection that has   *)
(* it, the tables agree with each other and with the channel they find, a  *)
(* connection waits for room to write in while it has output, and events   *)
(* are delivered to established connections.                               *)
(***************************************************************************)

OwnerOK == \A c \in Conn, fd \in Fd :
    file[fd] = c <=> conn[c].fd = fd /\ conn[c].status # "DISCONNECTED"

TablesOK == \A fd \in Fd :
    /\ channels[fd] = NoConn => fd \notin registered
    /\ channels[fd] # NoConn => /\ conn[channels[fd]].fd = fd
                                /\ conn[channels[fd]].status \in Up
                                /\ fd \in registered
                                /\ interest[fd] = conn[channels[fd]].events

MaskOK == \A c \in Conn : conn[c].status \in Up =>
    /\ "IN" \in conn[c].events
    /\ conn[c].out => "OUT" \in conn[c].events

EventsOK == \A c \in Conn : actives[c] # {} =>
    /\ conn[c].status \in Up
    /\ "OUT" \in actives[c] => "OUT" \in conn[c].events

ReleasedOK == \A c \in Conn :
    conn[c].status = "DISCONNECTED" <=> conn[c].releases > 0

(* It waits in vain only until it is released.                             *)
OwedInv == ~ShutByOthers /\ ~Empty =>
    \A c \in Conn : conn[c].status \in Up /\ "OUT" \in conn[c].events =>
                      conn[c].out \/ <<"Release", c>> \in Queued

FoundInv ==
    ~ShutByOthers => OwnerOK /\ TablesOK /\ MaskOK /\ EventsOK /\ ReleasedOK

(***************************************************************************)
(* Who keeps a connection: NewConnection or the server's map, until it is  *)
(* released; and then the removal that is queued, until it is out of both. *)
(***************************************************************************)
KeptInv == ~ShutByOthers =>
    /\ \A c \in Conn :
          Born(c) /\ conn[c].status # "DISCONNECTED" => c \in connections \/ accepting.conn = c
    /\ \A c \in ToSet(baseTasks) : conn[c].status = "DISCONNECTED"
    /\ \A c \in Conn :
          /\ c \in connections \/ accepting.conn = c
          /\ conn[c].status = "DISCONNECTED"
          => c \in ToSet(baseTasks)

LEMMA BeginSound ==
    ASSUME LifeInv, FoundInv, ~ShutByOthers, NEW c \in Conn, conn[c].status \in Up
    PROVE  Sound(Begin(c))
<1>1. BodyOK /\ Runs(Begin(c))
  BY Bodied, BeginRuns DEF Up
<1>2. conn[c].fd \in Fd
  BY <1>1, Begun DEF Runs
<1>3. file[conn[c].fd] = c
  BY <1>2 DEF FoundInv, OwnerOK, Up
<1>4. channels[conn[c].fd] \in {c, NoConn}
  <2> SUFFICES ASSUME channels[conn[c].fd] # NoConn PROVE channels[conn[c].fd] = c
    OBVIOUS
  <2> DEFINE d == channels[conn[c].fd]
  <2>1. d \in Conn /\ conn[d].fd = conn[c].fd /\ conn[d].status \in Up
    BY <1>1, <1>2 DEF BodyOK, FoundInv, TablesOK
  <2>2. file[conn[c].fd] = d
    BY <1>2, <2>1 DEF FoundInv, OwnerOK, Up
  <2> QED
    BY <1>3, <2>2
<1>5. c # NoConn
  BY NoneAssumption
<1>6. Placed(Begin(c))
  BY <1>1, <1>2, <1>3, <1>4, <1>5, Begun DEF Placed, FoundInv, TablesOK, MaskOK
<1>7. Synced(Begin(c)) /\ Watched(Begin(c))
  BY <1>1, <1>2, <1>5, Begun DEF Synced, Watched, FoundInv, TablesOK, MaskOK
<1> QED
  BY <1>6, <1>7 DEF Sound

LEMMA BeginOwed ==
    ASSUME LifeInv, OwedInv, ~ShutByOthers, NEW c \in Conn, conn[c].status \in Up
    PROVE  Owed(Begin(c))
<1>1. Begin(c).c = c /\ Begin(c).k = conn[c]
  BY Bodied, Begun
<1> QED
  BY <1>1 DEF OwedInv, Owed

LEMMA Establishes ==
    ASSUME LifeInv, NEW c \in Conn, Born(c), conn[c].status = "CONNECTING",
           NEW g, g = CareRead([Begin(c) EXCEPT !.k.status = "CONNECTED"])
    PROVE  /\ Runs(g) /\ g.c = c /\ g.push = <<>> /\ g.fault = "none"
           /\ g.k = [conn[c] EXCEPT !.status = "CONNECTED", !.events = @ \cup {"IN"}]
           /\ FoundInv /\ ~ShutByOthers => Sound(g) /\ g.channels[g.k.fd] = c
           /\ Owed(g)
<1> DEFINE b == Begin(c)
           k == [conn[c] EXCEPT !.status = "CONNECTED", !.events = @ \cup {"IN"}]
           a == [b EXCEPT !.k = k]
<1>1. /\ BodyOK /\ b \in HandlerState /\ b.c = c /\ b.k = conn[c] /\ b.peer = peer[c]
      /\ b.channels = channels /\ b.registered = registered /\ b.interest = interest
      /\ b.push = <<>> /\ b.fault = "none"
      /\ conn[c] \in Object
  BY Bodied, Begun
<1>2. conn[c].fd \in Fd /\ peer[c] # "away" /\ conn[c].events = {} /\ ~conn[c].out
  BY <1>1 DEF Born, Object, LifeInv, LifeOK
<1>3. /\ k \in Object /\ k.status = "CONNECTED" /\ k.fd = conn[c].fd
      /\ k.releases = conn[c].releases /\ k.events = {"IN"} /\ ~k.out
  BY <1>1, <1>2 DEF Object, Status
<1> HIDE DEF b
<1>4. [[b EXCEPT !.k.status = "CONNECTED"] EXCEPT !.k.events = @ \cup {"IN"}] = a
  BY <1>1 DEF HandlerState, Object
<1>5. g = UpdateToEpoll(a)
  BY <1>4 DEF CareRead, b
<1> HIDE DEF k
<1>6. /\ a \in HandlerState /\ a.c = c /\ a.k = k /\ a.peer = peer[c]
      /\ a.channels = channels /\ a.registered = registered /\ a.interest = interest
      /\ a.push = <<>> /\ a.fault = "none"
  BY <1>1, <1>3 DEF HandlerState
<1> HIDE DEF a
<1>7. Runs(a)
  BY <1>2, <1>3, <1>6, HowSilent DEF Runs
<1>8. /\ Runs(g) /\ g.k = a.k /\ g.c = a.c /\ g.push = a.push /\ g.fault = a.fault
      /\ Placed(a) => Placed(g) /\ Synced(g) /\ g.channels[g.k.fd] = g.c
  BY <1>5, <1>7, Updated
<1>9. ASSUME FoundInv, ~ShutByOthers PROVE Sound(g) /\ g.channels[g.k.fd] = c
  <2>1. file[conn[c].fd] = c
    BY <1>2, <1>9 DEF FoundInv, OwnerOK
  <2>2. channels[conn[c].fd] = NoConn
    <3> SUFFICES ASSUME channels[conn[c].fd] # NoConn PROVE FALSE
      OBVIOUS
    <3> DEFINE d == channels[conn[c].fd]
    <3>1. d \in Conn /\ conn[d].fd = conn[c].fd /\ conn[d].status \in Up
      BY <1>1, <1>2, <1>9 DEF BodyOK, FoundInv, TablesOK
    <3>2. file[conn[c].fd] = d
      BY <1>2, <1>9, <3>1 DEF FoundInv, OwnerOK, Up
    <3> QED
      BY <2>1, <3>1, <3>2 DEF Up
  <2>3. conn[c].fd \notin registered /\ c # NoConn
    BY <1>2, <1>9, <2>2, NoneAssumption DEF FoundInv, TablesOK
  <2>4. Placed(a)
    BY <1>3, <1>6, <2>1, <2>2, <2>3 DEF Placed, Up
  <2>5. Watched(g)
    BY <1>3, <1>6, <1>8 DEF Watched
  <2> QED
    BY <1>6, <1>8, <2>4, <2>5 DEF Sound
<1>10. Owed(g)
  BY <1>3, <1>6, <1>8 DEF Owed
<1> QED
  BY <1>6, <1>8, <1>9, <1>10 DEF k

-----------------------------------------------------------------------------
(***************************************************************************)
(* The kinds of steps, by what they do to the objects and the tables: one  *)
(* that nothing below sees, a handler that served a connection, a release, *)
(* and the arrival of a connection.                                        *)
(***************************************************************************)

Quiet ==
    /\ BodyOK'
    /\ UNCHANGED <<file, channels, registered, interest>>
    /\ \A c \in Conn :
          /\ conn'[c].status = conn[c].status /\ conn'[c].fd = conn[c].fd
          /\ conn'[c].events = conn[c].events /\ conn'[c].out = conn[c].out
          /\ conn'[c].releases = conn[c].releases
          /\ peer'[c] = "away" <=> peer[c] = "away"

Calms == \A c \in Conn : actives'[c] \in {actives[c], {}}

Served(h) ==
    /\ Runs(h)
    /\ End(h)
    /\ \A d \in Conn : actives'[d] = IF d = h.c THEN {} ELSE actives[d]
    /\ FoundInv /\ ~ShutByOthers =>
          /\ Sound(h)
          /\ conn[h.c].status \in Up \/ h.channels[h.k.fd] = h.c
          /\ OwedInv => Owed(h)

LEMMA Stays ==
    ASSUME BodyOK, UNCHANGED <<file, peer, rx, channels, registered, interest, conn>>,
           fault' \in Fault
    PROVE  Quiet
  BY DEF BodyOK, Quiet

LEMMA EndsQuietly ==
    ASSUME BodyOK, NEW c \in Conn, NEW k \in Object, NEW h \in HandlerState, End(h),
           h.c = c, h.k = k, h.peer = peer[c], h.channels = channels,
           h.registered = registered, h.interest = interest,
           k.status = conn[c].status, k.fd = conn[c].fd, k.events = conn[c].events,
           k.out = conn[c].out, k.releases = conn[c].releases
    PROVE  Quiet
<1>1. /\ BodyOK'
      /\ conn'[c] = k /\ peer'[c] = peer[c]
      /\ \A d \in Conn \ {c} : conn'[d] = conn[d] /\ peer'[d] = peer[d]
      /\ channels' = channels /\ registered' = registered /\ interest' = interest
      /\ file' = file
  BY Ended
<1> QED
  BY <1>1 DEF Quiet

LEMMA Dangles ==
    ASSUME BodyOK, NEW where \in Fault, Dangling(where)
    PROVE  Quiet
  BY Stays DEF Dangling, kernelVars, epollVars

(* A task pushed with the members the properties speak of unchanged. *)
LEMMA PushesQuietly ==
    ASSUME BodyOK, NEW c \in Conn, NEW k \in Object,
           k.status = conn[c].status, k.fd = conn[c].fd, k.events = conn[c].events,
           k.out = conn[c].out, k.releases = conn[c].releases,
           NEW f \in Fault,
           NEW p \in Seq(Pushed \X Conn), End([Begin(c) EXCEPT !.k = k, !.push = p, !.fault = f])
    PROVE  /\ Quiet /\ tasks' = tasks \o p
           /\ conn'[c] = k /\ fault' = f
           /\ \A d \in Conn \ {c} : conn'[d] = conn[d]
<1> DEFINE b == Begin(c)
           h == [b EXCEPT !.k = k, !.push = p, !.fault = f]
<1>1. /\ b \in HandlerState /\ b.c = c /\ b.k = conn[c] /\ b.peer = peer[c]
      /\ b.channels = channels /\ b.registered = registered /\ b.interest = interest
      /\ b.fault = "none" /\ b.rx = rx[c]
  BY Begun
<1>2. End(h)
  OBVIOUS
<1> HIDE DEF b
<1>3. /\ h \in HandlerState /\ h.c = c /\ h.k = k /\ h.peer = peer[c]
      /\ h.channels = channels /\ h.registered = registered /\ h.interest = interest
      /\ h.push = p /\ h.fault = f
  BY <1>1 DEF HandlerState
<1> HIDE DEF h
<1>4. Quiet
  BY <1>2, <1>3, EndsQuietly
<1> QED
  BY <1>2, <1>3, <1>4, Ended

(* The tasks of c that are pushed on the loop. *)
PushedFor(c) ==
    \E p \in Seq(Pushed \X Conn) : /\ tasks' = tasks \o p
                                   /\ \A i \in DOMAIN p : p[i][2] = c

LEMMA PushesOne ==
    ASSUME NEW c \in Conn, NEW op \in Pushed
    PROVE  /\ <<<<op, c>>>> \in Seq(Pushed \X Conn)
           /\ \A i \in DOMAIN <<<<op, c>>>> : <<<<op, c>>>>[i][2] = c
           /\ Append(<<>>, <<op, c>>) = <<<<op, c>>>>
  OBVIOUS

LEMMA Enables ==
    ASSUME LifeInv, NEW c \in Conn, EnableInactiveReleaseInLoop(c), ~Freed(c)
    PROVE  /\ Quiet /\ PushedFor(c)
           /\ tasks' = tasks \o <<<<IF left[c] > 0 THEN "Update" ELSE "Add", c>>>>
           /\ conn'[c].releaseOrNot /\ fault' = "none"
           /\ \A d \in Conn \ {c} : conn'[d] = conn[d]
<1> DEFINE k == [conn[c] EXCEPT !.releaseOrNot = TRUE]
           b == Begin(c)
<1>1. /\ BodyOK /\ b \in HandlerState /\ b.c = c /\ b.k = conn[c] /\ b.push = <<>>
      /\ b.fault = "none" /\ conn[c] \in Object
  BY Bodied, Begun
<1>2. /\ k \in Object /\ k.status = conn[c].status /\ k.fd = conn[c].fd
      /\ k.events = conn[c].events /\ k.out = conn[c].out /\ k.releases = conn[c].releases
      /\ k.releaseOrNot
  BY <1>1 DEF Object
<1>3. PICK op \in {"Update", "Add"} : /\ op = IF left[c] > 0 THEN "Update" ELSE "Add"
                                      /\ End(Push([b EXCEPT !.k.releaseOrNot = TRUE], op))
  BY DEF EnableInactiveReleaseInLoop
<1>4. op \in Pushed
  BY DEF Pushed
<1> DEFINE p == <<<<op, c>>>>
           f == "none"
<1>5. p \in Seq(Pushed \X Conn) /\ (\A i \in DOMAIN p : p[i][2] = c) /\ f \in Fault
      /\ Append(<<>>, <<op, c>>) = p
  BY <1>4, PushesOne DEF Fault
<1> HIDE DEF b, p
<1>6. Push([b EXCEPT !.k.releaseOrNot = TRUE], op) = [b EXCEPT !.k = k, !.push = p, !.fault = f]
  BY <1>1, <1>5 DEF Push, HandlerState
<1> HIDE DEF k, f
<1>7. End([Begin(c) EXCEPT !.k = k, !.push = p, !.fault = f])
  BY <1>3, <1>6 DEF b
<1>8. /\ Quiet /\ tasks' = tasks \o p /\ conn'[c] = k /\ fault' = f
      /\ \A d \in Conn \ {c} : conn'[d] = conn[d]
  BY <1>1, <1>2, <1>5, <1>7, PushesQuietly
<1>9. PushedFor(c)
  BY <1>5, <1>8 DEF PushedFor
<1>10. conn'[c].releaseOrNot /\ fault' = "none"
  BY <1>2, <1>8 DEF f
<1>11. tasks' = tasks \o <<<<IF left[c] > 0 THEN "Update" ELSE "Add", c>>>>
  BY <1>3, <1>8 DEF p
<1> QED
  BY <1>8, <1>9, <1>10, <1>11

LEMMA Cancels ==
    ASSUME LifeInv, NEW c \in Conn, CancelInactiveReleaseInLoop(c), ~Freed(c)
    PROVE  /\ Quiet /\ PushedFor(c)
           /\ tasks' = tasks \o IF left[c] > 0 THEN <<<<"Cancel", c>>>> ELSE <<>>
           /\ ~conn'[c].releaseOrNot /\ fault' = "none"
           /\ \A d \in Conn \ {c} : conn'[d] = conn[d]
<1> DEFINE k == [conn[c] EXCEPT !.releaseOrNot = FALSE]
           b == Begin(c)
           a == [b EXCEPT !.k.releaseOrNot = FALSE]
           f == "none"
<1>1. /\ BodyOK /\ b \in HandlerState /\ b.c = c /\ b.k = conn[c] /\ b.push = <<>>
      /\ b.fault = "none" /\ conn[c] \in Object
  BY Bodied, Begun
<1>2. /\ k \in Object /\ k.status = conn[c].status /\ k.fd = conn[c].fd
      /\ k.events = conn[c].events /\ k.out = conn[c].out /\ k.releases = conn[c].releases
      /\ ~k.releaseOrNot
  BY <1>1 DEF Object
<1>3. IF left[c] > 0 THEN End(Push(a, "Cancel")) ELSE End(a)
  BY DEF CancelInactiveReleaseInLoop
<1>4. "Cancel" \in Pushed /\ f \in Fault
  BY DEF Pushed, Fault
<1>5. <<>> \in Seq(Pushed \X Conn) /\ \A i \in DOMAIN <<>> : <<>>[i][2] = c
  OBVIOUS
<1>6. PICK p \in {<<<<"Cancel", c>>>>, <<>>} :
         /\ p = IF left[c] > 0 THEN <<<<"Cancel", c>>>> ELSE <<>>
         /\ End([b EXCEPT !.k = k, !.push = p, !.fault = f])
  <2>1. CASE ~(left[c] > 0) /\ End(a)
    <3> HIDE DEF b
    <3>1. a = [b EXCEPT !.k = k, !.push = <<>>, !.fault = f]
      BY <1>1 DEF HandlerState
    <3> HIDE DEF a, k, f
    <3> QED
      BY <2>1, <3>1
  <2>2. CASE left[c] > 0 /\ End(Push(a, "Cancel"))
    <3> HIDE DEF b
    <3>1. Push(a, "Cancel") = [b EXCEPT !.k = k, !.push = <<<<"Cancel", c>>>>, !.fault = f]
      BY <1>1, <1>4, PushesOne DEF Push, HandlerState
    <3> HIDE DEF a, k, f
    <3> QED
      BY <2>2, <3>1
  <2> QED
    BY <1>3, <2>1, <2>2
<1>7. p \in Seq(Pushed \X Conn) /\ \A i \in DOMAIN p : p[i][2] = c
  BY <1>4, <1>5, PushesOne
<1> HIDE DEF k, f
<1>8. /\ Quiet /\ tasks' = tasks \o p /\ conn'[c] = k /\ fault' = f
      /\ \A d \in Conn \ {c} : conn'[d] = conn[d]
  BY <1>1, <1>2, <1>4, <1>6, <1>7, PushesQuietly
<1> QED
  BY <1>2, <1>6, <1>7, <1>8 DEF PushedFor, f

LEMMA Upgrades ==
    ASSUME LifeInv, NEW c \in Conn, End(UpgradeInLoop(Begin(c)))
    PROVE  /\ Quiet /\ PushedFor(c)
           /\ tasks' = tasks /\ fault' = "none"
           /\ conn'[c].releaseOrNot = conn[c].releaseOrNot
           /\ \A d \in Conn \ {c} : conn'[d] = conn[d]
<1> DEFINE k == [conn[c] EXCEPT !.protocol.others = "next"]
           b == Begin(c)
           f == "none"
           p == <<>>
<1>1. /\ BodyOK /\ b \in HandlerState /\ b.c = c /\ b.k = conn[c] /\ b.push = <<>>
      /\ b.fault = "none" /\ conn[c] \in Object
  BY Bodied, Begun
<1>2. /\ k \in Object /\ k.status = conn[c].status /\ k.fd = conn[c].fd
      /\ k.events = conn[c].events /\ k.out = conn[c].out /\ k.releases = conn[c].releases
      /\ k.releaseOrNot = conn[c].releaseOrNot
  BY <1>1 DEF Object
<1>3. p \in Seq(Pushed \X Conn) /\ (\A i \in DOMAIN p : p[i][2] = c) /\ f \in Fault
  BY DEF Fault
<1> HIDE DEF b
<1>4. UpgradeInLoop(b) = [b EXCEPT !.k = k, !.push = p, !.fault = f]
  BY <1>1 DEF UpgradeInLoop, HandlerState, Object
<1> HIDE DEF k, f
<1>5. End([b EXCEPT !.k = k, !.push = p, !.fault = f])
  BY <1>4 DEF b
<1>6. tasks \o p = tasks
  BY DEF LifeInv, TypeOK
<1> HIDE DEF p
<1>7. /\ Quiet /\ tasks' = tasks \o p /\ conn'[c] = k /\ fault' = f
      /\ \A d \in Conn \ {c} : conn'[d] = conn[d]
  BY <1>1, <1>2, <1>3, <1>5, PushesQuietly DEF b
<1> QED
  BY <1>2, <1>3, <1>6, <1>7 DEF PushedFor, f

(* Nothing is done, but the process may die. *)
LEMMA DoesNothing ==
    ASSUME LifeInv, NEW c \in Conn, NEW f \in Fault, End([Begin(c) EXCEPT !.fault = f])
    PROVE  Quiet /\ PushedFor(c)
<1> DEFINE k == conn[c]
           b == Begin(c)
           p == <<>>
<1>1. /\ BodyOK /\ b \in HandlerState /\ b.k = conn[c] /\ b.push = <<>>
      /\ conn[c] \in Object
  BY Bodied, Begun
<1>2. p \in Seq(Pushed \X Conn) /\ \A i \in DOMAIN p : p[i][2] = c
  OBVIOUS
<1> HIDE DEF b
<1>3. [b EXCEPT !.fault = f] = [b EXCEPT !.k = k, !.push = p, !.fault = f]
  BY <1>1 DEF HandlerState
<1>4. End([b EXCEPT !.k = k, !.push = p, !.fault = f])
  BY <1>3 DEF b
<1> HIDE DEF p
<1>5. Quiet /\ tasks' = tasks \o p
  BY <1>1, <1>2, <1>4, PushesQuietly DEF b
<1> QED
  BY <1>2, <1>5 DEF PushedFor

LEMMA Taken ==
    ASSUME LifeInv, NEW c \in Conn, NEW op, Task(op, c)
    PROVE  /\ <<op, c>> \in Queued /\ <<op, c>> \in Op \X Conn /\ Born(c)
           /\ op \in {"Send", "Shutdown"} => conn[c].status # "CONNECTING"
           /\ op = "Shutdown" => ShutByOthers
           /\ pending \in Seq(Op \X Conn) /\ pending # <<>>
           /\ pending' \in Seq(Op \X Conn)
           /\ ToSet(pending) = {<<op, c>>} \cup ToSet(pending')
           /\ pc' \in {"monitor", "run"} /\ (pc' = "run" <=> pending' # <<>>)
           /\ actives' = actives /\ tickActive' = tickActive
           /\ \A d \in Conn : actives[d] = {}
<1>1. /\ pc = "run" /\ Head(pending) = <<op, c>> /\ pending' = Tail(pending)
      /\ pc' = IF Len(pending) = 1 THEN "monitor" ELSE "run"
      /\ actives' = actives /\ tickActive' = tickActive
  BY DEF Task
<1>2. pending \in Seq(Op \X Conn) /\ pending # <<>> /\ \A d \in Conn : actives[d] = {}
  BY <1>1 DEF LifeInv, TypeOK, PhaseOK
<1>3. /\ Head(pending) \in Op \X Conn /\ Tail(pending) \in Seq(Op \X Conn)
      /\ ToSet(pending) = {Head(pending)} \cup ToSet(Tail(pending))
      /\ Len(pending) = 1 <=> Tail(pending) = <<>>
  BY <1>2, TailSet
<1>4. <<op, c>> \in Queued
  BY <1>1, <1>3 DEF Queued
<1>5. /\ Born(<<op, c>>[2])
      /\ <<op, c>>[1] \in {"Send", "Shutdown"} => conn[<<op, c>>[2]].status # "CONNECTING"
      /\ <<op, c>>[1] = "Shutdown" => ShutByOthers
  BY <1>4 DEF LifeInv, QueuedOK
<1> QED
  BY <1>1, <1>2, <1>3, <1>4, <1>5

LEMMA ServedPushes ==
    ASSUME NEW h, Served(h)
    PROVE  PushedFor(h.c)
  BY DEF Served, Runs, HandlerState, End, PushedFor

LEMMA ServesEvents ==
    ASSUME LifeInv, NEW c \in Conn, NEW all, HandleEvents(c, all), ~Freed(c)
    PROVE  \E h : Served(h) /\ h.c = c
<1>1. actives[c] # {} /\ actives' = [actives EXCEPT ![c] = {}]
  BY DEF HandleEvents
<1>2. PICK h \in Outcomes(c, actives[c], all) : End(h)
  BY DEF HandleEvents
<1>3. Runs(Begin(c))
  BY <1>1, BeginRuns DEF LifeInv, ReachedOK
<1>4. /\ Runs(h) /\ h.c = c
      /\ Sound(Begin(c)) /\ ("OUT" \in actives[c] => "OUT" \in conn[c].events) => Sound(h)
      /\ Owed(Begin(c)) => Owed(h)
  BY <1>3, HandledEvents
<1>5. FoundInv /\ ~ShutByOthers =>
         Sound(h) /\ conn[c].status \in Up /\ (OwedInv => Owed(h))
  BY <1>1, <1>4, BeginSound, BeginOwed DEF FoundInv, EventsOK
<1>6. \A d \in Conn : actives'[d] = IF d = c THEN {} ELSE actives[d]
  BY <1>1 DEF LifeInv, TypeOK
<1> QED
  BY <1>2, <1>4, <1>5, <1>6 DEF Served

LEMMA ServesCalls ==
    ASSUME LifeInv, NEW c \in Conn, CalledInLoop(c), ~Freed(c)
    PROVE  (Quiet /\ PushedFor(c)) \/ \E h : Served(h) /\ h.c = c
<1>1. PICK op \in {"Send", "Shutdown", "SwitchProtocol"} :
         /\ Task(op, c)
         /\ op = "Send" => \E some \in BOOLEAN :
                              (some \/ Empty) /\ End(SendInLoop(Begin(c), some))
         /\ op = "Shutdown" => \E h \in ShutdownInLoop(Begin(c)) : End(h)
         /\ op = "SwitchProtocol" => End(UpgradeInLoop(Begin(c)))
  BY DEF CalledInLoop
<1>2. /\ op \in {"Send", "Shutdown"} => conn[c].status # "CONNECTING"
      /\ op = "Shutdown" => ShutByOthers
      /\ actives' = actives
      /\ \A d \in Conn : actives[d] = {}
  BY <1>1, Taken
<1>3. BodyOK /\ Begin(c).k = conn[c] /\ Begin(c).c = c /\ Begin(c).fault = "none"
      /\ Begin(c) \in HandlerState
  BY Bodied, Begun
<1>4. CASE op = "Send" /\ conn[c].status = "DISCONNECTED"
  <2>1. \A some \in BOOLEAN : SendInLoop(Begin(c), some) = [Begin(c) EXCEPT !.fault = "none"]
    BY <1>3, <1>4 DEF SendInLoop, HandlerState
  <2>2. End([Begin(c) EXCEPT !.fault = "none"])
    BY <1>1, <1>4, <2>1
  <2>3. "none" \in Fault
    BY DEF Fault
  <2> QED
    BY <2>2, <2>3, DoesNothing
<1>5. CASE op = "Send" /\ conn[c].status # "DISCONNECTED"
  <2>0. PICK some \in BOOLEAN : (some \/ Empty) /\ End(SendInLoop(Begin(c), some))
    BY <1>1, <1>5
  <2> DEFINE h == SendInLoop(Begin(c), some)
  <2>1. Runs(Begin(c))
    BY <1>2, <1>5, BeginRuns
  <2>2. Follows(Begin(c), h)
    BY <2>0, <2>1, Sent
  <2>3. conn[c].status \in Up
    BY <1>2, <1>3, <1>5, Begun DEF Object, Status, Up
  <2>4. End(h)
    BY <2>0
  <2> HIDE DEF h
  <2>5. FoundInv /\ ~ShutByOthers => Sound(h) /\ (OwedInv => Owed(h))
    BY <2>2, <2>3, BeginSound, BeginOwed DEF Follows
  <2> QED
    BY <1>2, <1>3, <2>2, <2>3, <2>4, <2>5 DEF Served, Follows
<1>6. CASE op = "Shutdown"
  <2>1. PICK h \in ShutdownInLoop(Begin(c)) : End(h)
    BY <1>1, <1>6
  <2>2. Runs(Begin(c))
    BY <1>2, <1>6, BeginRuns
  <2>3. Runs(h) /\ h.c = c
    BY <1>3, <2>2, ShutDown DEF Follows
  <2> QED
    BY <1>2, <1>6, <2>1, <2>3 DEF Served
<1>7. CASE op = "SwitchProtocol"
  BY <1>1, <1>7, Upgrades
<1> QED
  BY <1>4, <1>5, <1>6, <1>7

LEMMA ServesEstablished ==
    ASSUME LifeInv, NEW c \in Conn, EstablishedInLoop(c), ~Freed(c)
    PROVE  (Quiet /\ PushedFor(c)) \/ \E h : Served(h) /\ h.c = c
<1>1. /\ Task("Established", c)
      /\ conn[c].status # "CONNECTING" => End([Begin(c) EXCEPT !.fault = "assert"])
      /\ conn[c].status = "CONNECTING" =>
            End(CareRead([Begin(c) EXCEPT !.k.status = "CONNECTED"]))
  BY DEF EstablishedInLoop
<1>2. Born(c) /\ actives' = actives /\ \A d \in Conn : actives[d] = {}
  BY <1>1, Taken
<1>3. CASE conn[c].status # "CONNECTING"
  <2>1. "assert" \in Fault
    BY DEF Fault
  <2> QED
    BY <1>1, <1>3, <2>1, DoesNothing
<1>4. CASE conn[c].status = "CONNECTING"
  <2> DEFINE h == CareRead([Begin(c) EXCEPT !.k.status = "CONNECTED"])
  <2>1. /\ Runs(h) /\ h.c = c
        /\ FoundInv /\ ~ShutByOthers => Sound(h) /\ h.channels[h.k.fd] = c
        /\ Owed(h)
    BY <1>2, <1>4, Establishes
  <2> QED
    BY <1>1, <1>2, <1>4, <2>1 DEF Served
<1> QED
  BY <1>3, <1>4

(* Without a worker the acceptor is a handler of the one loop. *)
LEMMA ServesAccepted ==
    ASSUME LifeInv, Established, ~Workers
    PROVE  \E h : Served(h) /\ h.c = accepting.conn
<1> DEFINE c == accepting.conn
           h == CareRead([Begin(c) EXCEPT !.k.status = "CONNECTED"])
<1>1. End(h) /\ actives' = actives
  BY DEF Established
<1>2. c \in Conn /\ Born(c) /\ conn[c].status = "CONNECTING"
  BY DEF Established, LifeInv, AcceptOK
<1>3. actives[c] = {}
  BY <1>2 DEF LifeInv, ReachedOK
<1>4. /\ Runs(h) /\ h.c = c
      /\ FoundInv /\ ~ShutByOthers => Sound(h) /\ h.channels[h.k.fd] = c
      /\ Owed(h)
  BY <1>2, Establishes
<1> HIDE DEF c, h
<1>5. \A d \in Conn : actives'[d] = IF d = h.c THEN {} ELSE actives[d]
  BY <1>1, <1>3, <1>4
<1> QED
  BY <1>1, <1>4, <1>5 DEF Served, c

(* A release, by what it does to each object and each descriptor. *)
LEMMA Releases ==
    ASSUME LifeInv, NEW c \in Conn, ReleaseInLoop(c), ~Freed(c)
    PROVE  /\ Task("Release", c)
           /\ conn[c].fd \in Fd
           /\ BodyOK'
           /\ conn'[c].status = "DISCONNECTED" /\ conn'[c].fd = conn[c].fd
           /\ conn'[c].out = conn[c].out /\ ~conn'[c].releaseOrNot
           /\ conn'[c].releases = conn[c].releases + 1 /\ conn[c].releases \in Nat
           /\ conn[c] \in Object
           /\ peer'[c] = "closed"
           /\ \A d \in Conn \ {c} : conn'[d] = conn[d] /\ peer'[d] = peer[d]
           /\ \A fd \in Fd : file'[fd] = IF file[fd] = c THEN NoConn ELSE file[fd]
           /\ channels'[conn[c].fd] = NoConn
           /\ channels[conn[c].fd] # NoConn \/ file[conn[c].fd] = c =>
                 conn[c].fd \notin registered'
           /\ ~(channels[conn[c].fd] # NoConn \/ file[conn[c].fd] = c) =>
                 registered' = registered
           /\ \A fd \in Fd \ {conn[c].fd} : /\ channels'[fd] = channels[fd]
                                            /\ interest'[fd] = interest[fd]
                                            /\ fd \in registered' <=> fd \in registered
           /\ RemoveConnection(c)
           /\ tasks' = IF conn[c].releaseOrNot /\ left[c] > 0
                       THEN Append(tasks, <<"Cancel", c>>) ELSE tasks
           /\ fault' = fault /\ UNCHANGED timerVars
<1>1. /\ Task("Release", c)
      /\ conn' = [conn EXCEPT ![c].status = "DISCONNECTED", ![c].releaseOrNot = FALSE,
                              ![c].releases = @ + 1]
      /\ channels' = [channels EXCEPT ![conn[c].fd] = NoConn]
      /\ IF channels[conn[c].fd] # NoConn \/ file[conn[c].fd] = c
         THEN /\ registered' = registered \ {conn[c].fd}
              /\ interest' = [interest EXCEPT ![conn[c].fd] = {}]
         ELSE UNCHANGED <<registered, interest>>
      /\ file' = [d \in Fd |-> IF file[d] = c THEN NoConn ELSE file[d]]
      /\ peer' = [peer EXCEPT ![c] = "closed"]
      /\ rx' = [rx EXCEPT ![c] = FALSE]
      /\ tasks' = IF conn[c].releaseOrNot /\ left[c] > 0
                  THEN Append(tasks, <<"Cancel", c>>) ELSE tasks
      /\ RemoveConnection(c)
      /\ fault' = fault /\ UNCHANGED timerVars
  BY DEF ReleaseInLoop
<1>2. BodyOK /\ conn[c] \in Object
  BY Bodied, Begun
<1>3. conn[c].fd \in Fd
  BY <1>1, <1>2, Taken DEF Born, Object
<1> DEFINE k == [conn[c] EXCEPT !.status = "DISCONNECTED", !.releaseOrNot = FALSE,
                                !.releases = @ + 1]
<1>4. k \in Object
  <2>1. conn[c].releases + 1 \in Nat /\ "DISCONNECTED" \in Status
    BY <1>2 DEF Object, Status
  <2>2. PICK no \in BOOLEAN : no = FALSE
    OBVIOUS
  <2>3. k = [conn[c] EXCEPT !.status = "DISCONNECTED", !.releaseOrNot = no,
                            !.releases = conn[c].releases + 1]
    BY <2>2
  <2> HIDE DEF k
  <2> QED
    BY <1>2, <2>1, <2>3 DEF Object
<1>5. conn' = [conn EXCEPT ![c] = k]
  <2>1. conn \in [Conn -> Object]
    BY <1>2 DEF BodyOK
  <2>2. [[[conn EXCEPT ![c].status = "DISCONNECTED"] EXCEPT ![c].releaseOrNot = FALSE]
            EXCEPT ![c].releases = @ + 1] = [conn EXCEPT ![c] = k]
    BY <1>2, <2>1 DEF Object
  <2> QED
    BY <1>1, <2>2
<1> HIDE DEF k
<1>6. /\ conn' \in [Conn -> Object] /\ conn'[c] = k
      /\ \A d \in Conn \ {c} : conn'[d] = conn[d]
  BY <1>2, <1>4, <1>5 DEF BodyOK
<1>7. "closed" \in PeerState
  BY DEF PeerState
<1>8. /\ peer' \in [Conn -> PeerState] /\ rx' \in [Conn -> BOOLEAN]
      /\ peer'[c] = "closed" /\ \A d \in Conn \ {c} : peer'[d] = peer[d]
  BY <1>1, <1>2, <1>7 DEF BodyOK
<1>9. /\ channels' \in [Fd -> Conn \cup {NoConn}] /\ channels'[conn[c].fd] = NoConn
      /\ \A fd \in Fd \ {conn[c].fd} : channels'[fd] = channels[fd]
      /\ file' \in [Fd -> Conn \cup {NoConn}]
      /\ \A fd \in Fd : file'[fd] = IF file[fd] = c THEN NoConn ELSE file[fd]
  BY <1>1, <1>2, <1>3 DEF BodyOK
<1>10. /\ registered' \in SUBSET Fd /\ interest' \in [Fd -> SUBSET {"IN", "OUT"}]
       /\ \A fd \in Fd \ {conn[c].fd} : /\ interest'[fd] = interest[fd]
                                        /\ fd \in registered' <=> fd \in registered
       /\ channels[conn[c].fd] # NoConn \/ file[conn[c].fd] = c =>
             conn[c].fd \notin registered'
       /\ ~(channels[conn[c].fd] # NoConn \/ file[conn[c].fd] = c) =>
             registered' = registered
  <2>1. CASE channels[conn[c].fd] # NoConn \/ file[conn[c].fd] = c
    BY <1>1, <1>2, <1>3, <2>1 DEF BodyOK
  <2>2. CASE ~(channels[conn[c].fd] # NoConn \/ file[conn[c].fd] = c)
    BY <1>1, <1>2, <1>3, <2>2 DEF BodyOK
  <2> QED
    BY <2>1, <2>2
<1>11. BodyOK'
  BY <1>1, <1>2, <1>6, <1>8, <1>9, <1>10 DEF BodyOK
<1>12. /\ k.status = "DISCONNECTED" /\ k.fd = conn[c].fd /\ k.out = conn[c].out
       /\ ~k.releaseOrNot /\ k.releases = conn[c].releases + 1 /\ conn[c].releases \in Nat
  BY <1>2 DEF k, Object
<1> QED
  BY <1>1, <1>2, <1>3, <1>6, <1>8, <1>9, <1>10, <1>11, <1>12

(* The arrival of a connection. *)
LEMMA Arrives ==
    ASSUME LifeInv, NEW c \in Conn, NEW fd \in Fd, NewConnection(c, fd)
    PROVE  /\ BodyOK'
           /\ conn[c].status = "CONNECTING" /\ ~Born(c) /\ conn[c] \in Object
           /\ conn'[c].fd = fd /\ conn'[c].status = "CONNECTING"
           /\ conn'[c].events = conn[c].events /\ conn'[c].out = conn[c].out
           /\ conn'[c].releases = conn[c].releases
           /\ conn'[c].releaseOrNot <=> Timers /\ ~Workers
           /\ peer[c] = "away" /\ peer'[c] = "open"
           /\ \A d \in Conn \ {c} : conn'[d] = conn[d] /\ peer'[d] = peer[d]
           /\ file[fd] = NoConn /\ file'[fd] = c
           /\ \A d \in Fd \ {fd} : file'[d] = file[d]
           /\ UNCHANGED epollVars
           /\ fault' = fault
<1>1. /\ peer[c] = "away" /\ file[fd] = NoConn
      /\ file' = [file EXCEPT ![fd] = c]
      /\ peer' = [peer EXCEPT ![c] = "open"]
      /\ conn' = [conn EXCEPT ![c].fd = fd, ![c].releaseOrNot = Timers /\ ~Workers]
      /\ UNCHANGED <<rx, epollVars, fault>>
  BY DEF NewConnection, notBaseVars
<1>2. BodyOK /\ conn[c] \in Object
  BY Bodied, Begun
<1>3. PICK yes \in BOOLEAN : yes = (Timers /\ ~Workers)
  OBVIOUS
<1> DEFINE k == [conn[c] EXCEPT !.fd = fd, !.releaseOrNot = yes]
<1>4. k \in Object
  BY <1>2 DEF Object
<1>5. conn' = [conn EXCEPT ![c] = k]
  BY <1>1, <1>2, <1>3 DEF BodyOK
<1> HIDE DEF k
<1>6. /\ conn' \in [Conn -> Object] /\ conn'[c] = k
      /\ \A d \in Conn \ {c} : conn'[d] = conn[d]
  BY <1>2, <1>4, <1>5 DEF BodyOK
<1>7. "open" \in PeerState
  BY DEF PeerState
<1>8. /\ peer' \in [Conn -> PeerState] /\ peer'[c] = "open"
      /\ \A d \in Conn \ {c} : peer'[d] = peer[d]
      /\ file' \in [Fd -> Conn \cup {NoConn}] /\ file'[fd] = c
      /\ \A d \in Fd \ {fd} : file'[d] = file[d]
  BY <1>1, <1>2, <1>7 DEF BodyOK
<1>9. BodyOK'
  BY <1>1, <1>2, <1>6, <1>8 DEF BodyOK, epollVars
<1>10. conn[c].status = "CONNECTING" /\ ~Born(c)
  BY <1>1 DEF LifeInv, LifeOK
<1>11. /\ k.fd = fd /\ k.status = conn[c].status /\ k.events = conn[c].events
       /\ k.out = conn[c].out /\ k.releases = conn[c].releases
       /\ k.releaseOrNot = yes
  BY <1>2 DEF k, Object
<1> QED
  BY <1>1, <1>2, <1>3, <1>6, <1>8, <1>9, <1>10, <1>11

-----------------------------------------------------------------------------
(* Each kind of step keeps the objects and the map as LifeInv wants them. *)

Onward ==
    /\ BodyOK' /\ LifeOK' /\ MappedOK'
    /\ \A c \in Conn : /\ Born(c) => conn'[c].fd # NoFd
                       /\ conn[c].status # "CONNECTING" => conn'[c].status # "CONNECTING"

LEMMA QuietOnward ==
    ASSUME LifeInv, Quiet
    PROVE  Onward
<1>1. BodyOK' /\ LifeOK'
  BY DEF Quiet, LifeInv, LifeOK, Born
<1>2. MappedOK'
  BY Bodied DEF Quiet, LifeInv, MappedOK, BodyOK
<1> QED
  BY <1>1, <1>2 DEF Quiet, Born, Onward

LEMMA ServedOnward ==
    ASSUME LifeInv, NEW h, Served(h)
    PROVE  Onward
<1>1. h \in HandlerState /\ h.c \in Conn /\ End(h) /\ BodyOK
  BY Bodied DEF Served, Runs, HandlerState
<1>2. /\ BodyOK'
      /\ conn'[h.c] = h.k /\ peer'[h.c] = h.peer
      /\ \A d \in Conn \ {h.c} : conn'[d] = conn[d] /\ peer'[d] = peer[d]
      /\ channels' = h.channels
  BY <1>1, Ended
<1>3. /\ h.k.fd # NoFd /\ h.k.fd = conn[h.c].fd /\ h.k.status # "CONNECTING" /\ h.peer # "away"
      /\ \A d \in Fd : h.channels[d] \in {channels[d], h.c}
  BY NoneAssumption DEF Served, Runs
<1>4. LifeOK'
  BY <1>1, <1>2, <1>3 DEF LifeInv, LifeOK, Born
<1>5. MappedOK'
  BY <1>1, <1>2, <1>3 DEF LifeInv, MappedOK, BodyOK
<1> QED
  BY <1>1, <1>2, <1>3, <1>4, <1>5 DEF Onward, Born

LEMMA ReleasedOnward ==
    ASSUME LifeInv, NEW c \in Conn, ReleaseInLoop(c), ~Freed(c)
    PROVE  Onward
<1>0. /\ conn[c].fd \in Fd /\ BodyOK' /\ peer'[c] = "closed"
      /\ conn'[c].status = "DISCONNECTED" /\ conn'[c].fd = conn[c].fd
      /\ \A d \in Conn \ {c} : conn'[d] = conn[d] /\ peer'[d] = peer[d]
      /\ channels'[conn[c].fd] = NoConn
      /\ \A fd \in Fd \ {conn[c].fd} : channels'[fd] = channels[fd]
  BY Releases
<1>1. /\ conn[c].fd \in Fd /\ BodyOK /\ BodyOK' /\ peer'[c] = "closed"
      /\ conn'[c].status = "DISCONNECTED" /\ conn'[c].fd = conn[c].fd
      /\ \A d \in Conn \ {c} : conn'[d] = conn[d] /\ peer'[d] = peer[d]
      /\ \A fd \in Fd : channels'[fd] \in {channels[fd], NoConn}
  BY <1>0, Bodied
<1>2. LifeOK'
  BY <1>1, NoneAssumption DEF LifeInv, LifeOK, Born
<1>3. MappedOK'
  BY <1>1 DEF LifeInv, MappedOK, BodyOK
<1> QED
  BY <1>1, <1>2, <1>3, NoneAssumption DEF Onward, Born

LEMMA ArrivedOnward ==
    ASSUME LifeInv, NEW c \in Conn, NEW fd \in Fd, NewConnection(c, fd)
    PROVE  Onward /\ conn'[c].fd # NoFd /\ conn'[c].status = "CONNECTING"
<1>1. /\ BodyOK /\ BodyOK' /\ peer'[c] = "open"
      /\ conn[c].status = "CONNECTING" /\ ~Born(c) /\ conn[c] \in Object
      /\ \A d \in Conn \ {c} : conn'[d] = conn[d] /\ peer'[d] = peer[d]
      /\ UNCHANGED epollVars
  BY Bodied, Arrives
<1>2. /\ conn'[c].fd = fd /\ conn'[c].status = conn[c].status
      /\ conn'[c].events = conn[c].events /\ conn'[c].out = conn[c].out
  BY <1>1, Arrives
<1>3. LifeOK'
  BY <1>1, <1>2, NoneAssumption DEF LifeInv, LifeOK, Born
<1>4. MappedOK'
  BY <1>1, <1>2 DEF LifeInv, MappedOK, BodyOK, epollVars
<1> QED
  BY <1>1, <1>2, <1>3, <1>4, NoneAssumption DEF Onward, Born

-----------------------------------------------------------------------------
(***************************************************************************)
(* LifeInv is inductive.  It is split by who may write what.               *)
(***************************************************************************)

TimerPart ==
    /\ late \in 0 .. MaxLate
    /\ left \in [Conn -> 0 .. Timeout]
    /\ valid \in [Conn -> BOOLEAN]
    /\ TimersOK
    /\ \A c \in Conn : left[c] > 0 => Born(c)

BasePart ==
    /\ program \in Programs
    /\ accepting \in [step : {"idle", "ready", "establish", "insert"},
                      conn : Conn \cup {NoConn}]
    /\ connections \in SUBSET Conn
    /\ baseTasks \in Seq(Conn)
    /\ held \in SUBSET Conn
    /\ calls \in 0 .. MaxCalls
    /\ AcceptOK
    /\ \A c \in held : conn[c].status # "CONNECTING"

LoopPart ==
    /\ pc \in {"monitor", "handle", "run"}
    /\ actives \in [Conn -> SUBSET Event]
    /\ tickActive \in BOOLEAN
    /\ tasks \in Seq(Op \X Conn)
    /\ pending \in Seq(Op \X Conn)
    /\ QueuedOK
    /\ PhaseOK
    /\ \A c \in Conn : actives[c] # {} => conn[c].status # "CONNECTING"

LEMMA Parts ==
    LifeInv <=> BodyOK /\ LifeOK /\ MappedOK /\ TimerPart /\ BasePart /\ LoopPart
<1>1. LifeInv => BodyOK /\ LifeOK /\ MappedOK /\ TimerPart /\ BasePart /\ LoopPart
  BY Bodied DEF LifeInv, ReachedOK, TypeOK, TimerPart, BasePart, LoopPart
<1>2. BodyOK /\ LifeOK /\ MappedOK /\ TimerPart /\ BasePart /\ LoopPart => LifeInv
  <2> SUFFICES ASSUME BodyOK, LifeOK, MappedOK, TimerPart, BasePart, LoopPart PROVE LifeInv
    OBVIOUS
  <2>1. TypeOK
    BY DEF TypeOK, BodyOK, Object, TimerPart, BasePart, LoopPart
  <2>2. ReachedOK
    BY DEF ReachedOK, TimerPart, BasePart, LoopPart
  <2> QED
    BY <2>1, <2>2 DEF LifeInv, TimerPart, BasePart, LoopPart
<1> QED
  BY <1>1, <1>2

LEMMA PartsNext ==
    ASSUME Onward, TimerPart', BasePart', LoopPart'
    PROVE  LifeInv'
<1>1. LifeInv' <=> (BodyOK /\ LifeOK /\ MappedOK /\ TimerPart /\ BasePart /\ LoopPart)'
  BY Parts, PTL
<1> QED
  BY <1>1 DEF Onward

LEMMA TimersKept ==
    ASSUME LifeInv, Onward, UNCHANGED timerVars
    PROVE  TimerPart'
<1>1. TimerPart
  BY Parts
<1>2. TimersOK'
  BY <1>1 DEF TimerPart, TimersOK, timerVars
<1> QED
  BY <1>1, <1>2 DEF TimerPart, timerVars, Onward, Born

LEMMA BaseKept ==
    ASSUME LifeInv, Onward, LoopIsFree, UNCHANGED baseVars
    PROVE  BasePart'
<1>1. BasePart
  BY Parts
<1>2. AcceptOK'
  BY <1>1 DEF BasePart, AcceptOK, baseVars, userVars, Onward, Born, LoopIsFree, Workers
<1> QED
  BY <1>1, <1>2 DEF BasePart, baseVars, userVars, Onward

Fresh(t) == /\ t \in Op \X Conn
            /\ conn'[t[2]].fd # NoFd
            /\ t[1] \in {"Send", "Shutdown"} => conn'[t[2]].status # "CONNECTING"
            /\ t[1] = "Shutdown" => ShutByOthers

LEMMA QueuesKept ==
    ASSUME LifeInv, Onward, program' = program,
           \A t \in ToSet(tasks') \cup ToSet(pending') : t \in Queued \/ Fresh(t)
    PROVE  QueuedOK'
<1>1. /\ tasks \in Seq(Op \X Conn) /\ pending \in Seq(Op \X Conn)
      /\ ToSet(tasks) \subseteq Op \X Conn /\ ToSet(pending) \subseteq Op \X Conn
  BY InSeq DEF LifeInv, TypeOK
<1> SUFFICES ASSUME NEW t \in ToSet(tasks') \cup ToSet(pending')
             PROVE  /\ conn'[t[2]].fd # NoFd
                    /\ t[1] \in {"Send", "Shutdown"} => conn'[t[2]].status # "CONNECTING"
                    /\ t[1] = "Shutdown" => ShutByOthers'
  BY DEF QueuedOK, Born, Queued
<1>2. ShutByOthers' = ShutByOthers
  BY DEF ShutByOthers, Calls
<1>3. CASE t \in Queued
  <2>1. t[2] \in Conn
    BY <1>1, <1>3 DEF Queued
  <2> QED
    BY <1>2, <1>3, <2>1 DEF LifeInv, QueuedOK, Onward
<1>4. CASE Fresh(t)
  BY <1>2, <1>4 DEF Fresh
<1> QED
  BY <1>3, <1>4

LEMMA Pushes ==
    ASSUME LifeInv, Onward, NEW c \in Conn, Born(c), PushedFor(c)
    PROVE  /\ tasks' \in Seq(Op \X Conn)
           /\ \A t \in ToSet(tasks') : t \in ToSet(tasks) \/ Fresh(t)
<1>1. PICK p \in Seq(Pushed \X Conn) : /\ tasks' = tasks \o p
                                       /\ \A i \in DOMAIN p : p[i][2] = c
  BY DEF PushedFor
<1>2. Pushed \subseteq Op /\ "Send" \notin Pushed /\ "Shutdown" \notin Pushed
  BY DEF Pushed, Op
<1>3. tasks \in Seq(Op \X Conn)
  BY DEF LifeInv, TypeOK
<1>4. p \in Seq(Op \X Conn)
  BY <1>2
<1>5. tasks' \in Seq(Op \X Conn) /\ ToSet(tasks') = ToSet(tasks) \cup ToSet(p)
  BY <1>1, <1>3, <1>4, JoinedSet
<1>6. ASSUME NEW t \in ToSet(p) PROVE Fresh(t)
  <2>1. PICK i \in DOMAIN p : t = p[i]
    BY <1>6 DEF ToSet
  <2>2. t \in Pushed \X Conn /\ t[2] = c
    BY <1>1, <2>1
  <2> QED
    BY <1>2, <2>2 DEF Fresh, Onward
<1> QED
  BY <1>5, <1>6

LEMMA TaskKept ==
    ASSUME LifeInv, Onward, NEW c \in Conn, NEW op, Task(op, c), program' = program,
           tasks' = tasks \/ PushedFor(c)
    PROVE  LoopPart'
<1>1. /\ Born(c)
      /\ pending \in Seq(Op \X Conn) /\ pending' \in Seq(Op \X Conn)
      /\ ToSet(pending) = {<<op, c>>} \cup ToSet(pending')
      /\ pc' \in {"monitor", "run"} /\ (pc' = "run" <=> pending' # <<>>)
      /\ actives' = actives /\ tickActive' = tickActive
      /\ \A d \in Conn : actives[d] = {}
  BY Taken
<1>2. tasks' \in Seq(Op \X Conn) /\ \A t \in ToSet(tasks') : t \in ToSet(tasks) \/ Fresh(t)
  BY <1>1, Pushes DEF LifeInv, TypeOK
<1>3. QueuedOK'
  BY <1>1, <1>2, QueuesKept DEF Queued
<1>4. PhaseOK'
  BY <1>1 DEF PhaseOK
<1> QED
  BY <1>1, <1>2, <1>3, <1>4, Parts DEF LoopPart

LEMMA AppendIsPush ==
    ASSUME LifeInv, NEW c \in Conn, NEW op \in Pushed, tasks' = Append(tasks, <<op, c>>)
    PROVE  PushedFor(c)
<1>1. tasks \in Seq(Op \X Conn)
  BY DEF LifeInv, TypeOK
<1>2. Append(tasks, <<op, c>>) = tasks \o <<<<op, c>>>>
  BY <1>1
<1> QED
  BY <1>2, PushesOne DEF PushedFor

Kind ==
    \/ Quiet /\ Calms
    \/ Quiet /\ \E w \in SUBSET Conn : Monitor(w)
    \/ \E h : Served(h)
    \/ \E c \in Conn : ReleaseInLoop(c) /\ ~Freed(c)
    \/ \E c \in Conn, fd \in Fd : NewConnection(c, fd)

LEMMA KindOnward == LifeInv /\ Kind => Onward
  BY QuietOnward, ServedOnward, ReleasedOnward, ArrivedOnward DEF Kind

LEMMA WorkerKinds == LifeInv /\ WorkerStep => Kind
<1> SUFFICES ASSUME LifeInv, WorkerStep PROVE Kind
  OBVIOUS
<1>0. BodyOK /\ fault \in Fault /\ \A c \in Conn : actives[c] = actives[c]
  BY Bodied DEF BodyOK
<1>a. ASSUME actives' = actives PROVE Calms
  BY <1>a DEF Calms
<1>b. {"dangling_event", "dangling_timer", "dangling_task"} \subseteq Fault
  BY DEF Fault
<1>1. ASSUME NEW w \in SUBSET {c \in Conn : Open(c)}, Monitor(w) PROVE Kind
  <2>1. Quiet
    BY <1>0, <1>1, Stays DEF Monitor, kernelVars, epollVars
  <2> QED
    BY <1>1, <2>1 DEF Kind
<1>2. ASSUME NEW c \in Conn, NEW all \in BOOLEAN, HandleEvents(c, all) PROVE Kind
  <2>1. CASE Freed(c)
    <3>1. Dangling("dangling_event") /\ actives' = [actives EXCEPT ![c] = {}]
      BY <1>2, <2>1 DEF HandleEvents
    <3>2. Calms
      BY <3>1 DEF Calms, LifeInv, TypeOK
    <3> QED
      BY <1>0, <1>b, <3>1, <3>2, Dangles DEF Kind
  <2>2. CASE ~Freed(c)
    BY <1>2, <2>2, ServesEvents DEF Kind
  <2> QED
    BY <2>1, <2>2
<1>3. CASE Tick
  <2>1. actives' = actives
    BY <1>3 DEF Tick
  <2>2. CASE Dangling("dangling_timer")
    BY <1>0, <1>a, <1>b, <2>1, <2>2, Dangles DEF Kind
  <2>3. CASE UNCHANGED <<kernelVars, epollVars, conn, fault>>
    BY <1>0, <1>a, <2>1, <2>3, Stays DEF Kind, kernelVars, epollVars
  <2> QED
    BY <1>3, <2>2, <2>3 DEF Tick
<1>4. CASE RunTasks
  BY <1>0, <1>a, <1>4, Stays DEF RunTasks, Kind, kernelVars, epollVars
<1>5. ASSUME NEW c \in Conn, NEW op, Task(op, c), Dangling("dangling_task") PROVE Kind
  BY <1>0, <1>a, <1>b, <1>5, Dangles DEF Task, Kind
<1>6. ASSUME NEW c \in Conn, EnableInactiveReleaseInLoop(c) PROVE Kind
  <2>1. Task("EnableInactiveRelease", c) /\ (Freed(c) => Dangling("dangling_task"))
    BY <1>6 DEF EnableInactiveReleaseInLoop
  <2>2. Calms
    BY <1>a, <2>1 DEF Task
  <2> QED
    BY <1>5, <1>6, <2>1, <2>2, Enables DEF Kind
<1>7. ASSUME NEW c \in Conn, CancelInactiveReleaseInLoop(c) PROVE Kind
  <2>1. Task("CancelInactiveRelease", c) /\ (Freed(c) => Dangling("dangling_task"))
    BY <1>7 DEF CancelInactiveReleaseInLoop
  <2>2. Calms
    BY <1>a, <2>1 DEF Task
  <2> QED
    BY <1>5, <1>7, <2>1, <2>2, Cancels DEF Kind
<1>8. ASSUME NEW c \in Conn, CalledInLoop(c) PROVE Kind
  <2>1. PICK op \in {"Send", "Shutdown", "SwitchProtocol"} :
           Task(op, c) /\ (Freed(c) => Dangling("dangling_task"))
    BY <1>8 DEF CalledInLoop
  <2>2. Calms
    BY <1>a, <2>1 DEF Task
  <2> QED
    BY <1>5, <1>8, <2>1, <2>2, ServesCalls DEF Kind
<1>9. ASSUME NEW c \in Conn, EstablishedInLoop(c) PROVE Kind
  <2>1. Task("Established", c) /\ (Freed(c) => Dangling("dangling_task"))
    BY <1>9 DEF EstablishedInLoop
  <2>2. Calms
    BY <1>a, <2>1 DEF Task
  <2> QED
    BY <1>5, <1>9, <2>1, <2>2, ServesEstablished DEF Kind
<1>10. ASSUME NEW c \in Conn, ReleaseInLoop(c) PROVE Kind
  <2>1. Task("Release", c) /\ (Freed(c) => Dangling("dangling_task"))
    BY <1>10 DEF ReleaseInLoop
  <2> QED
    BY <1>5, <1>10, <2>1 DEF Kind
<1>11. ASSUME NEW c \in Conn, NEW op, TimerTask(op, c) PROVE Kind
  BY <1>0, <1>a, <1>11, Stays DEF TimerTask, Task, Kind, kernelVars, epollVars
<1> QED
  BY <1>1, <1>2, <1>3, <1>4, <1>6, <1>7, <1>8, <1>9, <1>10, <1>11
     DEF WorkerStep, AddTimer, UpdateTimer, CancelTimer

LEMMA Kinds == LifeInv /\ [Next]_vars => Kind
<1> SUFFICES ASSUME LifeInv, [Next]_vars PROVE Kind
  OBVIOUS
<1>0. BodyOK /\ fault \in Fault
  BY Bodied DEF BodyOK
<1>1. CASE WorkerStep
  BY <1>1, WorkerKinds
<1>2. CASE BaseStep
  <2>1. CASE Established /\ ~Workers
    BY <2>1, ServesAccepted DEF Kind
  <2>2. CASE Established /\ Workers
    BY <1>0, <2>2, Stays DEF Established, Kind, Calms, kernelVars, epollVars
  <2>3. CASE InsertConnection \/ RemoveConnectionInLoop
    BY <1>0, <2>3, Stays DEF InsertConnection, RemoveConnectionInLoop, notBaseVars,
       Kind, Calms, kernelVars, epollVars
  <2> QED
    BY <1>2, <2>1, <2>2, <2>3 DEF BaseStep
<1>3. CASE \E c \in Conn, fd \in Fd : NewConnection(c, fd)
  BY <1>3 DEF Kind
<1>4. CASE UserStep
  BY <1>0, <1>4, Stays DEF UserStep, Hold, Drop, Call, notUserVars, Kind, Calms,
     kernelVars, epollVars
<1>5. CASE ClientStep
  <2>1. PICK c \in Conn : ClientSends(c) \/ ClientShutsDown(c) \/ ClientResets(c)
    BY <1>5 DEF ClientStep
  <2>2. UNCHANGED <<file, channels, registered, interest, actives, conn, fault>>
    BY <2>1 DEF ClientSends, ClientShutsDown, ClientResets, notClientVars, epollVars, loopVars
  <2>3. /\ peer' \in [Conn -> PeerState] /\ rx' \in [Conn -> BOOLEAN]
        /\ \A d \in Conn : peer'[d] = "away" <=> peer[d] = "away"
    BY <1>0, <2>1 DEF BodyOK, PeerState, ClientSends, ClientShutsDown, ClientResets
  <2>4. BodyOK'
    BY <1>0, <2>2, <2>3 DEF BodyOK
  <2> QED
    BY <2>2, <2>3, <2>4 DEF Quiet, Kind, Calms
<1>6. CASE Second
  BY <1>0, <1>6, Stays DEF Second, Kind, Calms, kernelVars, epollVars, loopVars
<1>7. CASE UNCHANGED vars
  BY <1>0, <1>7, Stays DEF vars, Kind, Calms, kernelVars, epollVars, loopVars
<1> QED
  BY <1>1, <1>2, <1>3, <1>4, <1>5, <1>6, <1>7 DEF Next

LEMMA WorkerStepKept == LifeInv /\ WorkerStep => LifeInv'
<1> SUFFICES ASSUME LifeInv, WorkerStep PROVE LifeInv'
  OBVIOUS
<1>0. Onward /\ TimerPart /\ BasePart /\ LoopPart
  BY WorkerKinds, KindOnward, Parts
<1>a. ASSUME UNCHANGED timerVars, LoopIsFree, UNCHANGED baseVars, LoopPart'
      PROVE  LifeInv'
  BY <1>0, <1>a, TimersKept, BaseKept, PartsNext
<1>b. ASSUME NEW c \in Conn, NEW op, Task(op, c), UNCHANGED timerVars, UNCHANGED baseVars,
             tasks' = tasks \/ PushedFor(c)
      PROVE  LifeInv'
  <2>1. LoopIsFree /\ program' = program
    BY <1>b DEF Task, baseVars, userVars
  <2> QED
    BY <1>0, <1>a, <1>b, <2>1, TaskKept
<1>c. ASSUME NEW where, Dangling(where) PROVE tasks' = tasks
  BY <1>c DEF Dangling
<1>1. ASSUME NEW w \in SUBSET {c \in Conn : Open(c)}, Monitor(w) PROVE LifeInv'
  <2>1. /\ pc = "monitor" /\ pc' = "handle" /\ tickActive' = (late > 0)
        /\ actives' = [c \in Conn |->
                         UNION {Reported(fd, w) : fd \in {d \in Fd : channels[d] = c}}]
        /\ UNCHANGED <<tasks, pending, connections, baseTasks, held, calls, program>>
        /\ UNCHANGED timerVars
        /\ LoopIsFree
        /\ UNCHANGED conn
    BY <1>1 DEF Monitor, userVars
  <2>2. \A fd \in Fd : Reported(fd, w) \subseteq Event
    BY DEF Reported, Ready, Event
  <2>3. actives' \in [Conn -> SUBSET Event]
    BY <2>1, <2>2
  <2>4. \A c \in Conn : actives'[c] # {} => conn[c].status # "CONNECTING"
    <3> SUFFICES ASSUME NEW c \in Conn, actives'[c] # {} PROVE conn[c].status # "CONNECTING"
      OBVIOUS
    <3>1. PICK fd \in Fd : channels[fd] = c
      BY <2>1
    <3> QED
      BY <3>1, NoneAssumption DEF LifeInv, MappedOK
  <2>5. QueuedOK'
    BY <1>0, <2>1, QueuesKept DEF Queued
  <2>6. PhaseOK'
    BY <1>0, <2>1 DEF LoopPart, PhaseOK
  <2>7. late \in Nat
    BY <1>0, TimeoutAssumption DEF TimerPart
  <2>8. tickActive' \in BOOLEAN
    BY <2>1, <2>7
  <2>9. LoopPart'
    BY <1>0, <2>1, <2>3, <2>4, <2>5, <2>6, <2>8 DEF LoopPart
  <2>10. /\ accepting' \in [step : {"idle", "ready", "establish", "insert"},
                            conn : Conn \cup {NoConn}]
         /\ AcceptOK'
    <3>1. CASE accepting' = accepting
      BY <1>0, <2>1, <3>1 DEF BasePart, AcceptOK, Workers, LoopIsFree, Onward, Born
    <3>2. CASE accepting' = [Idle EXCEPT !.step = "ready"]
      <4>1. accepting' = [step |-> "ready", conn |-> NoConn]
        BY <3>2 DEF Idle
      <4> QED
        BY <4>1 DEF AcceptOK
    <3> QED
      BY <1>1, <3>1, <3>2 DEF Monitor
  <2>11. BasePart'
    BY <1>0, <2>1, <2>10 DEF BasePart, Onward
  <2> QED
    BY <1>0, <2>1, <2>9, <2>11, TimersKept, PartsNext
<1>2. ASSUME NEW c \in Conn, NEW all \in BOOLEAN, HandleEvents(c, all) PROVE LifeInv'
  <2>1. /\ pc = "handle" /\ actives[c] # {} /\ actives' = [actives EXCEPT ![c] = {}]
        /\ UNCHANGED <<timerVars, pc, tickActive, pending, baseVars>> /\ LoopIsFree
        /\ program' = program
    BY <1>2 DEF HandleEvents, baseVars, userVars
  <2>2. Born(c)
    BY <2>1 DEF LifeInv, ReachedOK, LifeOK
  <2>3. tasks' = tasks \/ PushedFor(c)
    BY <1>2, <1>c, ServesEvents, ServedPushes DEF HandleEvents
  <2>4. tasks' \in Seq(Op \X Conn) /\ \A t \in ToSet(tasks') : t \in ToSet(tasks) \/ Fresh(t)
    BY <1>0, <2>2, <2>3, Pushes DEF LoopPart
  <2>5. QueuedOK'
    BY <1>0, <2>1, <2>4, QueuesKept DEF Queued
  <2>6. LoopPart'
    BY <1>0, <2>1, <2>4, <2>5 DEF LoopPart, PhaseOK, Onward
  <2> QED
    BY <1>a, <2>1, <2>6
<1>3. CASE RunTasks
  <2>1. /\ pc = "handle" /\ LoopIsFree
        /\ \A c \in Conn : actives[c] = {}
        /\ pending' = tasks /\ tasks' = <<>>
        /\ pc' = IF tasks = <<>> THEN "monitor" ELSE "run"
        /\ accepting' = IF Workers THEN accepting ELSE Idle
        /\ UNCHANGED <<actives, tickActive, connections, baseTasks, held, calls, program, conn>>
        /\ UNCHANGED timerVars
    BY <1>3 DEF RunTasks, userVars
  <2>2. tasks' \in Seq(Op \X Conn) /\ pending' \in Seq(Op \X Conn) /\ ToSet(tasks') = {}
    BY <1>0, <2>1, EmptySet DEF LoopPart
  <2>3. QueuedOK'
    BY <1>0, <2>1, <2>2, QueuesKept DEF Queued
  <2>4. LoopPart'
    BY <1>0, <2>1, <2>2, <2>3 DEF LoopPart, PhaseOK
  <2>5. /\ accepting' \in [step : {"idle", "ready", "establish", "insert"},
                           conn : Conn \cup {NoConn}]
        /\ AcceptOK'
    BY <1>0, <2>1 DEF BasePart, AcceptOK, Workers, Idle, Onward, Born
  <2>6. BasePart'
    BY <1>0, <2>1, <2>5 DEF BasePart, Onward
  <2> QED
    BY <1>0, <2>1, <2>4, <2>6, TimersKept, PartsNext
<1>4. ASSUME NEW c \in Conn, EnableInactiveReleaseInLoop(c) PROVE LifeInv'
  <2>1. /\ Task("EnableInactiveRelease", c) /\ UNCHANGED timerVars /\ UNCHANGED baseVars
        /\ Freed(c) => Dangling("dangling_task")
    BY <1>4 DEF EnableInactiveReleaseInLoop
  <2> QED
    BY <1>4, <1>b, <1>c, <2>1, Enables
<1>5. ASSUME NEW c \in Conn, CancelInactiveReleaseInLoop(c) PROVE LifeInv'
  <2>1. /\ Task("CancelInactiveRelease", c) /\ UNCHANGED timerVars /\ UNCHANGED baseVars
        /\ Freed(c) => Dangling("dangling_task")
    BY <1>5 DEF CancelInactiveReleaseInLoop
  <2> QED
    BY <1>5, <1>b, <1>c, <2>1, Cancels
<1>6. ASSUME NEW c \in Conn, CalledInLoop(c) PROVE LifeInv'
  <2>1. PICK op \in {"Send", "Shutdown", "SwitchProtocol"} :
           /\ Task(op, c) /\ UNCHANGED timerVars /\ UNCHANGED baseVars
           /\ Freed(c) => Dangling("dangling_task")
    BY <1>6 DEF CalledInLoop
  <2>2. tasks' = tasks \/ PushedFor(c)
    BY <1>6, <1>c, <2>1, ServesCalls, ServedPushes
  <2> QED
    BY <1>b, <2>1, <2>2
<1>7. ASSUME NEW c \in Conn, EstablishedInLoop(c) PROVE LifeInv'
  <2>1. /\ Task("Established", c) /\ UNCHANGED timerVars /\ UNCHANGED baseVars
        /\ Freed(c) => Dangling("dangling_task")
    BY <1>7 DEF EstablishedInLoop
  <2>2. tasks' = tasks \/ PushedFor(c)
    BY <1>7, <1>c, <2>1, ServesEstablished, ServedPushes
  <2> QED
    BY <1>b, <2>1, <2>2
<1>8. ASSUME NEW c \in Conn, ReleaseInLoop(c) PROVE LifeInv'
  <2>1. Task("Release", c) /\ UNCHANGED timerVars
    BY <1>8 DEF ReleaseInLoop
  <2>2. CASE Freed(c)
    BY <1>8, <1>b, <1>c, <2>1, <2>2 DEF ReleaseInLoop
  <2>3. CASE ~Freed(c)
    <3>1. RemoveConnection(c) /\ (tasks' = tasks \/ tasks' = Append(tasks, <<"Cancel", c>>))
      BY <1>8, <2>3, Releases
    <3>2. "Cancel" \in Pushed
      BY DEF Pushed
    <3>3. tasks' = tasks \/ PushedFor(c)
      BY <3>1, <3>2, AppendIsPush
    <3>4. UNCHANGED <<accepting, held, calls, program>> /\ LoopIsFree
      BY <2>1, <3>1 DEF RemoveConnection, userVars, Task
    <3>5. connections' \in SUBSET Conn /\ baseTasks' \in Seq(Conn)
      BY <1>0, <3>1, AppendedSet DEF RemoveConnection, BasePart
    <3>6. AcceptOK'
      BY <1>0, <3>4 DEF BasePart, AcceptOK, Workers, LoopIsFree, Onward, Born
    <3>7. BasePart'
      BY <1>0, <3>4, <3>5, <3>6 DEF BasePart, Onward
    <3>8. LoopPart'
      BY <1>0, <2>1, <3>3, <3>4, TaskKept
    <3> QED
      BY <1>0, <2>1, <3>7, <3>8, TimersKept, PartsNext
  <2> QED
    BY <2>2, <2>3
<1>9. ASSUME NEW c \in Conn, AddTimer(c) \/ UpdateTimer(c) \/ CancelTimer(c) PROVE LifeInv'
  <2>1. PICK op \in {"Add", "Update", "Cancel"} : TimerTask(op, c)
    BY <1>9 DEF AddTimer, UpdateTimer, CancelTimer
  <2>2. /\ Task(op, c) /\ UNCHANGED baseVars /\ UNCHANGED conn /\ tasks' = tasks /\ late' = late
        /\ program' = program
        /\ LoopIsFree
    BY <2>1 DEF TimerTask, Task, baseVars, userVars
  <2>3. Born(c) /\ LoopPart'
    BY <1>0, <2>2, Taken, TaskKept
  <2>4. Timeout \in 0 .. Timeout
    BY TimeoutAssumption
  <2>5. left' \in [Conn -> 0 .. Timeout] /\ \A d \in Conn \ {c} : left'[d] = left[d]
    BY <1>0, <1>9, <2>4 DEF TimerPart, AddTimer, UpdateTimer, CancelTimer
  <2>6. valid' \in [Conn -> BOOLEAN]
    <3>1. PICK v \in BOOLEAN : v = (left[c] = 0 \/ valid[c])
      OBVIOUS
    <3>2. valid' = valid \/ valid' = [valid EXCEPT ![c] = v] \/ valid' = [valid EXCEPT ![c] = FALSE]
      BY <1>9, <3>1 DEF AddTimer, UpdateTimer, CancelTimer
    <3> QED
      BY <1>0, <3>2, Zenon DEF TimerPart
  <2>7. \A d \in Conn : left'[d] > 0 => d = c \/ left[d] > 0
    BY <2>5
  <2>8. TimersOK'
    <3>1. {d \in Conn : left'[d] > 0} \subseteq {d \in Conn : left[d] > 0} \cup {c}
      BY <2>7
    <3>2. IsFiniteSet({d \in Conn : left[d] > 0} \cup {c})
      BY <1>0, FS_AddElement DEF TimerPart, TimersOK
    <3> QED
      BY <3>1, <3>2, FS_Subset DEF TimersOK
  <2>9. \A d \in Conn : left'[d] > 0 => Born(d)'
    BY <1>0, <2>2, <2>3, <2>7 DEF TimerPart, Born
  <2>10. TimerPart'
    BY <1>0, <2>2, <2>5, <2>6, <2>8, <2>9 DEF TimerPart
  <2> QED
    BY <1>0, <2>2, <2>3, <2>10, BaseKept, PartsNext
<1>10. CASE Tick
  <2> DEFINE due    == {c \in Conn : left[c] > 0 /\ left[c] <= late}
             firing == {c \in due : valid[c]}
  <2>1. /\ LoopIsFree /\ pc = "handle" /\ tickActive' = FALSE /\ late' = 0
        /\ left' = [c \in Conn |-> IF c \in due \/ left[c] = 0 THEN 0 ELSE left[c] - late]
        /\ valid' = [c \in Conn |-> valid[c] /\ c \notin due]
        /\ UNCHANGED <<pc, actives, pending>> /\ UNCHANGED baseVars /\ program' = program
    BY <1>10 DEF Tick, baseVars, userVars
  <2>2. late \in 0 .. MaxLate /\ left \in [Conn -> 0 .. Timeout] /\ 0 \in 0 .. MaxLate
    BY <1>0, TimeoutAssumption DEF TimerPart
  <2>3. \A c \in Conn : left[c] \in 0 .. Timeout /\ (c \notin due /\ left[c] # 0 =>
                           left[c] - late \in 0 .. Timeout)
    BY <2>2, TimeoutAssumption
  <2>4. left' \in [Conn -> 0 .. Timeout] /\ \A c \in Conn : left'[c] > 0 => left[c] > 0
    BY <2>1, <2>2, <2>3, TimeoutAssumption
  <2>5. valid' \in [Conn -> BOOLEAN]
    BY <2>1, Zenon
  <2>6. TimersOK'
    <3>1. {c \in Conn : left'[c] > 0} \subseteq {c \in Conn : left[c] > 0}
      BY <2>4
    <3> QED
      BY <1>0, <3>1, FS_Subset DEF TimerPart, TimersOK
  <2>7. TimerPart'
    BY <1>0, <2>1, <2>2, <2>4, <2>5, <2>6 DEF TimerPart, Onward, Born
  <2>8. /\ tasks' \in Seq(Op \X Conn)
        /\ \A t \in ToSet(tasks') : t \in ToSet(tasks) \/ Fresh(t)
    <3>1. CASE Dangling("dangling_timer")
      BY <1>0, <1>c, <3>1 DEF LoopPart
    <3>2. CASE ~Dangling("dangling_timer")
      <4>1. PICK order \in SetToSeqs(firing) :
               tasks' = tasks \o [i \in DOMAIN order |-> <<"Release", order[i]>>]
        BY <1>10, <3>2 DEF Tick
      <4>2. PICK n \in Nat : order \in [1 .. n -> firing]
        <5>1. IsFiniteSet(firing)
          BY <1>0, FS_Subset DEF TimerPart, TimersOK
        <5>2. Cardinality(firing) \in Nat
          BY <5>1, FS_CardinalityType
        <5> QED
          BY <4>1, <5>2 DEF SetToSeqs
      <4> DEFINE p == [i \in DOMAIN order |-> <<"Release", order[i]>>]
      <4>3. "Release" \in Op /\ "Release" \notin {"Send", "Shutdown"} /\ firing \subseteq Conn
        BY DEF Op
      <4>4. p \in Seq(Op \X Conn) /\ \A i \in DOMAIN p : p[i] \in {"Release"} \X firing
        <5> HIDE DEF firing
        <5>1. DOMAIN order = 1 .. n /\ \A i \in 1 .. n : order[i] \in firing
          BY <4>2
        <5>2. p = [i \in 1 .. n |-> <<"Release", order[i]>>]
          BY <5>1
        <5>3. \A i \in 1 .. n : p[i] \in {"Release"} \X firing /\ p[i] \in Op \X Conn
          BY <4>3, <5>1, <5>2
        <5>4. p \in [1 .. n -> Op \X Conn]
          BY <5>2, <5>3
        <5> QED
          BY <5>2, <5>3, <5>4
      <4>a. tasks' = tasks \o p
        BY <4>1
      <4> HIDE DEF p
      <4>5. tasks' \in Seq(Op \X Conn) /\ ToSet(tasks') = ToSet(tasks) \cup ToSet(p)
        BY <1>0, <4>a, <4>4, JoinedSet DEF LoopPart
      <4>6. ASSUME NEW t \in ToSet(p) PROVE Fresh(t)
        <5>1. t \in {"Release"} \X firing
          BY <4>4, <4>6 DEF ToSet
        <5>2. t[1] = "Release" /\ t[2] \in Conn /\ Born(t[2]) /\ t \in Op \X Conn
          BY <1>0, <4>3, <5>1 DEF TimerPart
        <5> QED
          BY <1>0, <5>2 DEF Fresh, Onward
      <4> QED
        BY <4>5, <4>6
    <3> QED
      BY <3>1, <3>2
  <2>9. QueuedOK'
    BY <1>0, <2>1, <2>8, QueuesKept DEF Queued
  <2>10. LoopPart'
    BY <1>0, <2>1, <2>8, <2>9 DEF LoopPart, PhaseOK, Onward
  <2> QED
    BY <1>0, <2>1, <2>7, <2>10, BaseKept, PartsNext
<1> QED
  BY <1>1, <1>2, <1>3, <1>4, <1>5, <1>6, <1>7, <1>8, <1>9, <1>10 DEF WorkerStep

LEMMA NewConnectionKept ==
    ASSUME LifeInv, NEW c \in Conn, NEW fd \in Fd, NewConnection(c, fd)
    PROVE  LifeInv'
<1>0. /\ Onward /\ TimerPart /\ BasePart /\ LoopPart
      /\ conn'[c].fd # NoFd /\ conn'[c].status = "CONNECTING"
  BY ArrivedOnward, Parts
<1>1. /\ accepting' = [step |-> "establish", conn |-> c]
      /\ tasks' = tasks \/ \E op \in {"EnableInactiveRelease", "Add"} :
                              tasks' = Append(tasks, <<op, c>>)
      /\ UNCHANGED <<connections, baseTasks, held, calls, program>>
      /\ UNCHANGED <<pc, actives, tickActive, pending>>
      /\ UNCHANGED timerVars
  BY DEF NewConnection, notBaseVars, userVars
<1>2. /\ tasks' \in Seq(Op \X Conn)
      /\ \A t \in ToSet(tasks') : t \in ToSet(tasks) \/ Fresh(t)
  <2>1. CASE tasks' = tasks
    BY <1>0, <2>1 DEF LoopPart
  <2>2. CASE tasks' # tasks
    <3>1. PICK op \in {"EnableInactiveRelease", "Add"} : tasks' = Append(tasks, <<op, c>>)
      BY <1>1, <2>2
    <3>2. <<op, c>> \in Op \X Conn
      BY DEF Op
    <3>3. Fresh(<<op, c>>)
      BY <1>0, <3>2 DEF Fresh
    <3>4. /\ Append(tasks, <<op, c>>) \in Seq(Op \X Conn)
          /\ ToSet(Append(tasks, <<op, c>>)) = ToSet(tasks) \cup {<<op, c>>}
      <4>1. tasks \in Seq(Op \X Conn)
        BY <1>0 DEF LoopPart
      <4> QED
        BY <3>2, <4>1, AppendedSet
    <3> QED
      BY <3>1, <3>3, <3>4
  <2> QED
    BY <2>1, <2>2
<1>3. QueuedOK'
  BY <1>0, <1>1, <1>2, QueuesKept DEF Queued
<1>4. LoopPart'
  BY <1>0, <1>1, <1>2, <1>3 DEF LoopPart, PhaseOK, Onward
<1>5. AcceptOK'
  BY <1>0, <1>1 DEF AcceptOK, Born
<1>6. BasePart'
  BY <1>0, <1>1, <1>5 DEF BasePart, Onward
<1> QED
  BY <1>0, <1>1, <1>4, <1>6, TimersKept, PartsNext

LEMMA BaseStepKept == LifeInv /\ BaseStep => LifeInv'
<1> SUFFICES ASSUME LifeInv, BaseStep PROVE LifeInv'
  OBVIOUS
<1>0. Onward /\ TimerPart /\ BasePart /\ LoopPart
  BY Kinds, KindOnward, Parts DEF Next
<1>1. CASE Established
  <2>1. /\ accepting.step = "establish" /\ accepting' = [accepting EXCEPT !.step = "insert"]
        /\ UNCHANGED <<connections, baseTasks, held, calls, program>>
        /\ UNCHANGED <<pc, tickActive, pending, actives>> /\ UNCHANGED timerVars
    BY <1>1 DEF Established, userVars
  <2> DEFINE c == accepting.conn
  <2>2. c \in Conn /\ Born(c)
    BY <1>0, <2>1 DEF BasePart, AcceptOK
  <2>3. /\ tasks' \in Seq(Op \X Conn)
        /\ \A t \in ToSet(tasks') : t \in ToSet(tasks) \/ Fresh(t)
    <3>1. CASE Workers
      <4>1. tasks' = Append(tasks, <<"Established", c>>)
        BY <1>1, <3>1 DEF Established
      <4> HIDE DEF c
      <4>2. <<"Established", c>> \in Op \X Conn
        BY <2>2 DEF Op
      <4>3. Fresh(<<"Established", c>>)
        BY <1>0, <2>2, <4>2 DEF Fresh, Onward
      <4>4. /\ Append(tasks, <<"Established", c>>) \in Seq(Op \X Conn)
            /\ ToSet(Append(tasks, <<"Established", c>>)) =
                  ToSet(tasks) \cup {<<"Established", c>>}
        BY <1>0, <4>2, AppendedSet DEF LoopPart
      <4> QED
        BY <4>1, <4>3, <4>4
    <3>2. CASE ~Workers
      <4>1. PushedFor(c)
        BY <1>1, <3>2, ServesAccepted, ServedPushes
      <4> HIDE DEF c
      <4> QED
        BY <1>0, <2>2, <4>1, Pushes
    <3> QED
      BY <3>1, <3>2
  <2>4. QueuedOK'
    BY <1>0, <2>1, <2>3, QueuesKept DEF Queued
  <2>5. LoopPart'
    BY <1>0, <2>1, <2>3, <2>4 DEF LoopPart, PhaseOK, Onward
  <2>6. /\ accepting' \in [step : {"idle", "ready", "establish", "insert"},
                           conn : Conn \cup {NoConn}]
        /\ accepting'.step = "insert" /\ accepting'.conn = c
    BY <1>0, <2>1 DEF BasePart
  <2>7. AcceptOK'
    BY <1>0, <2>2, <2>6 DEF AcceptOK, Onward, Born
  <2>8. BasePart'
    BY <1>0, <2>1, <2>6, <2>7 DEF BasePart, Onward
  <2> QED
    BY <1>0, <2>1, <2>5, <2>8, TimersKept, PartsNext
<1>2. CASE InsertConnection \/ RemoveConnectionInLoop
  <2>1. /\ UNCHANGED <<held, calls, program, tasks>> /\ UNCHANGED timerVars
        /\ UNCHANGED <<pc, actives, tickActive, pending, conn>>
    BY <1>2 DEF InsertConnection, RemoveConnectionInLoop, notBaseVars, userVars
  <2>2. QueuedOK'
    BY <1>0, <2>1, QueuesKept DEF Queued
  <2>3. LoopPart'
    BY <1>0, <2>1, <2>2 DEF LoopPart, PhaseOK
  <2>4. CASE InsertConnection
    <3>1. /\ accepting.step = "insert" /\ accepting' = Idle /\ baseTasks' = baseTasks
          /\ connections' = connections \cup {accepting.conn}
      BY <2>4 DEF InsertConnection
    <3>2. accepting.conn \in Conn
      BY <1>0, <3>1 DEF BasePart, AcceptOK
    <3>3. BasePart'
      BY <1>0, <2>1, <3>1, <3>2 DEF BasePart, AcceptOK, Idle
    <3> QED
      BY <1>0, <2>1, <2>3, <3>3, TimersKept, PartsNext
  <2>5. CASE RemoveConnectionInLoop
    <3>1. /\ accepting' = accepting /\ accepting.step = "idle" /\ baseTasks # <<>>
          /\ connections' = connections \ {Head(baseTasks)} /\ baseTasks' = Tail(baseTasks)
      BY <2>5 DEF RemoveConnectionInLoop
    <3>2. baseTasks' \in Seq(Conn)
      BY <1>0, <3>1, TailSet DEF BasePart
    <3>3. AcceptOK'
      BY <1>0, <2>1, <3>1 DEF BasePart, AcceptOK
    <3>4. BasePart'
      BY <1>0, <2>1, <3>1, <3>2, <3>3 DEF BasePart
    <3> QED
      BY <1>0, <2>1, <2>3, <3>4, TimersKept, PartsNext
  <2> QED
    BY <1>2, <2>4, <2>5
<1> QED
  BY <1>1, <1>2 DEF BaseStep

LEMMA LifeStep == LifeInv /\ [Next]_vars => LifeInv'
<1> SUFFICES ASSUME LifeInv, [Next]_vars PROVE LifeInv'
  OBVIOUS
<1>0. Onward /\ TimerPart /\ BasePart /\ LoopPart
  BY Kinds, KindOnward, Parts
<1>1. CASE WorkerStep
  BY <1>1, WorkerStepKept
<1>2. CASE BaseStep
  BY <1>2, BaseStepKept
<1>3. CASE \E c \in Conn, fd \in Fd : NewConnection(c, fd)
  BY <1>3, NewConnectionKept
<1>4. CASE UserStep
  <2>1. PICK c \in Conn : Hold(c) \/ Drop(c) \/ \E op \in Calls : Call(c, op)
    BY <1>4 DEF UserStep
  <2>2. /\ UNCHANGED <<program, accepting, connections, baseTasks, conn>>
        /\ UNCHANGED <<pc, actives, tickActive, pending>> /\ UNCHANGED timerVars
    BY <2>1 DEF Hold, Drop, Call, notUserVars
  <2>3. /\ tasks' \in Seq(Op \X Conn)
        /\ \A t \in ToSet(tasks') : t \in ToSet(tasks) \/ Fresh(t)
    <3>1. CASE Hold(c) \/ Drop(c)
      BY <1>0, <3>1 DEF Hold, Drop, LoopPart
    <3>2. ASSUME NEW op \in Calls, Call(c, op) PROVE <2>3!2 /\ <2>3!1
      <4>1. c \in held /\ tasks' = Append(tasks, <<op, c>>)
        BY <3>2 DEF Call
      <4>2. op \in Op
        BY <1>0, ProgramAssumption DEF BasePart, Program, Calls, Op
      <4>3. conn[c].status # "CONNECTING" /\ Born(c)
        BY <4>1 DEF LifeInv, ReachedOK, LifeOK
      <4>4. Fresh(<<op, c>>)
        BY <1>0, <4>2, <4>3 DEF Fresh, Onward, ShutByOthers
      <4> QED
        BY <1>0, <4>1, <4>2, <4>4, AppendedSet DEF LoopPart
    <3> QED
      BY <2>1, <3>1, <3>2
  <2>4. QueuedOK'
    BY <1>0, <2>2, <2>3, QueuesKept DEF Queued
  <2>5. LoopPart'
    BY <1>0, <2>2, <2>3, <2>4 DEF LoopPart, PhaseOK, Onward
  <2>6. /\ held' \in SUBSET Conn
        /\ \A d \in held' : conn[d].status # "CONNECTING"
        /\ calls' \in 0 .. MaxCalls
    <3>1. CASE Hold(c)
      BY <1>0, <3>1 DEF BasePart, Hold
    <3>2. CASE Drop(c)
      BY <1>0, <3>2 DEF BasePart, Drop
    <3>3. CASE \E op \in Calls : Call(c, op)
      BY <1>0, <3>3, ProgramAssumption DEF BasePart, Call
    <3> QED
      BY <2>1, <3>1, <3>2, <3>3
  <2>7. AcceptOK'
    BY <1>0, <2>2 DEF BasePart, AcceptOK, Workers, Born
  <2>8. BasePart'
    BY <1>0, <2>2, <2>6, <2>7 DEF BasePart
  <2> QED
    BY <1>0, <2>2, <2>5, <2>8, TimersKept, PartsNext
<1>5. CASE ClientStep \/ Second \/ UNCHANGED vars
  <2>1. UNCHANGED loopVars /\ UNCHANGED baseVars /\ UNCHANGED conn
    BY <1>5 DEF ClientStep, ClientSends, ClientShutsDown, ClientResets, notClientVars,
       Second, vars
  <2>2. program' = program /\ UNCHANGED <<tasks, pending>>
    BY <2>1 DEF loopVars, baseVars, userVars
  <2>3. QueuedOK'
    BY <1>0, <2>1, <2>2, QueuesKept DEF Queued
  <2>4. LoopPart'
    BY <1>0, <2>1, <2>3 DEF LoopPart, PhaseOK, loopVars
  <2>5. AcceptOK'
    BY <1>0, <2>1 DEF BasePart, AcceptOK, Workers, baseVars, userVars, Born
  <2>6. BasePart'
    BY <1>0, <2>1, <2>5 DEF BasePart, baseVars, userVars
  <2>7. TimerPart'
    <3>1. CASE ClientStep \/ UNCHANGED vars
      <4>1. UNCHANGED timerVars
        BY <3>1 DEF ClientStep, ClientSends, ClientShutsDown, ClientResets, notClientVars, vars
      <4> QED
        BY <1>0, <4>1, TimersKept
    <3>2. CASE Second
      <4>1. late < MaxLate /\ late' = late + 1 /\ UNCHANGED <<left, valid>>
        BY <3>2 DEF Second
      <4>2. late' \in 0 .. MaxLate
        BY <1>0, <4>1, TimeoutAssumption DEF TimerPart
      <4>3. TimersOK'
        BY <1>0, <4>1 DEF TimerPart, TimersOK
      <4> QED
        BY <1>0, <2>1, <4>1, <4>2, <4>3 DEF TimerPart, Born
    <3> QED
      BY <1>5, <3>1, <3>2
  <2> QED
    BY <1>0, <2>4, <2>6, <2>7, PartsNext
<1> QED
  BY <1>1, <1>2, <1>3, <1>4, <1>5 DEF Next

LEMMA LifeInit == Init => LifeInv
<1> SUFFICES ASSUME Init PROVE LifeInv
  OBVIOUS
<1>1. ToSet(tasks) = {} /\ ToSet(pending) = {}
  BY EmptySet DEF Init
<1>2. \A c \in Conn :
         /\ conn[c] \in Object
         /\ conn[c].status = "CONNECTING" /\ conn[c].fd = NoFd /\ conn[c].events = {}
         /\ conn[c].out = FALSE
  BY DEF Init, Object, Status
<1>3. conn \in [Conn -> Object]
  BY <1>2 DEF Init
<1>4. BodyOK
  BY <1>3 DEF Init, BodyOK, PeerState, Fault
<1>5. LifeOK
  BY <1>2 DEF LifeOK, Born
<1>6. MappedOK
  BY DEF Init, MappedOK
<1>7. TimerPart
  <2>1. {c \in Conn : left[c] > 0} = {}
    BY DEF Init
  <2>2. TimersOK
    BY <2>1, FS_EmptySet DEF TimersOK
  <2> QED
    BY <2>1, <2>2, TimeoutAssumption DEF Init, TimerPart
<1>8. BasePart
  BY ProgramAssumption DEF Init, BasePart, AcceptOK, Idle
<1>9. LoopPart
  <2>1. /\ pc = "monitor" /\ actives = [c \in Conn |-> {}] /\ tickActive = FALSE
        /\ tasks = <<>> /\ pending = <<>>
    BY DEF Init
  <2>2. <<>> \in Seq(Op \X Conn) /\ actives \in [Conn -> SUBSET Event]
    BY <2>1
  <2>3. QueuedOK
    BY <1>1 DEF QueuedOK, Queued
  <2>4. PhaseOK
    BY <2>1 DEF PhaseOK
  <2> QED
    BY <2>1, <2>2, <2>3, <2>4 DEF LoopPart
<1> QED
  BY <1>4, <1>5, <1>6, <1>7, <1>8, <1>9, Parts

(* The type invariant: a handler only stores what fits, and no task or     *)
(* timer speaks of a connection that was not accepted.                     *)
THEOREM TypeCorrect == Safety => []TypeOK
<1>1. LifeInv => TypeOK
  BY DEF LifeInv
<1> QED
  BY <1>1, LifeInit, LifeStep, PTL DEF Safety

-----------------------------------------------------------------------------
(* The tables, step by step. *)

LEMMA ProgramKept == [Next]_vars => program' = program
  BY DEF Next, vars, WorkerStep, BaseStep, UserStep, ClientStep, Monitor, HandleEvents, Tick,
     RunTasks, EnableInactiveReleaseInLoop, CancelInactiveReleaseInLoop, CalledInLoop,
     EstablishedInLoop, ReleaseInLoop, RemoveConnection, AddTimer, UpdateTimer, CancelTimer,
     TimerTask, Established, InsertConnection, RemoveConnectionInLoop, NewConnection, Hold,
     Drop, Call, ClientSends, ClientShutsDown, ClientResets, Second,
     baseVars, userVars, notBaseVars, notUserVars, notClientVars

(* In the programs in question, what a handler that served h.c leaves.     *)
LEMMA ServedSound ==
    ASSUME LifeInv, FoundInv, ~ShutByOthers, NEW h, Served(h)
    PROVE  /\ h \in HandlerState /\ h.c \in Conn /\ Sound(h)
           /\ h.k.fd = conn[h.c].fd /\ conn[h.c].fd \in Fd
           /\ h.k.status \in Up /\ conn[h.c].status # "DISCONNECTED"
           /\ h.k.releases = conn[h.c].releases
           /\ conn'[h.c] = h.k /\ peer'[h.c] = h.peer
           /\ \A d \in Conn \ {h.c} : conn'[d] = conn[d] /\ peer'[d] = peer[d]
           /\ channels' = h.channels /\ registered' = h.registered /\ interest' = h.interest
           /\ file' = file
<1>1. Runs(h) /\ h \in HandlerState /\ h.c \in Conn /\ Sound(h) /\ BodyOK /\ End(h)
  BY Bodied DEF Served, Runs, HandlerState
<1>2. h.k.fd = conn[h.c].fd /\ h.k.fd \in Fd /\ h.k.releases = conn[h.c].releases
  BY <1>1 DEF Runs
<1>3. h.k.status \in Up /\ file[h.k.fd] = h.c
  BY <1>1 DEF Sound, Placed
<1>4. conn[h.c].status # "DISCONNECTED"
  BY <1>1, <1>2, <1>3 DEF FoundInv, OwnerOK
<1> QED
  BY <1>1, <1>2, <1>3, <1>4, Ended

LEMMA QuietFound ==
    ASSUME LifeInv, FoundInv, ~ShutByOthers, Quiet
    PROVE  (OwnerOK /\ TablesOK /\ MaskOK /\ ReleasedOK)'
<1>1. BodyOK
  BY Bodied
<1>2. OwnerOK'
  BY DEF Quiet, FoundInv, OwnerOK
<1>3. TablesOK'
  BY <1>1 DEF Quiet, FoundInv, TablesOK, BodyOK
<1>4. MaskOK'
  BY DEF Quiet, FoundInv, MaskOK
<1>5. ReleasedOK'
  BY DEF Quiet, FoundInv, ReleasedOK
<1> QED
  BY <1>2, <1>3, <1>4, <1>5

LEMMA MonitorFound ==
    ASSUME LifeInv, FoundInv, ~ShutByOthers, NEW w, Monitor(w)
    PROVE  EventsOK'
<1>1. /\ actives' = [c \in Conn |->
                       UNION {Reported(fd, w) : fd \in {d \in Fd : channels[d] = c}}]
      /\ conn' = conn
  BY DEF Monitor
<1> SUFFICES ASSUME NEW c \in Conn, actives'[c] # {}
             PROVE  /\ conn[c].status \in Up
                    /\ "OUT" \in actives'[c] => "OUT" \in conn[c].events
  BY <1>1 DEF EventsOK
<1>2. \A fd \in Fd : channels[fd] = c =>
         /\ conn[c].status \in Up /\ interest[fd] = conn[c].events
         /\ "OUT" \in Reported(fd, w) => "OUT" \in interest[fd]
  BY NoneAssumption DEF FoundInv, TablesOK, Reported
<1>3. PICK fd \in Fd : channels[fd] = c
  BY <1>1
<1> QED
  BY <1>1, <1>2, <1>3

LEMMA ServedFound ==
    ASSUME LifeInv, FoundInv, ~ShutByOthers, NEW h, Served(h)
    PROVE  (OwnerOK /\ TablesOK /\ MaskOK /\ EventsOK /\ ReleasedOK)'
<1>1. /\ h.c \in Conn /\ Sound(h)
      /\ h.k.fd = conn[h.c].fd /\ conn[h.c].fd \in Fd
      /\ h.k.status \in Up /\ conn[h.c].status # "DISCONNECTED"
      /\ h.k.releases = conn[h.c].releases
      /\ conn'[h.c] = h.k
      /\ \A d \in Conn \ {h.c} : conn'[d] = conn[d]
      /\ channels' = h.channels /\ registered' = h.registered /\ interest' = h.interest
      /\ file' = file
  BY ServedSound
<1>2. BodyOK /\ h.c # NoConn
  BY <1>1, Bodied, NoneAssumption
<1>3. OwnerOK'
  BY <1>1 DEF FoundInv, OwnerOK, Up
<1>4. TablesOK'
  <2> SUFFICES ASSUME NEW fd \in Fd
               PROVE  /\ channels'[fd] = NoConn => fd \notin registered'
                      /\ channels'[fd] # NoConn => /\ conn'[channels'[fd]].fd = fd
                                                  /\ conn'[channels'[fd]].status \in Up
                                                  /\ fd \in registered'
                                                  /\ interest'[fd] = conn'[channels'[fd]].events
    BY DEF TablesOK
  <2>1. CASE fd = h.k.fd
    BY <1>1, <1>2, <2>1 DEF Sound, Placed, Synced
  <2>2. CASE fd # h.k.fd
    <3>1. channels'[fd] = channels[fd] /\ interest'[fd] = interest[fd]
          /\ (fd \in registered' <=> fd \in registered)
      BY <1>1, <2>2 DEF Sound, Placed
    <3>2. CASE channels[fd] = NoConn
      BY <3>1, <3>2 DEF FoundInv, TablesOK
    <3>3. CASE channels[fd] # NoConn
      <4>1. channels[fd] \in Conn \ {h.c}
        BY <1>1, <1>2, <2>2, <3>3 DEF FoundInv, TablesOK, BodyOK
      <4> QED
        BY <1>1, <3>1, <3>3, <4>1 DEF FoundInv, TablesOK
    <3> QED
      BY <3>2, <3>3
  <2> QED
    BY <2>1, <2>2
<1>5. MaskOK'
  BY <1>1 DEF FoundInv, MaskOK, Sound, Placed, Watched
<1>6. EventsOK'
  BY <1>1 DEF FoundInv, EventsOK, Served
<1>7. ReleasedOK'
  BY <1>1 DEF FoundInv, ReleasedOK, Up
<1> QED
  BY <1>3, <1>4, <1>5, <1>6, <1>7

LEMMA ReleasedFound ==
    ASSUME LifeInv, FoundInv, ~ShutByOthers, NEW c \in Conn, ReleaseInLoop(c), ~Freed(c)
    PROVE  (OwnerOK /\ TablesOK /\ MaskOK /\ EventsOK /\ ReleasedOK)'
<1> DEFINE fd == conn[c].fd
<1>0. BodyOK
  BY Bodied
<1>1. /\ Task("Release", c) /\ fd \in Fd
      /\ \A d \in Conn \ {c} : conn'[d] = conn[d]
      /\ \A x \in Fd : file'[x] = IF file[x] = c THEN NoConn ELSE file[x]
      /\ channels'[fd] = NoConn
      /\ channels[fd] # NoConn \/ file[fd] = c => fd \notin registered'
      /\ ~(channels[fd] # NoConn \/ file[fd] = c) => registered' = registered
      /\ \A x \in Fd \ {fd} : /\ channels'[x] = channels[x] /\ interest'[x] = interest[x]
                              /\ x \in registered' <=> x \in registered
  BY Releases
<1>2. /\ conn'[c].status = "DISCONNECTED" /\ conn'[c].fd = fd
      /\ conn[c].releases \in Nat /\ conn'[c].releases = conn[c].releases + 1
  BY Releases
<1>3. c # NoConn
  BY NoneAssumption
<1> HIDE DEF fd
<1>4. OwnerOK'
  <2> SUFFICES ASSUME NEW d \in Conn, NEW x \in Fd
               PROVE  file'[x] = d <=> conn'[d].fd = x /\ conn'[d].status # "DISCONNECTED"
    BY DEF OwnerOK
  <2>1. file[x] = d <=> conn[d].fd = x /\ conn[d].status # "DISCONNECTED"
    BY DEF FoundInv, OwnerOK
  <2>2. file'[x] = IF file[x] = c THEN NoConn ELSE file[x]
    BY <1>1
  <2>3. d # NoConn
    BY NoneAssumption
  <2>4. CASE d = c
    BY <1>2, <2>2, <2>3, <2>4
  <2>5. CASE d # c
    <3>1. conn'[d] = conn[d]
      BY <1>1, <2>5
    <3> QED
      BY <2>1, <2>2, <2>3, <2>5, <3>1
  <2> QED
    BY <2>4, <2>5
<1>5. TablesOK'
  <2> SUFFICES ASSUME NEW x \in Fd
               PROVE  /\ channels'[x] = NoConn => x \notin registered'
                      /\ channels'[x] # NoConn => /\ conn'[channels'[x]].fd = x
                                                 /\ conn'[channels'[x]].status \in Up
                                                 /\ x \in registered'
                                                 /\ interest'[x] = conn'[channels'[x]].events
    BY DEF TablesOK
  <2>1. CASE x = fd
    BY <1>1, <2>1 DEF FoundInv, TablesOK
  <2>2. CASE x # fd /\ channels[x] = NoConn
    BY <1>1, <2>2 DEF FoundInv, TablesOK
  <2>3. CASE x # fd /\ channels[x] # NoConn
    <3>1. channels[x] \in Conn \ {c}
      BY <1>0, <1>1, <2>3 DEF FoundInv, TablesOK, BodyOK, fd
    <3> QED
      BY <1>1, <2>3, <3>1 DEF FoundInv, TablesOK
  <2> QED
    BY <2>1, <2>2, <2>3
<1>6. MaskOK'
  BY <1>1, <1>2 DEF FoundInv, MaskOK, Up
<1>7. EventsOK'
  <2>1. actives' = actives /\ \A d \in Conn : actives[d] = {}
    BY <1>1, Taken
  <2> QED
    BY <2>1 DEF EventsOK
<1>8. ReleasedOK'
  <2> SUFFICES ASSUME NEW d \in Conn
               PROVE  conn'[d].status = "DISCONNECTED" <=> conn'[d].releases > 0
    BY DEF ReleasedOK
  <2>1. CASE d = c
    BY <1>2, <2>1
  <2>2. CASE d # c
    <3>1. conn'[d] = conn[d]
      BY <1>1, <2>2
    <3> QED
      BY <3>1 DEF FoundInv, ReleasedOK
  <2> QED
    BY <2>1, <2>2
<1> QED
  BY <1>4, <1>5, <1>6, <1>7, <1>8

LEMMA ArrivedFound ==
    ASSUME LifeInv, FoundInv, ~ShutByOthers, NEW c \in Conn, NEW fd \in Fd, NewConnection(c, fd)
    PROVE  (OwnerOK /\ TablesOK /\ MaskOK /\ EventsOK /\ ReleasedOK)'
<1>1. /\ BodyOK
      /\ conn[c].status = "CONNECTING" /\ ~Born(c)
      /\ conn'[c].fd = fd /\ conn'[c].status = "CONNECTING"
      /\ conn'[c].releases = conn[c].releases
      /\ \A d \in Conn \ {c} : conn'[d] = conn[d]
      /\ file[fd] = NoConn /\ file'[fd] = c
      /\ \A d \in Fd \ {fd} : file'[d] = file[d]
      /\ UNCHANGED epollVars
  BY Bodied, Arrives
<1>2. UNCHANGED <<channels, registered, interest>> /\ actives' = actives
  BY <1>1 DEF epollVars, NewConnection, notBaseVars
<1>3. OwnerOK'
  BY <1>1, NoneAssumption DEF FoundInv, OwnerOK, Born
<1>4. TablesOK'
  <2>1. \A x \in Fd : channels[x] # NoConn => channels[x] \in Conn \ {c}
    BY <1>1 DEF FoundInv, TablesOK, Up, BodyOK
  <2> QED
    BY <1>1, <1>2, <2>1 DEF FoundInv, TablesOK
<1>5. MaskOK'
  BY <1>1 DEF FoundInv, MaskOK, Up
<1>6. EventsOK'
  BY <1>1, <1>2 DEF FoundInv, EventsOK, Up
<1>7. ReleasedOK'
  BY <1>1 DEF FoundInv, ReleasedOK
<1> QED
  BY <1>3, <1>4, <1>5, <1>6, <1>7

LEMMA FoundStep == LifeInv /\ FoundInv /\ [Next]_vars => FoundInv'
<1> SUFFICES ASSUME LifeInv, FoundInv, [Next]_vars PROVE FoundInv'
  OBVIOUS
<1>1. ShutByOthers' = ShutByOthers
  BY ProgramKept DEF ShutByOthers, Calls
<1> SUFFICES ASSUME ~ShutByOthers
             PROVE  (OwnerOK /\ TablesOK /\ MaskOK /\ EventsOK /\ ReleasedOK)'
  BY <1>1 DEF FoundInv
<1>2. Kind
  BY Kinds
<1>3. CASE Quiet /\ Calms
  <2>1. EventsOK'
    BY <1>3 DEF FoundInv, EventsOK, Quiet, Calms
  <2> QED
    BY <1>3, <2>1, QuietFound
<1>4. CASE Quiet /\ \E w \in SUBSET Conn : Monitor(w)
  BY <1>4, QuietFound, MonitorFound
<1> QED
  BY <1>2, <1>3, <1>4, ServedFound, ReleasedFound, ArrivedFound DEF Kind

LEMMA FoundInit == Init => FoundInv
<1> SUFFICES ASSUME Init PROVE OwnerOK /\ TablesOK /\ MaskOK /\ EventsOK /\ ReleasedOK
  BY DEF FoundInv
<1>1. OwnerOK
  BY NoneAssumption DEF Init, OwnerOK
<1>2. TablesOK
  BY DEF Init, TablesOK
<1>3. MaskOK /\ EventsOK
  BY DEF Init, MaskOK, EventsOK, Up
<1>4. ReleasedOK
  BY DEF Init, ReleasedOK
<1> QED
  BY <1>1, <1>2, <1>3, <1>4

-----------------------------------------------------------------------------
(* Who keeps a connection, step by step. *)

SameKeepers ==
    /\ connections' = connections /\ baseTasks' = baseTasks
    /\ accepting'.conn = accepting.conn

LEMMA Keepers ==
    ASSUME LifeInv, [Next]_vars
    PROVE  \/ SameKeepers /\ (Quiet \/ \E h : Served(h))
           \/ Quiet /\ (InsertConnection \/ RemoveConnectionInLoop)
           \/ \E c \in Conn : ReleaseInLoop(c) /\ ~Freed(c)
           \/ \E c \in Conn, fd \in Fd : NewConnection(c, fd)
<1>1. Kind
  BY Kinds
<1>a. /\ accepting \in [step : {"idle", "ready", "establish", "insert"},
                        conn : Conn \cup {NoConn}]
      /\ AcceptOK
  BY DEF LifeInv, TypeOK
<1>2. CASE InsertConnection \/ RemoveConnectionInLoop
  <2>1. BodyOK /\ fault \in Fault
    BY Bodied DEF BodyOK
  <2>2. Quiet
    BY <1>2, <2>1, Stays DEF InsertConnection, RemoveConnectionInLoop, notBaseVars,
       kernelVars, epollVars
  <2> QED
    BY <1>2, <2>2
<1>3. CASE /\ ~(InsertConnection \/ RemoveConnectionInLoop)
           /\ ~(\E c \in Conn : ReleaseInLoop(c) /\ ~Freed(c))
           /\ ~(\E c \in Conn, fd \in Fd : NewConnection(c, fd))
  <2>1. SameKeepers
    <3>1. CASE \E w \in SUBSET {c \in Conn : Open(c)} : Monitor(w)
      <4>1. PICK w \in SUBSET {c \in Conn : Open(c)} : Monitor(w)
        BY <3>1
      <4>2. CASE accepting' = accepting
        BY <4>1, <4>2 DEF Monitor, SameKeepers
      <4>3. CASE accepting' # accepting
        <5>1. ~Workers /\ accepting' = [Idle EXCEPT !.step = "ready"] /\ LoopIsFree
          BY <4>1, <4>3 DEF Monitor
        <5>2. accepting'.conn = NoConn /\ accepting.conn = NoConn
          BY <1>a, <5>1 DEF Idle, LoopIsFree, AcceptOK
        <5> QED
          BY <4>1, <5>2 DEF Monitor, SameKeepers
      <4> QED
        BY <4>2, <4>3
    <3>2. CASE RunTasks
      <4>1. CASE Workers
        BY <3>2, <4>1 DEF RunTasks, SameKeepers
      <4>2. CASE ~Workers
        <5>1. accepting'.conn = NoConn /\ accepting.conn = NoConn
          BY <1>a, <3>2, <4>2 DEF RunTasks, Idle, LoopIsFree, AcceptOK
        <5> QED
          BY <3>2, <5>1 DEF RunTasks, SameKeepers
      <4> QED
        BY <4>1, <4>2
    <3>3. CASE Established
      <4>1. accepting'.conn = accepting.conn
        BY <1>a, <3>3 DEF Established
      <4> QED
        BY <3>3, <4>1 DEF Established, SameKeepers
    <3>4. CASE \E c \in Conn : ReleaseInLoop(c)
      BY <1>3, <3>4 DEF ReleaseInLoop, SameKeepers, baseVars
    <3>5. CASE \/ \E c \in Conn, all \in BOOLEAN : HandleEvents(c, all)
               \/ Tick
               \/ \E c \in Conn : \/ EnableInactiveReleaseInLoop(c)
                                  \/ CancelInactiveReleaseInLoop(c)
                                  \/ CalledInLoop(c)
                                  \/ EstablishedInLoop(c)
                                  \/ AddTimer(c) \/ UpdateTimer(c) \/ CancelTimer(c)
      BY <3>5 DEF HandleEvents, Tick, EnableInactiveReleaseInLoop,
         CancelInactiveReleaseInLoop, CalledInLoop, EstablishedInLoop, AddTimer, UpdateTimer,
         CancelTimer, TimerTask, SameKeepers, baseVars
    <3>6. CASE UserStep \/ ClientStep \/ Second \/ UNCHANGED vars
      BY <3>6 DEF UserStep, Hold, Drop, Call, notUserVars, ClientStep, ClientSends,
         ClientShutsDown, ClientResets, notClientVars, Second, vars, SameKeepers, baseVars
    <3> QED
      BY <1>3, <3>1, <3>2, <3>3, <3>4, <3>5, <3>6 DEF Next, WorkerStep, BaseStep
  <2> QED
    BY <1>1, <1>3, <2>1 DEF Kind
<1> QED
  BY <1>2, <1>3

LEMMA KeptStep == LifeInv /\ FoundInv /\ KeptInv /\ [Next]_vars => KeptInv'
<1> DEFINE Keeps(c) == c \in connections \/ accepting.conn = c
<1> SUFFICES ASSUME LifeInv, FoundInv, KeptInv, [Next]_vars PROVE KeptInv'
  OBVIOUS
<1> SUFFICES ASSUME ~ShutByOthers
             PROVE  /\ \A c \in Conn :
                          conn'[c].fd # NoFd /\ conn'[c].status # "DISCONNECTED" => Keeps(c)'
                    /\ \A c \in ToSet(baseTasks') : conn'[c].status = "DISCONNECTED"
                    /\ \A c \in Conn :
                          Keeps(c)' /\ conn'[c].status = "DISCONNECTED" => c \in ToSet(baseTasks')
  <2>1. ShutByOthers' = ShutByOthers
    BY ProgramKept DEF ShutByOthers, Calls
  <2>2. ToSet(baseTasks)' = ToSet(baseTasks')
    BY DEF ToSet
  <2> QED
    BY <2>1, <2>2 DEF KeptInv, Born
<1>0. /\ baseTasks \in Seq(Conn) /\ ToSet(baseTasks) \subseteq Conn /\ AcceptOK
      /\ accepting \in [step : {"idle", "ready", "establish", "insert"},
                        conn : Conn \cup {NoConn}]
  BY InSeq DEF LifeInv, TypeOK
<1>a. /\ \A c \in Conn : Born(c) /\ conn[c].status # "DISCONNECTED" => Keeps(c)
      /\ \A c \in ToSet(baseTasks) : conn[c].status = "DISCONNECTED"
      /\ \A c \in Conn : Keeps(c) /\ conn[c].status = "DISCONNECTED" => c \in ToSet(baseTasks)
  BY DEF KeptInv
<1>b. ASSUME Quiet \/ \E h : Served(h)
      PROVE  \A c \in Conn : /\ conn'[c].status = "DISCONNECTED" <=>
                                   conn[c].status = "DISCONNECTED"
                             /\ conn'[c].fd = conn[c].fd
  <2>1. CASE Quiet
    BY <2>1 DEF Quiet
  <2>2. ASSUME NEW h, Served(h)
        PROVE  \A c \in Conn : /\ conn'[c].status = "DISCONNECTED" <=>
                                     conn[c].status = "DISCONNECTED"
                               /\ conn'[c].fd = conn[c].fd
    BY <2>2, ServedSound DEF Up
  <2> QED
    BY <1>b, <2>1, <2>2
<1>1. CASE SameKeepers /\ (Quiet \/ \E h : Served(h))
  BY <1>0, <1>a, <1>b, <1>1 DEF SameKeepers, Born
<1>2. CASE Quiet /\ InsertConnection
  <2>1. /\ accepting.step = "insert" /\ accepting'.conn = NoConn /\ baseTasks' = baseTasks
        /\ connections' = connections \cup {accepting.conn}
    BY <1>2 DEF InsertConnection, Idle
  <2>2. \A c \in Conn : Keeps(c)' <=> Keeps(c)
    BY <2>1, NoneAssumption
  <2> QED
    BY <1>0, <1>a, <1>b, <1>2, <2>1, <2>2 DEF Born
<1>3. CASE Quiet /\ RemoveConnectionInLoop
  <2>1. /\ accepting' = accepting /\ accepting.step = "idle" /\ baseTasks # <<>>
        /\ connections' = connections \ {Head(baseTasks)} /\ baseTasks' = Tail(baseTasks)
    BY <1>3 DEF RemoveConnectionInLoop
  <2>2. /\ Head(baseTasks) \in Conn
        /\ ToSet(baseTasks) = {Head(baseTasks)} \cup ToSet(baseTasks')
    BY <1>0, <2>1, TailSet
  <2>3. conn[Head(baseTasks)].status = "DISCONNECTED" /\ accepting.conn = NoConn
    BY <1>0, <1>a, <2>1, <2>2 DEF AcceptOK
  <2> QED
    BY <1>0, <1>a, <1>b, <1>3, <2>1, <2>2, <2>3, NoneAssumption DEF Born
<1>4. ASSUME NEW c \in Conn, ReleaseInLoop(c), ~Freed(c)
      PROVE  /\ \A d \in Conn :
                   conn'[d].fd # NoFd /\ conn'[d].status # "DISCONNECTED" => Keeps(d)'
             /\ \A d \in ToSet(baseTasks') : conn'[d].status = "DISCONNECTED"
             /\ \A d \in Conn :
                   Keeps(d)' /\ conn'[d].status = "DISCONNECTED" => d \in ToSet(baseTasks')
  <2>0. conn[c] \in Object /\ RemoveConnection(c) /\ Task("Release", c)
    BY <1>4, Releases
  <2>1. /\ conn'[c].status = "DISCONNECTED"
        /\ \A d \in Conn \ {c} : conn'[d] = conn[d]
    BY <1>4, Releases
  <2>2. accepting' = accepting /\ LoopIsFree
    BY <2>0 DEF RemoveConnection, Task
  <2>3. CASE Workers
    <3>0. ToSet(Append(baseTasks, c)) = ToSet(baseTasks) \cup {c}
      BY <1>0, AppendedSet
    <3>1. connections' = connections /\ ToSet(baseTasks') = ToSet(baseTasks) \cup {c}
      BY <2>0, <2>3, <3>0 DEF RemoveConnection
    <3> QED
      BY <1>0, <1>a, <2>1, <2>2, <3>1 DEF Born
  <2>4. CASE ~Workers
    <3>1. connections' = connections \ {c} /\ baseTasks' = baseTasks
      BY <2>0, <2>4 DEF RemoveConnection
    <3>2. accepting.conn = NoConn
      BY <1>0, <2>2, <2>4 DEF LoopIsFree, AcceptOK
    <3> QED
      BY <1>0, <1>a, <2>1, <2>2, <3>1, <3>2, NoneAssumption DEF Born
  <2> QED
    BY <2>3, <2>4
<1>5. ASSUME NEW c \in Conn, NEW fd \in Fd, NewConnection(c, fd)
      PROVE  /\ \A d \in Conn :
                   conn'[d].fd # NoFd /\ conn'[d].status # "DISCONNECTED" => Keeps(d)'
             /\ \A d \in ToSet(baseTasks') : conn'[d].status = "DISCONNECTED"
             /\ \A d \in Conn :
                   Keeps(d)' /\ conn'[d].status = "DISCONNECTED" => d \in ToSet(baseTasks')
  <2>1. /\ conn[c].status = "CONNECTING" /\ conn'[c].status = "CONNECTING"
        /\ \A d \in Conn \ {c} : conn'[d] = conn[d]
    BY <1>5, Arrives
  <2>2. /\ accepting.step \in {"idle", "ready"} /\ accepting'.conn = c
        /\ connections' = connections /\ baseTasks' = baseTasks
    BY <1>5 DEF NewConnection
  <2>3. accepting.conn = NoConn
    BY <1>0, <2>2 DEF AcceptOK
  <2> QED
    BY <1>0, <1>a, <2>1, <2>2, <2>3, NoneAssumption DEF Born
<1> QED
  BY <1>1, <1>2, <1>3, <1>4, <1>5, Keepers

LEMMA KeptInit == Init => KeptInv
  BY EmptySet DEF Init, KeptInv, Born

-----------------------------------------------------------------------------
(* What waits in vain is released: its Release leaves the queue to run.    *)

LEMMA TasksStay ==
    ASSUME LifeInv, [Next]_vars, ~RunTasks
    PROVE  ToSet(tasks) \subseteq ToSet(tasks')
<1>0. tasks \in Seq(Op \X Conn)
  BY DEF LifeInv, TypeOK
<1>a. CASE tasks' = tasks
  BY <1>a
<1>b. ASSUME NEW p \in Seq(Op \X Conn), tasks' = tasks \o p
      PROVE  ToSet(tasks) \subseteq ToSet(tasks')
  BY <1>0, <1>b, JoinedSet
<1>c. ASSUME NEW c, PushedFor(c) PROVE ToSet(tasks) \subseteq ToSet(tasks')
  <2>1. PICK p \in Seq(Pushed \X Conn) : tasks' = tasks \o p
    BY <1>c DEF PushedFor
  <2>2. p \in Seq(Op \X Conn)
    BY DEF Pushed, Op
  <2> QED
    BY <1>b, <2>1, <2>2
<1>d. ASSUME NEW t \in Op \X Conn, tasks' = Append(tasks, t)
      PROVE  ToSet(tasks) \subseteq ToSet(tasks')
  BY <1>0, <1>d, AppendedSet
<1>e. ASSUME NEW where, Dangling(where) PROVE ToSet(tasks) \subseteq ToSet(tasks')
  BY <1>e DEF Dangling
<1>1. ASSUME NEW c \in Conn, NEW all, HandleEvents(c, all)
      PROVE  ToSet(tasks) \subseteq ToSet(tasks')
  BY <1>1, <1>c, <1>e, ServesEvents, ServedPushes DEF HandleEvents
<1>2. CASE Tick
  <2>1. CASE Dangling("dangling_timer")
    BY <1>e, <2>1
  <2>2. CASE ~Dangling("dangling_timer")
    <3> DEFINE firing == {d \in {e \in Conn : left[e] > 0 /\ left[e] <= late} : valid[d]}
    <3>1. PICK order \in SetToSeqs(firing) :
             tasks' = tasks \o [i \in DOMAIN order |-> <<"Release", order[i]>>]
      BY <1>2, <2>2 DEF Tick
    <3>2. order \in Seq(firing)
      <4>1. IsFiniteSet(firing)
        BY FS_Subset DEF LifeInv, TimersOK
      <4>2. PICK n \in Nat : order \in [1 .. n -> firing]
        BY <3>1, <4>1, FS_CardinalityType DEF SetToSeqs
      <4> QED
        BY <4>2, SeqDef
    <3> DEFINE p == [i \in DOMAIN order |-> <<"Release", order[i]>>]
    <3>3. p \in Seq(Op \X Conn)
      <4>1. "Release" \in Op /\ firing \subseteq Conn
        BY DEF Op
      <4> HIDE DEF firing
      <4> QED
        BY <3>2, <4>1
    <3>4. tasks' = tasks \o p
      BY <3>1
    <3> HIDE DEF p
    <3> QED
      BY <1>b, <3>3, <3>4
  <2> QED
    BY <2>1, <2>2
<1>3. ASSUME NEW c \in Conn,
             \/ EnableInactiveReleaseInLoop(c) \/ CancelInactiveReleaseInLoop(c)
             \/ CalledInLoop(c) \/ EstablishedInLoop(c) \/ ReleaseInLoop(c)
      PROVE  ToSet(tasks) \subseteq ToSet(tasks')
  <2>1. CASE Freed(c)
    BY <1>3, <1>e, <2>1 DEF EnableInactiveReleaseInLoop, CancelInactiveReleaseInLoop,
       CalledInLoop, EstablishedInLoop, ReleaseInLoop
  <2>2. CASE ~Freed(c)
    <3>1. CASE EnableInactiveReleaseInLoop(c) \/ CancelInactiveReleaseInLoop(c)
      BY <1>c, <2>2, <3>1, Enables, Cancels
    <3>2. CASE CalledInLoop(c) \/ EstablishedInLoop(c)
      BY <1>c, <2>2, <3>2, ServesCalls, ServesEstablished, ServedPushes
    <3>3. CASE ReleaseInLoop(c)
      <4>1. tasks' = tasks \/ tasks' = Append(tasks, <<"Cancel", c>>)
        BY <2>2, <3>3, Releases
      <4>2. <<"Cancel", c>> \in Op \X Conn
        BY DEF Op
      <4> QED
        BY <1>a, <1>d, <4>1, <4>2
    <3> QED
      BY <1>3, <3>1, <3>2, <3>3
  <2> QED
    BY <2>1, <2>2
<1>4. CASE Established
  <2>1. CASE Workers
    <3>1. <<"Established", accepting.conn>> \in Op \X Conn
      BY <1>4 DEF Established, LifeInv, AcceptOK, Op
    <3> QED
      BY <1>4, <1>d, <2>1, <3>1 DEF Established
  <2>2. CASE ~Workers
    BY <1>4, <1>c, <2>2, ServesAccepted, ServedPushes
  <2> QED
    BY <2>1, <2>2
<1>5. ASSUME NEW c \in Conn, NEW fd \in Fd, NewConnection(c, fd)
      PROVE  ToSet(tasks) \subseteq ToSet(tasks')
  <2>1. tasks' = tasks \/ \E op \in {"EnableInactiveRelease", "Add"} :
                             tasks' = Append(tasks, <<op, c>>)
    BY <1>5 DEF NewConnection
  <2>2. \A op \in {"EnableInactiveRelease", "Add"} : <<op, c>> \in Op \X Conn
    BY DEF Op
  <2> QED
    BY <1>a, <1>d, <2>1, <2>2
<1>6. ASSUME NEW c \in Conn, NEW op \in Calls, Call(c, op)
      PROVE  ToSet(tasks) \subseteq ToSet(tasks')
  <2>1. tasks' = Append(tasks, <<op, c>>)
    BY <1>6 DEF Call
  <2>2. <<op, c>> \in Op \X Conn
    BY ProgramAssumption DEF LifeInv, TypeOK, Program, Calls, Op
  <2> QED
    BY <1>d, <2>1, <2>2
<1>7. \/ tasks' = tasks
      \/ Tick \/ Established
      \/ \E c \in Conn, all \in BOOLEAN : HandleEvents(c, all)
      \/ \E c \in Conn : \/ EnableInactiveReleaseInLoop(c) \/ CancelInactiveReleaseInLoop(c)
                         \/ CalledInLoop(c) \/ EstablishedInLoop(c) \/ ReleaseInLoop(c)
      \/ \E c \in Conn, fd \in Fd : NewConnection(c, fd)
      \/ \E c \in Conn, op \in Calls : Call(c, op)
  BY DEF Next, vars, WorkerStep, BaseStep, UserStep, ClientStep, Monitor, AddTimer,
     UpdateTimer, CancelTimer, TimerTask, InsertConnection, RemoveConnectionInLoop,
     Hold, Drop, ClientSends, ClientShutsDown, ClientResets, Second,
     loopVars, notUserVars, notClientVars
<1> QED
  BY <1>a, <1>1, <1>2, <1>3, <1>4, <1>5, <1>6, <1>7

LEMMA ReleaseStays ==
    ASSUME LifeInv, [Next]_vars, NEW c \in Conn, <<"Release", c>> \in Queued
    PROVE  <<"Release", c>> \in Queued' \/ ReleaseInLoop(c)
<1>1. CASE RunTasks
  <2>1. pending = <<>> /\ pending' = tasks
    BY <1>1 DEF RunTasks, LifeInv, PhaseOK
  <2> QED
    BY <2>1, EmptySet DEF Queued
<1>2. CASE ~RunTasks /\ pending' = pending
  BY <1>2, TasksStay DEF Queued
<1>3. ASSUME ~RunTasks, NEW d \in Conn, ReleaseInLoop(d) PROVE <<"Release", c>> \in Queued' \/ ReleaseInLoop(c)
  <2>1. ToSet(pending) = {<<"Release", d>>} \cup ToSet(pending')
    BY <1>3, Taken DEF ReleaseInLoop
  <2> QED
    BY <1>3, <2>1, TasksStay DEF Queued
<1>4. ASSUME ~RunTasks, NEW d \in Conn, NEW e, e # "Release", Task(e, d)
      PROVE  <<"Release", c>> \in Queued'
  <2>1. ToSet(pending) = {<<e, d>>} \cup ToSet(pending')
    BY <1>4, Taken
  <2> QED
    BY <1>4, <2>1, TasksStay DEF Queued
<1>5. \/ RunTasks \/ pending' = pending
      \/ \E d \in Conn : ReleaseInLoop(d) \/ \E e : e # "Release" /\ Task(e, d)
  BY DEF Next, vars, WorkerStep, BaseStep, UserStep, ClientStep, Monitor, HandleEvents, Tick,
     EnableInactiveReleaseInLoop, CancelInactiveReleaseInLoop, CalledInLoop,
     EstablishedInLoop, AddTimer, UpdateTimer, CancelTimer,
     TimerTask, Established, InsertConnection, RemoveConnectionInLoop, NewConnection, Hold,
     Drop, Call, ClientSends, ClientShutsDown, ClientResets, Second,
     loopVars, notBaseVars, notUserVars, notClientVars
<1> QED
  BY <1>1, <1>2, <1>3, <1>4, <1>5

LEMMA OwedStep == LifeInv /\ FoundInv /\ KeptInv /\ OwedInv /\ [Next]_vars => OwedInv'
<1> SUFFICES ASSUME LifeInv, FoundInv, KeptInv, OwedInv, [Next]_vars,
                    ~ShutByOthers', ~Empty',
                    NEW c \in Conn, conn'[c].status \in Up, "OUT" \in conn'[c].events
             PROVE  conn'[c].out \/ <<"Release", c>> \in Queued'
  BY DEF OwedInv
<1>1. program' = program
  BY ProgramKept
<1>2. ~ShutByOthers /\ ~Empty
  BY <1>1 DEF ShutByOthers, Calls, Empty
<1>3. ASSUME NEW d \in Conn, ReleaseInLoop(d), ~Freed(d)
      PROVE  d # c /\ conn'[c] = conn[c]
  BY <1>3, Releases DEF Up
<1>4. ASSUME conn[c].status \in Up, <<"Release", c>> \in Queued
      PROVE  <<"Release", c>> \in Queued'
  <2>1. ~Freed(c)
    BY <1>2, <1>4 DEF KeptInv, Freed, LifeInv, LifeOK, Up
  <2> QED
    BY <1>3, <1>4, <2>1, ReleaseStays
<1>5. ASSUME conn'[c].status = conn[c].status, conn'[c].events = conn[c].events,
             conn'[c].out = conn[c].out
      PROVE  conn'[c].out \/ <<"Release", c>> \in Queued'
  BY <1>2, <1>4, <1>5 DEF OwedInv
<1>6. CASE Quiet
  BY <1>5, <1>6 DEF Quiet
<1>7. ASSUME NEW h, Served(h) PROVE conn'[c].out \/ <<"Release", c>> \in Queued'
  <2>1. /\ h.c \in Conn /\ conn'[h.c] = h.k
        /\ \A d \in Conn \ {h.c} : conn'[d] = conn[d]
        /\ conn[h.c].status # "DISCONNECTED"
    BY <1>2, <1>7, ServedSound
  <2>2. CASE h.c # c
    BY <1>5, <2>1, <2>2
  <2>3. CASE h.c = c
    <3>1. h.k.out \/ <<"Release", c>> \in ToSet(h.push) \cup Queued
      BY <1>2, <1>7, <2>1, <2>3 DEF Served, Owed
    <3>2. ASSUME <<"Release", c>> \in ToSet(h.push) PROVE <<"Release", c>> \in Queued'
      <4>1. PushedFor(h.c) /\ h.push \in Seq(Pushed \X Conn) /\ tasks' = tasks \o h.push
        BY <1>7, ServedPushes DEF Served, Runs, HandlerState, End
      <4>2. h.push \in Seq(Op \X Conn) /\ tasks \in Seq(Op \X Conn)
        BY <4>1 DEF Pushed, Op, LifeInv, TypeOK
      <4> QED
        BY <3>2, <4>1, <4>2, JoinedSet DEF Queued
    <3>3. ASSUME <<"Release", c>> \in Queued PROVE <<"Release", c>> \in Queued'
      <4>1. conn[c].status \in {"CONNECTING", "CONNECTED", "DISCONNECTING", "DISCONNECTED"}
        BY Bodied, Begun DEF Object, Status
      <4>2. CASE conn[c].status \in Up
        BY <1>4, <3>3, <4>2
      <4>3. CASE conn[c].status = "CONNECTING"
        <5>1. ~Freed(c)
          BY <1>2, <3>3, <4>3 DEF KeptInv, Freed, LifeInv, QueuedOK
        <5> QED
          BY <1>3, <3>3, <5>1, ReleaseStays
      <4> QED
        BY <2>1, <2>3, <4>1, <4>2, <4>3 DEF Up
    <3> QED
      BY <2>1, <2>3, <3>1, <3>2, <3>3
  <2> QED
    BY <2>2, <2>3
<1>8. ASSUME NEW d \in Conn, NEW fd \in Fd, NewConnection(d, fd)
      PROVE  conn'[c].status = conn[c].status /\ conn'[c].events = conn[c].events
             /\ conn'[c].out = conn[c].out
  BY <1>8, Arrives DEF Up
<1>9. Kind
  BY Kinds
<1> QED
  BY <1>3, <1>5, <1>6, <1>7, <1>8, <1>9 DEF Kind

LEMMA OwedInit == Init => OwedInv
  BY DEF Init, OwedInv, Up

-----------------------------------------------------------------------------
(***************************************************************************)
(* A program without timers, resets and calls but Send.  A connection is   *)
(* asked for its release by one handler at most: by the one that flushed   *)
(* its output when it is being shut down, in a round of events that has    *)
(* nothing left for it, and the release runs before the next round.        *)
(***************************************************************************)

Steady ==
    /\ ~tickActive /\ late = 0
    /\ \A c \in Conn : /\ ~conn[c].releaseOrNot
                       /\ peer[c] \notin {"reset", "dead"}
                       /\ actives[c] \cap {"ERR", "HUP"} = {}

Few == \A t \in Queued : /\ t[1] \in {"Established", "Send", "Release"}
                         /\ t[1] = "Send" => Calls # {}

Once(q) == \A i, j \in DOMAIN q :
    q[i][1] \in {"Established", "Release"} /\ q[i] = q[j] => i = j

Asking ==
    /\ Once(tasks) /\ Once(pending)
    /\ \A c \in Conn :
          /\ <<"Release", c>> \in ToSet(tasks) => pc = "handle" /\ actives[c] = {}
          /\ <<"Release", c>> \in Queued =>
                conn[c].status = "DISCONNECTING" /\ (Calls = {} => ~conn[c].out)
          /\ Calls = {} /\ conn[c].status = "DISCONNECTED" => ~conn[c].out
          /\ conn[c].releases <= 1

(* A connection is established once. *)
Coming ==
    /\ \A c \in Conn : <<"Established", c>> \in Queued =>
          /\ conn[c].status = "CONNECTING"
          /\ ~(accepting.step = "establish" /\ accepting.conn = c)
          /\ ~(<<"Established", c>> \in ToSet(tasks) /\ <<"Established", c>> \in ToSet(pending))
    /\ accepting.step = "establish" => conn[accepting.conn].status = "CONNECTING"

Lives == Calls = {} => fault = "none" /\ held = {}

GraceInv == Graceful => Steady /\ Few /\ Asking /\ Coming /\ Lives

LEMMA OnceAppended ==
    ASSUME NEW S, NEW q \in Seq(S), NEW e \in S, Once(q),
           e \notin ToSet(q) \/ e[1] \notin {"Established", "Release"}
    PROVE  Once(Append(q, e))
<1>1. /\ DOMAIN Append(q, e) = 1..(Len(q) + 1) /\ Append(q, e)[Len(q) + 1] = e
      /\ \A i \in 1..Len(q) : Append(q, e)[i] = q[i]
      /\ DOMAIN q = 1..Len(q) /\ Len(q) \in Nat
  OBVIOUS
<1>2. \A i \in 1..Len(q) : q[i] \in ToSet(q)
  BY <1>1 DEF ToSet
<1> QED
  BY <1>1, <1>2 DEF Once

LEMMA OnceTail ==
    ASSUME NEW S, NEW q \in Seq(S), q # <<>>, Once(q)
    PROVE  /\ Once(Tail(q))
           /\ Head(q)[1] \in {"Established", "Release"} => Head(q) \notin ToSet(Tail(q))
<1>1. /\ Head(q) = q[1] /\ DOMAIN Tail(q) = 1..(Len(q) - 1) /\ DOMAIN q = 1..Len(q)
      /\ Len(q) \in Nat \ {0}
      /\ \A i \in 1..(Len(q) - 1) : Tail(q)[i] = q[i + 1]
  OBVIOUS
<1>2. Once(Tail(q))
  <2> SUFFICES ASSUME NEW i \in 1..(Len(q) - 1), NEW j \in 1..(Len(q) - 1),
                      q[i + 1][1] \in {"Established", "Release"}, q[i + 1] = q[j + 1]
               PROVE  i = j
    BY <1>1 DEF Once
  <2>1. i + 1 \in DOMAIN q /\ j + 1 \in DOMAIN q
    BY <1>1
  <2>2. i + 1 = j + 1
    BY <2>1 DEF Once
  <2> QED
    BY <1>1, <2>2
<1>3. ASSUME Head(q)[1] \in {"Established", "Release"}, Head(q) \in ToSet(Tail(q)) PROVE FALSE
  <2>1. PICK i \in 1..(Len(q) - 1) : q[1] = q[i + 1]
    BY <1>1, <1>3 DEF ToSet
  <2>2. 1 \in DOMAIN q /\ i + 1 \in DOMAIN q
    BY <1>1
  <2>3. 1 = i + 1
    BY <1>1, <1>3, <2>1, <2>2 DEF Once
  <2> QED
    BY <1>1, <2>3
<1> QED
  BY <1>2, <1>3

(* A handler that changes nothing ends. *)
LEMMA EndsAsBegun ==
    ASSUME LifeInv, NEW c \in Conn, NEW f \in Fault, End([Begin(c) EXCEPT !.fault = f])
    PROVE  /\ tasks' = tasks /\ fault' = f
           /\ \A d \in Conn : conn'[d] = conn[d] /\ peer'[d] = peer[d]
<1> DEFINE b == Begin(c)
           h == [b EXCEPT !.fault = f]
<1>1. /\ BodyOK /\ b \in HandlerState /\ b.c = c /\ b.k = conn[c] /\ b.peer = peer[c]
      /\ b.push = <<>>
  BY Bodied, Begun
<1>2. End(h)
  OBVIOUS
<1> HIDE DEF b
<1>3. /\ h \in HandlerState /\ h.c = c /\ h.k = conn[c] /\ h.peer = peer[c]
      /\ h.push = <<>> /\ h.fault = f
  BY <1>1 DEF HandlerState
<1> HIDE DEF h
<1>4. tasks \o <<>> = tasks
  BY DEF LifeInv, TypeOK
<1> QED
  BY <1>1, <1>2, <1>3, <1>4, Ended

(* A connection comes up, in its worker's loop or in the only one. *)
LEMMA ComesUp ==
    ASSUME LifeInv, FoundInv, ~ShutByOthers, NEW c \in Conn, Born(c),
           conn[c].status = "CONNECTING", peer[c] # "reset",
           End(CareRead([Begin(c) EXCEPT !.k.status = "CONNECTED"]))
    PROVE  /\ tasks' = tasks /\ fault' = "none"
           /\ conn'[c].status = "CONNECTED" /\ conn'[c].out = conn[c].out
           /\ conn'[c].releases = conn[c].releases
           /\ conn'[c].releaseOrNot = conn[c].releaseOrNot
           /\ peer'[c] = peer[c]
           /\ \A d \in Conn \ {c} : conn'[d] = conn[d] /\ peer'[d] = peer[d]
<1> DEFINE g == CareRead([Begin(c) EXCEPT !.k.status = "CONNECTED"])
<1>1. /\ Runs(g) /\ g.c = c /\ g.push = <<>> /\ g.fault = "none"
      /\ g.k = [conn[c] EXCEPT !.status = "CONNECTED", !.events = @ \cup {"IN"}]
      /\ Sound(g)
  BY Establishes
<1>2. BodyOK /\ conn[c] \in Object
  BY Bodied, Begun
<1>3. End(g)
  OBVIOUS
<1> HIDE DEF g
<1>4. /\ g.k.status = "CONNECTED" /\ g.k.out = conn[c].out /\ g.k.releases = conn[c].releases
      /\ g.k.releaseOrNot = conn[c].releaseOrNot
  BY <1>1, <1>2 DEF Object
<1>5. g \in HandlerState /\ g.peer = peer[c]
  BY <1>1 DEF Runs, Sound, Placed
<1>6. tasks \o <<>> = tasks
  BY DEF LifeInv, TypeOK
<1>7. /\ conn'[g.c] = g.k /\ peer'[g.c] = g.peer
      /\ \A d \in Conn \ {g.c} : conn'[d] = conn[d] /\ peer'[d] = peer[d]
      /\ tasks' = tasks \o g.push /\ fault' = g.fault
  BY <1>2, <1>3, <1>5, Ended
<1> QED
  BY <1>1, <1>4, <1>5, <1>6, <1>7

GraceHere == /\ LifeInv /\ FoundInv /\ KeptInv /\ OwedInv
             /\ Graceful /\ Steady /\ Few /\ Asking /\ Coming /\ Lives

LEMMA NeverShut == Graceful => ~ShutByOthers
  BY DEF Graceful, ShutByOthers

LEMMA NotFreed ==
    ASSUME KeptInv, Graceful, NEW c \in Conn, Born(c), conn[c].status # "DISCONNECTED"
    PROVE  ~Freed(c)
  BY NeverShut DEF KeptInv, Freed

(* The objects as the properties see them stay as they are. *)
Same(d) == /\ conn'[d].status = conn[d].status /\ conn'[d].out = conn[d].out
           /\ conn'[d].releases = conn[d].releases
           /\ conn'[d].releaseOrNot = conn[d].releaseOrNot
           /\ peer'[d] \notin {"reset", "dead"}

Others(c) == \A d \in Conn \ {c} : Same(d)

(* The events of a connection: if its release is asked for, it was not     *)
(* before, and it is flushed.                                              *)
LEMMA GracefulEvents ==
    ASSUME GraceHere, NEW c \in Conn, NEW all, HandleEvents(c, all)
    PROVE  /\ Others(c)
           /\ conn[c].status \in Up /\ conn'[c].status \in Up
           /\ conn[c].status = "DISCONNECTING" => conn'[c].status = "DISCONNECTING"
           /\ conn'[c].releases = conn[c].releases /\ ~conn'[c].releaseOrNot
           /\ peer'[c] \notin {"reset", "dead"} /\ fault' = "none"
           /\ \/ tasks' = tasks
              \/ /\ tasks' = Append(tasks, <<"Release", c>>)
                 /\ conn'[c].status = "DISCONNECTING" /\ ~conn'[c].out
<1>0. LifeInv /\ FoundInv /\ ~ShutByOthers /\ Steady
  BY NeverShut DEF GraceHere
<1>1. actives[c] # {} /\ conn[c].status \in Up
      /\ ("OUT" \in actives[c] => "OUT" \in conn[c].events)
  BY <1>0 DEF HandleEvents, FoundInv, EventsOK
<1>2. ~Freed(c)
  BY <1>1, NotFreed DEF GraceHere, LifeInv, LifeOK, Up
<1>3. PICK g \in Outcomes(c, actives[c], all) : End(g)
  BY <1>2 DEF HandleEvents
<1>4. Runs(Begin(c)) /\ Sound(Begin(c))
  BY <1>0, <1>1, BeginRuns, BeginSound DEF Up
<1>5. peer[c] \notin {"reset", "dead"} /\ actives[c] \cap {"ERR", "HUP"} = {}
      /\ ~conn[c].releaseOrNot
  BY <1>0 DEF Steady
<1>13. <<"Release", c>> \notin Queued
  <2>1. pending = <<>>
    BY <1>0 DEF HandleEvents, LifeInv, PhaseOK
  <2> QED
    BY <1>1, <2>1, EmptySet DEF GraceHere, Asking, Queued
<1>14. Silent <= 1 /\ ("OUT" \in actives[c] => conn[c].out)
  BY <1>0, <1>1, <1>13 DEF GraceHere, Graceful, OwedInv
<1>6. /\ Runs(g) /\ g.c = c /\ Sound(g)
      /\ g.fault = "none" /\ ~g.k.releaseOrNot
      /\ \/ g.push = <<>>
         \/ /\ g.push = <<<<"Release", c>>>>
            /\ g.k.status = "DISCONNECTING" /\ ~g.k.out
  BY <1>1, <1>4, <1>5, <1>14, HandledEvents
<1>7. /\ g \in HandlerState /\ g.k.status \in Up /\ g.k.releases = conn[c].releases
      /\ conn[c].status = "DISCONNECTING" => g.k.status = "DISCONNECTING"
      /\ g.peer = peer[c]
  BY <1>5, <1>6 DEF Runs, Sound, Placed
<1>8. /\ conn'[g.c] = g.k /\ peer'[g.c] = g.peer
      /\ \A d \in Conn \ {g.c} : conn'[d] = conn[d] /\ peer'[d] = peer[d]
      /\ tasks' = tasks \o g.push /\ fault' = g.fault
  BY <1>0, <1>3, <1>7, Bodied, Ended
<1>9. Others(c)
  BY <1>0, <1>6, <1>8 DEF Others, Same, Steady
<1>10. tasks \in Seq(Op \X Conn)
  BY <1>0 DEF LifeInv, TypeOK
<1>11. tasks \o <<>> = tasks /\ tasks \o <<<<"Release", c>>>> = Append(tasks, <<"Release", c>>)
  BY <1>10
<1>12. tasks' = tasks \/ (/\ tasks' = Append(tasks, <<"Release", c>>)
                         /\ g.k.status = "DISCONNECTING" /\ ~g.k.out)
  BY <1>6, <1>8, <1>11
<1> QED
  BY <1>1, <1>5, <1>6, <1>7, <1>8, <1>9, <1>12

(* A Send, which another thread pushed. *)
LEMMA GracefulCalls ==
    ASSUME GraceHere, NEW c \in Conn, CalledInLoop(c)
    PROVE  /\ Task("Send", c) /\ Calls # {} /\ Others(c) /\ tasks' = tasks
           /\ conn'[c].status = conn[c].status /\ conn'[c].releases = conn[c].releases
           /\ ~conn'[c].releaseOrNot /\ peer'[c] \notin {"reset", "dead"}
<1>0. LifeInv /\ FoundInv /\ ~ShutByOthers /\ Steady /\ BodyOK
  BY NeverShut, Bodied DEF GraceHere
<1>1. PICK op \in {"Send", "Shutdown", "SwitchProtocol"} :
         /\ Task(op, c)
         /\ Freed(c) => Dangling("dangling_task")
         /\ ~Freed(c) /\ op = "Send" => \E some \in BOOLEAN : End(SendInLoop(Begin(c), some))
  BY DEF CalledInLoop
<1>2. <<op, c>> \in Queued /\ (op \in {"Send", "Shutdown"} => conn[c].status # "CONNECTING")
  BY <1>0, <1>1, Taken
<1>3. op = "Send" /\ Calls # {}
  BY <1>1, <1>2 DEF GraceHere, Few
<1>4. ASSUME tasks' = tasks, \A d \in Conn : conn'[d] = conn[d] /\ peer'[d] = peer[d]
      PROVE  /\ Others(c) /\ conn'[c] = conn[c]
             /\ ~conn'[c].releaseOrNot /\ peer'[c] \notin {"reset", "dead"}
  BY <1>0, <1>4 DEF Others, Same, Steady
<1>5. CASE Freed(c)
  BY <1>1, <1>3, <1>4, <1>5 DEF Dangling, kernelVars
<1>6. CASE ~Freed(c) /\ conn[c].status = "DISCONNECTED"
  <2> DEFINE b == Begin(c)
  <2>1. b \in HandlerState /\ b.k = conn[c] /\ b.fault = "none" /\ "none" \in Fault
    BY <1>0, Begun DEF Fault
  <2>2. (\A some \in BOOLEAN : SendInLoop(b, some) = b) /\ b = [b EXCEPT !.fault = "none"]
    <3> HIDE DEF b
    <3> QED
      BY <1>6, <2>1 DEF SendInLoop, HandlerState
  <2>3. End([Begin(c) EXCEPT !.fault = "none"])
    BY <1>1, <1>3, <1>6, <2>2
  <2>4. tasks' = tasks /\ \A d \in Conn : conn'[d] = conn[d] /\ peer'[d] = peer[d]
    BY <1>0, <2>1, <2>3, EndsAsBegun
  <2> QED
    BY <1>1, <1>3, <1>4, <2>4
<1>7. CASE ~Freed(c) /\ conn[c].status # "DISCONNECTED"
  <2>0. PICK some \in BOOLEAN : End(SendInLoop(Begin(c), some))
    BY <1>1, <1>3, <1>7
  <2> DEFINE g == SendInLoop(Begin(c), some)
  <2>1. /\ Runs(Begin(c)) /\ Begin(c).push = <<>> /\ Begin(c).k = conn[c]
        /\ Begin(c).c = c
    BY <1>0, <1>2, <1>3, BeginRuns, Begun
  <2>2. conn[c].status \in Up
    BY <1>0, <1>2, <1>3, <1>7, Begun DEF Object, Status, Up
  <2>3. Sound(Begin(c))
    BY <1>0, <2>2, BeginSound
  <2>4. /\ Runs(g) /\ g.c = c /\ g.push = <<>> /\ g.k.status = conn[c].status
        /\ g.k.releaseOrNot = conn[c].releaseOrNot /\ Sound(g)
    BY <2>1, <2>3, Sent DEF Mute
  <2>5. End(g)
    BY <2>0
  <2> HIDE DEF g
  <2>6. peer[c] \notin {"reset", "dead"} /\ ~conn[c].releaseOrNot
    BY <1>0 DEF Steady
  <2>7. g \in HandlerState /\ g.k.releases = conn[c].releases /\ g.peer = peer[c]
    BY <2>4, <2>6 DEF Runs, Sound, Placed
  <2>8. /\ conn'[g.c] = g.k /\ peer'[g.c] = g.peer
        /\ \A d \in Conn \ {g.c} : conn'[d] = conn[d] /\ peer'[d] = peer[d]
        /\ tasks' = tasks \o g.push
    BY <1>0, <2>5, <2>7, Ended
  <2>9. tasks \o <<>> = tasks
    BY <1>0 DEF LifeInv, TypeOK
  <2>10. Others(c)
    BY <1>0, <2>4, <2>8 DEF Others, Same, Steady
  <2> QED
    BY <1>1, <1>3, <2>4, <2>6, <2>7, <2>8, <2>9, <2>10
<1> QED
  BY <1>5, <1>6, <1>7

(* The Established the acceptor pushed. *)
LEMMA GracefulEstablished ==
    ASSUME GraceHere, NEW c \in Conn, EstablishedInLoop(c)
    PROVE  /\ Task("Established", c) /\ Others(c) /\ tasks' = tasks /\ fault' = "none"
           /\ conn[c].status = "CONNECTING" /\ conn'[c].status = "CONNECTED"
           /\ conn'[c].out = conn[c].out /\ conn'[c].releases = conn[c].releases
           /\ ~conn'[c].releaseOrNot /\ peer'[c] \notin {"reset", "dead"}
<1>0. LifeInv /\ FoundInv /\ ~ShutByOthers /\ Steady
  BY NeverShut DEF GraceHere
<1>1. Task("Established", c)
  BY DEF EstablishedInLoop
<1>2. <<"Established", c>> \in Queued /\ Born(c)
  BY <1>0, <1>1, Taken
<1>3. conn[c].status = "CONNECTING" /\ peer[c] \notin {"reset", "dead"}
      /\ ~conn[c].releaseOrNot
  BY <1>2 DEF GraceHere, Coming, Steady
<1>4. ~Freed(c)
  BY <1>2, <1>3, NotFreed DEF GraceHere
<1>5. End(CareRead([Begin(c) EXCEPT !.k.status = "CONNECTED"]))
  BY <1>3, <1>4 DEF EstablishedInLoop
<1>6. /\ tasks' = tasks /\ fault' = "none"
      /\ conn'[c].status = "CONNECTED" /\ conn'[c].out = conn[c].out
      /\ conn'[c].releases = conn[c].releases
      /\ conn'[c].releaseOrNot = conn[c].releaseOrNot
      /\ peer'[c] = peer[c]
      /\ \A d \in Conn \ {c} : conn'[d] = conn[d] /\ peer'[d] = peer[d]
  BY <1>0, <1>2, <1>3, <1>5, ComesUp
<1>7. Others(c)
  BY <1>0, <1>6 DEF Others, Same, Steady
<1> QED
  BY <1>1, <1>3, <1>6, <1>7

(* The release. *)
LEMMA GracefulRelease ==
    ASSUME GraceHere, NEW c \in Conn, ReleaseInLoop(c)
    PROVE  /\ Task("Release", c) /\ Others(c) /\ tasks' = tasks /\ fault' = fault
           /\ conn[c].status = "DISCONNECTING" /\ conn'[c].status = "DISCONNECTED"
           /\ conn'[c].out = conn[c].out
           /\ conn[c].releases = 0 /\ conn'[c].releases = 1
           /\ ~conn'[c].releaseOrNot /\ peer'[c] \notin {"reset", "dead"}
<1>0. LifeInv /\ FoundInv /\ ~ShutByOthers /\ Steady
  BY NeverShut DEF GraceHere
<1>1. Task("Release", c)
  BY DEF ReleaseInLoop
<1>2. <<"Release", c>> \in Queued /\ Born(c)
  BY <1>0, <1>1, Taken
<1>3. conn[c].status = "DISCONNECTING"
  BY <1>2 DEF GraceHere, Asking
<1>4. ~Freed(c)
  BY <1>2, <1>3, NotFreed DEF GraceHere
<1>5. /\ conn'[c].status = "DISCONNECTED" /\ conn'[c].out = conn[c].out
      /\ ~conn'[c].releaseOrNot
      /\ conn'[c].releases = conn[c].releases + 1 /\ conn[c].releases \in Nat
      /\ peer'[c] = "closed"
      /\ \A d \in Conn \ {c} : conn'[d] = conn[d] /\ peer'[d] = peer[d]
      /\ fault' = fault
  BY <1>0, <1>4, Releases
<1>6. conn[c].releases = 0
  BY <1>0, <1>3, <1>5 DEF FoundInv, ReleasedOK
<1>7. tasks' = tasks
  <2>1. ~conn[c].releaseOrNot
    BY <1>0 DEF Steady
  <2>2. tasks' = IF conn[c].releaseOrNot /\ left[c] > 0
                 THEN Append(tasks, <<"Cancel", c>>) ELSE tasks
    BY <1>4 DEF ReleaseInLoop
  <2> QED
    BY <2>1, <2>2
<1>8. Others(c)
  BY <1>0, <1>5 DEF Others, Same, Steady
<1> QED
  BY <1>1, <1>3, <1>5, <1>6, <1>7, <1>8

Graced == Steady /\ Few /\ Asking /\ Coming

(* Nothing is pushed or run. *)
LEMMA GraceRests ==
    ASSUME GraceHere, program' = program, tickActive' = tickActive, late' = late,
           UNCHANGED <<tasks, pending, pc, actives>>, \A d \in Conn : Same(d),
           accepting'.step = "establish" =>
              \/ accepting' = accepting
              \/ /\ accepting'.conn \in Conn /\ ~Born(accepting'.conn)
                 /\ conn[accepting'.conn].status = "CONNECTING"
    PROVE  Graced'
<1>0. LifeInv /\ Steady /\ Few /\ Asking /\ Coming
  BY DEF GraceHere
<1>1. Queued' = Queued /\ Calls' = Calls
  BY DEF Queued, Calls
<1>2. Steady'
  BY <1>0 DEF Steady, Same
<1>3. Few'
  BY <1>0, <1>1 DEF Few
<1>4. Asking'
  BY <1>0, <1>1 DEF Asking, Same
<1>5. Coming'
  <2>1. \A c \in Conn : <<"Established", c>> \in Queued => Born(c)
    BY <1>0 DEF LifeInv, QueuedOK
  <2>2. accepting.step = "establish" => accepting.conn \in Conn
    BY <1>0 DEF LifeInv, AcceptOK
  <2> QED
    BY <1>0, <1>1, <2>1, <2>2 DEF Coming, Same
<1> QED
  BY <1>2, <1>3, <1>4, <1>5 DEF Graced

(* Another thread pushes. *)
LEMMA GracePushes ==
    ASSUME GraceHere, program' = program, tickActive' = tickActive, late' = late,
           UNCHANGED <<pending, pc, actives>>, \A d \in Conn : Same(d),
           NEW c \in Conn, NEW op, tasks' = Append(tasks, <<op, c>>),
           \/ op = "Send" /\ Calls # {} /\ accepting' = accepting
           \/ /\ op = "Established" /\ accepting.step = "establish" /\ accepting.conn = c
              /\ accepting'.step = "insert"
    PROVE  Graced'
<1>0. LifeInv /\ Steady /\ Few /\ Asking /\ Coming
  BY DEF GraceHere
<1>1. /\ tasks \in Seq(Op \X Conn) /\ <<op, c>> \in Op \X Conn
      /\ pending \in Seq(Op \X Conn)
  BY <1>0 DEF LifeInv, TypeOK, Op
<1>2. ToSet(tasks') = ToSet(tasks) \cup {<<op, c>>}
  <2> DEFINE e == <<op, c>>
  <2>1. e \in Op \X Conn
    BY <1>1
  <2> HIDE DEF e
  <2>2. ToSet(Append(tasks, e)) = ToSet(tasks) \cup {e}
    BY <1>1, <2>1, AppendedSet
  <2> QED
    BY <2>2 DEF e
<1>3. Queued' = Queued \cup {<<op, c>>} /\ Calls' = Calls /\ op \in {"Send", "Established"}
  BY <1>2 DEF Queued, Calls
<1>4. op = "Established" => <<op, c>> \notin Queued /\ conn[c].status = "CONNECTING"
  BY <1>0 DEF Coming
<1>5. Steady'
  BY <1>0 DEF Steady, Same
<1>6. Few'
  BY <1>0, <1>3 DEF Few
<1>7. Once(tasks')
  <2>1. <<op, c>> \notin ToSet(tasks) \/ <<op, c>>[1] \notin {"Established", "Release"}
    BY <1>4 DEF Queued
  <2>2. Once(Append(tasks, <<op, c>>))
    BY <1>0, <1>1, <2>1, OnceAppended DEF Asking
  <2> QED
    BY <2>2
<1>8. Asking'
  <2>1. \A d \in Conn : /\ <<"Release", d>> \in ToSet(tasks') => <<"Release", d>> \in ToSet(tasks)
                        /\ <<"Release", d>> \in Queued' => <<"Release", d>> \in Queued
    BY <1>2, <1>3
  <2>2. Once(pending)'
    BY <1>0 DEF Asking
  <2> QED
    BY <1>0, <1>3, <1>7, <2>1, <2>2 DEF Asking, Same
<1>9. Coming'
  <2> SUFFICES ASSUME NEW d \in Conn, <<"Established", d>> \in Queued'
               PROVE  /\ conn'[d].status = "CONNECTING"
                      /\ ~(accepting'.step = "establish" /\ accepting'.conn = d)
                      /\ ~(/\ <<"Established", d>> \in ToSet(tasks')
                           /\ <<"Established", d>> \in ToSet(pending'))
    <3>1. accepting'.step = "establish" => /\ accepting' = accepting /\ accepting.conn \in Conn
                                           /\ conn[accepting.conn].status = "CONNECTING"
      BY <1>0 DEF Coming, LifeInv, AcceptOK
    <3> QED
      BY <3>1 DEF Coming, Same
  <2>1. CASE op = "Established" /\ d = c
    BY <1>4, <2>1 DEF Same, Queued
  <2>2. CASE ~(op = "Established" /\ d = c)
    BY <1>0, <1>2, <1>3, <2>2 DEF Coming, Same
  <2> QED
    BY <2>1, <2>2
<1> QED
  BY <1>5, <1>6, <1>8, <1>9 DEF Graced

(* The events, in the order of the round. *)
LEMMA GraceHandles ==
    ASSUME GraceHere, program' = program, NEW c \in Conn, NEW all, HandleEvents(c, all)
    PROVE  Graced'
<1>0. LifeInv /\ Steady /\ Few /\ Asking /\ Coming
  BY DEF GraceHere
<1>1. /\ pc = "handle" /\ pc' = pc /\ actives[c] # {} /\ actives' = [actives EXCEPT ![c] = {}]
      /\ pending' = pending /\ tickActive' = tickActive /\ late' = late /\ accepting' = accepting
  BY DEF HandleEvents, timerVars, baseVars
<1>2. /\ Others(c)
      /\ conn[c].status \in Up /\ conn'[c].status \in Up
      /\ conn[c].status = "DISCONNECTING" => conn'[c].status = "DISCONNECTING"
      /\ conn'[c].releases = conn[c].releases /\ ~conn'[c].releaseOrNot
      /\ peer'[c] \notin {"reset", "dead"}
      /\ \/ tasks' = tasks
         \/ /\ tasks' = Append(tasks, <<"Release", c>>)
            /\ conn'[c].status = "DISCONNECTING" /\ ~conn'[c].out
  BY GracefulEvents
<1>3. /\ tasks \in Seq(Op \X Conn) /\ <<"Release", c>> \in Op \X Conn /\ pending = <<>>
      /\ actives'[c] = {} /\ \A d \in Conn \ {c} : actives'[d] = actives[d]
  BY <1>0, <1>1 DEF LifeInv, TypeOK, Op, PhaseOK
<1>4. <<"Release", c>> \notin Queued
  BY <1>0, <1>1, <1>3, EmptySet DEF Asking, Queued
<1>5. /\ ToSet(tasks') = ToSet(tasks)
         \/ /\ ToSet(tasks') = ToSet(tasks) \cup {<<"Release", c>>}
            /\ conn'[c].status = "DISCONNECTING" /\ ~conn'[c].out
      /\ Once(tasks')
  <2>1. CASE tasks' = tasks
    BY <1>0, <2>1 DEF Asking
  <2>2. CASE tasks' = Append(tasks, <<"Release", c>>)
    <3>1. Once(Append(tasks, <<"Release", c>>))
      BY <1>0, <1>3, <1>4, OnceAppended DEF Asking, Queued
    <3>2. ToSet(Append(tasks, <<"Release", c>>)) = ToSet(tasks) \cup {<<"Release", c>>}
      BY <1>3, AppendedSet
    <3>3. tasks' # tasks
      BY <1>4, <2>2, <3>2 DEF Queued
    <3> QED
      BY <1>2, <2>2, <3>1, <3>2, <3>3
  <2> QED
    BY <1>2, <2>1, <2>2
<1>6. /\ \A t \in Queued' : t \in Queued \/ t = <<"Release", c>>
      /\ <<"Release", c>> \in Queued' =>
            conn'[c].status = "DISCONNECTING" /\ ~conn'[c].out
      /\ Calls' = Calls
  BY <1>1, <1>4, <1>5 DEF Queued, Calls
<1>7. Steady'
  BY <1>0, <1>1, <1>2, <1>3 DEF Steady, Others, Same
<1>8. Few'
  BY <1>0, <1>6 DEF Few
<1>9. Asking'
  <2>1. Once(pending)'
    BY <1>0, <1>1 DEF Asking
  <2>2. ASSUME NEW d \in Conn
        PROVE  /\ <<"Release", d>> \in ToSet(tasks') => pc' = "handle" /\ actives'[d] = {}
               /\ <<"Release", d>> \in Queued' =>
                     conn'[d].status = "DISCONNECTING" /\ (Calls = {} => ~conn'[d].out)
               /\ Calls = {} /\ conn'[d].status = "DISCONNECTED" => ~conn'[d].out
               /\ conn'[d].releases <= 1
    <3>1. CASE d = c
      BY <1>0, <1>1, <1>2, <1>3, <1>6, <3>1 DEF Asking, Up
    <3>2. CASE d # c
      <4>1. /\ <<"Release", d>> \in ToSet(tasks') => <<"Release", d>> \in ToSet(tasks)
            /\ <<"Release", d>> \in Queued' => <<"Release", d>> \in Queued
        BY <1>5, <1>6, <3>2
      <4> QED
        BY <1>0, <1>1, <1>2, <1>3, <3>2, <4>1 DEF Asking, Others, Same
    <3> QED
      BY <3>1, <3>2
  <2> QED
    BY <1>5, <1>6, <2>1, <2>2 DEF Asking
<1>10. Coming'
  <2>1. \A d \in Conn : conn[d].status = "CONNECTING" => conn'[d].status = "CONNECTING"
    BY <1>2 DEF Others, Same, Up
  <2>2. \A d \in Conn :
           /\ <<"Established", d>> \in Queued' => <<"Established", d>> \in Queued
           /\ <<"Established", d>> \in ToSet(tasks') => <<"Established", d>> \in ToSet(tasks)
    BY <1>5, <1>6
  <2>3. accepting.step = "establish" => accepting.conn \in Conn
    BY <1>0 DEF LifeInv, AcceptOK
  <2> QED
    BY <1>0, <1>1, <2>1, <2>2, <2>3 DEF Coming
<1> QED
  BY <1>7, <1>8, <1>9, <1>10 DEF Graced

(* A task of the batch. *)
LEMMA GraceRuns ==
    ASSUME GraceHere, program' = program, NEW c \in Conn, NEW op, Task(op, c),
           op \in {"Established", "Send", "Release"},
           tasks' = tasks, late' = late, accepting' = accepting, Others(c),
           ~conn'[c].releaseOrNot, peer'[c] \notin {"reset", "dead"},
           op = "Established" => /\ conn[c].status = "CONNECTING"
                                 /\ conn'[c].status = "CONNECTED"
                                 /\ conn'[c].out = conn[c].out
                                 /\ conn'[c].releases = conn[c].releases,
           op = "Send" => /\ conn'[c].status = conn[c].status
                          /\ conn'[c].releases = conn[c].releases,
           op = "Release" => /\ conn[c].status = "DISCONNECTING"
                             /\ conn'[c].status = "DISCONNECTED"
                             /\ conn'[c].out = conn[c].out
                             /\ conn[c].releases = 0 /\ conn'[c].releases = 1
    PROVE  Graced'
<1>0. LifeInv /\ Steady /\ Few /\ Asking /\ Coming
  BY DEF GraceHere
<1>1. /\ <<op, c>> \in Queued
      /\ pending \in Seq(Op \X Conn) /\ pending # <<>>
      /\ ToSet(pending) = {<<op, c>>} \cup ToSet(pending')
      /\ actives' = actives /\ tickActive' = tickActive
  BY <1>0, Taken
<1>2. pc = "run" /\ Head(pending) = <<op, c>> /\ pending' = Tail(pending)
  BY DEF Task
<1>3. /\ Once(pending')
      /\ op \in {"Established", "Release"} => <<op, c>> \notin ToSet(pending')
  <2>1. /\ Once(Tail(pending))
        /\ Head(pending)[1] \in {"Established", "Release"} =>
              Head(pending) \notin ToSet(Tail(pending))
    BY <1>0, <1>1, OnceTail DEF Asking
  <2> QED
    BY <1>2, <2>1
<1>4. /\ \A d \in Conn : <<"Release", d>> \notin ToSet(tasks)
      /\ op = "Established" => <<op, c>> \notin ToSet(tasks)
  BY <1>0, <1>1, <1>2 DEF Asking, Coming
<1>5. /\ Queued' \subseteq Queued /\ Calls' = Calls
      /\ op \in {"Established", "Release"} => <<op, c>> \notin Queued'
  BY <1>1, <1>3, <1>4 DEF Queued, Calls
<1>6. op = "Send" => Calls # {}
  BY <1>0, <1>1 DEF Few
<1>7. Steady'
  BY <1>0, <1>1 DEF Steady, Others, Same
<1>8. Few'
  BY <1>0, <1>5 DEF Few
<1>9. Asking'
  <2>1. Once(tasks)'
    BY <1>0 DEF Asking
  <2>2. ASSUME NEW d \in Conn
        PROVE  /\ <<"Release", d>> \in Queued' =>
                     conn'[d].status = "DISCONNECTING" /\ (Calls = {} => ~conn'[d].out)
               /\ Calls = {} /\ conn'[d].status = "DISCONNECTED" => ~conn'[d].out
               /\ conn'[d].releases <= 1
    <3>1. CASE d # c
      BY <1>0, <1>5, <3>1 DEF Asking, Others, Same
    <3>2. CASE d = c /\ op = "Established"
      BY <1>0, <1>5, <3>2 DEF Asking
    <3>3. CASE d = c /\ op = "Send"
      BY <1>0, <1>5, <1>6, <3>3 DEF Asking
    <3>4. CASE d = c /\ op = "Release"
      BY <1>0, <1>1, <1>5, <3>4 DEF Asking
    <3> QED
      BY <3>1, <3>2, <3>3, <3>4
  <2> QED
    BY <1>3, <1>4, <1>5, <2>1, <2>2 DEF Asking
<1>10. Coming'
  <2>1. \A d \in Conn \ {c} : conn'[d].status = conn[d].status
    BY DEF Others, Same
  <2>2. accepting.step = "establish" => accepting.conn \in Conn
    BY <1>0 DEF LifeInv, AcceptOK
  <2>3. accepting.step = "establish" => conn'[accepting.conn].status = "CONNECTING"
    BY <1>0, <1>1, <2>1, <2>2 DEF Coming
  <2>4. \A d \in Conn : <<"Established", d>> \in Queued' =>
           /\ <<"Established", d>> \in Queued
           /\ conn'[d].status = "CONNECTING"
           /\ <<"Established", d>> \in ToSet(pending') => <<"Established", d>> \in ToSet(pending)
    BY <1>0, <1>1, <1>5, <2>1 DEF Coming
  <2> QED
    BY <1>0, <2>3, <2>4 DEF Coming
<1> QED
  BY <1>7, <1>8, <1>9, <1>10 DEF Graced

LEMMA GracePolls ==
    ASSUME GraceHere, program' = program, NEW w, Monitor(w)
    PROVE  Graced'
<1>0. LifeInv /\ FoundInv /\ ~ShutByOthers /\ BodyOK /\ Steady /\ Few /\ Asking /\ Coming
  BY NeverShut, Bodied DEF GraceHere
<1>1. /\ actives' = [c \in Conn |->
                       UNION {Reported(fd, w) : fd \in {d \in Fd : channels[d] = c}}]
      /\ tickActive' = (late > 0) /\ late' = late
      /\ pc = "monitor" /\ pc' = "handle" /\ tasks' = tasks /\ pending' = pending
      /\ conn' = conn /\ peer' = peer
      /\ accepting' = accepting \/ accepting'.step = "ready"
  BY DEF Monitor, timerVars, kernelVars, Idle
<1>2. Queued' = Queued /\ Calls' = Calls
  BY <1>1 DEF Queued, Calls
<1>3. \A fd \in Fd : fd \in registered => file[fd] \in Conn
  <2> SUFFICES ASSUME NEW fd \in Fd, fd \in registered PROVE file[fd] \in Conn
    OBVIOUS
  <2>1. channels[fd] \in Conn /\ conn[channels[fd]].fd = fd /\ conn[channels[fd]].status \in Up
    BY <1>0 DEF FoundInv, TablesOK, BodyOK
  <2>2. file[fd] = channels[fd]
    BY <1>0, <2>1 DEF FoundInv, OwnerOK, Up
  <2> QED
    BY <2>1, <2>2
<1>4. \A fd \in Fd : Reported(fd, w) \cap {"ERR", "HUP"} = {}
  BY <1>0, <1>3 DEF Reported, Ready, Steady
<1>5. Steady'
  <2>0. late = 0 /\ ~(0 > 0)
    BY <1>0 DEF Steady
  <2>1. ~tickActive' /\ late' = 0
    <3>1. tickActive' = (late > 0)
      BY <1>1
    <3>2. ~(late > 0) /\ late' = 0
      BY <1>1, <2>0
    <3> QED
      BY <3>1, <3>2
  <2>2. \A c \in Conn : actives'[c] \cap {"ERR", "HUP"} = {}
    <3> SUFFICES ASSUME NEW c \in Conn, NEW e \in actives'[c], e \in {"ERR", "HUP"}
                 PROVE  FALSE
      OBVIOUS
    <3>1. actives'[c] = UNION {Reported(fd, w) : fd \in {d \in Fd : channels[d] = c}}
      BY <1>1
    <3>2. PICK fd \in Fd : e \in Reported(fd, w)
      BY <3>1
    <3> QED
      BY <1>4, <3>2
  <2> QED
    BY <1>0, <1>1, <2>1, <2>2 DEF Steady
<1>6. Few'
  BY <1>0, <1>2 DEF Few
<1>7. Asking'
  BY <1>0, <1>1, <1>2 DEF Asking
<1>8. Coming'
  BY <1>0, <1>1, <1>2 DEF Coming
<1> QED
  BY <1>5, <1>6, <1>7, <1>8 DEF Graced

LEMMA GraceSwaps ==
    ASSUME GraceHere, program' = program, RunTasks
    PROVE  Graced'
<1>0. LifeInv /\ Steady /\ Few /\ Asking /\ Coming
  BY DEF GraceHere
<1>1. /\ pc = "handle" /\ pending' = tasks /\ tasks' = <<>>
      /\ actives' = actives /\ tickActive' = tickActive /\ late' = late
      /\ conn' = conn /\ peer' = peer
      /\ accepting' = accepting \/ accepting'.step = "idle"
  BY DEF RunTasks, timerVars, kernelVars, Idle
<1>2. pending = <<>> /\ ToSet(<<>>) = {}
  BY <1>0, <1>1, EmptySet DEF LifeInv, PhaseOK
<1>3. Queued' = Queued /\ Calls' = Calls
  BY <1>1, <1>2 DEF Queued, Calls
<1>4. Once(<<>>)
  BY DEF Once
<1>5. Steady'
  BY <1>0, <1>1 DEF Steady
<1>6. Few'
  BY <1>0, <1>3 DEF Few
<1>7. Asking'
  BY <1>0, <1>1, <1>2, <1>3, <1>4 DEF Asking
<1>8. Coming'
  BY <1>0, <1>1, <1>2, <1>3 DEF Coming
<1> QED
  BY <1>5, <1>6, <1>7, <1>8 DEF Graced

(* Without a worker the acceptor establishes the connection itself. *)
LEMMA GraceEstablishes ==
    ASSUME GraceHere, program' = program, Established, ~Workers
    PROVE  Graced' /\ fault' = "none"
<1> DEFINE c == accepting.conn
<1>0. LifeInv /\ FoundInv /\ ~ShutByOthers /\ Steady /\ Few /\ Asking /\ Coming
  BY NeverShut DEF GraceHere
<1>1. /\ accepting.step = "establish" /\ accepting'.step = "insert"
      /\ End(CareRead([Begin(c) EXCEPT !.k.status = "CONNECTED"]))
      /\ UNCHANGED <<pc, pending, actives, tickActive, late>>
  BY DEF Established, timerVars, LifeInv, GraceHere, TypeOK
<1>2. /\ c \in Conn /\ Born(c) /\ conn[c].status = "CONNECTING"
      /\ peer[c] \notin {"reset", "dead"} /\ ~conn[c].releaseOrNot
  BY <1>0, <1>1 DEF LifeInv, AcceptOK, Coming, Steady
<1> HIDE DEF c
<1>3. /\ tasks' = tasks /\ fault' = "none"
      /\ conn'[c].status = "CONNECTED" /\ conn'[c].out = conn[c].out
      /\ conn'[c].releases = conn[c].releases
      /\ conn'[c].releaseOrNot = conn[c].releaseOrNot
      /\ peer'[c] = peer[c]
      /\ \A d \in Conn \ {c} : conn'[d] = conn[d] /\ peer'[d] = peer[d]
  BY <1>0, <1>1, <1>2, ComesUp
<1>4. Queued' = Queued /\ Calls' = Calls
  BY <1>1, <1>3 DEF Queued, Calls
<1>5. <<"Established", c>> \notin Queued /\ <<"Release", c>> \notin Queued
  BY <1>0, <1>1, <1>2 DEF Coming, Asking, c
<1>6. Steady'
  BY <1>0, <1>1, <1>2, <1>3 DEF Steady
<1>7. Few'
  BY <1>0, <1>4 DEF Few
<1>8. Asking'
  <2>1. ASSUME NEW d \in Conn
        PROVE  /\ <<"Release", d>> \in Queued =>
                     conn'[d].status = "DISCONNECTING" /\ (Calls = {} => ~conn'[d].out)
               /\ Calls = {} /\ conn'[d].status = "DISCONNECTED" => ~conn'[d].out
               /\ conn'[d].releases <= 1
    <3>1. CASE d = c
      BY <1>0, <1>2, <1>3, <1>5, <3>1 DEF Asking
    <3>2. CASE d # c
      BY <1>0, <1>3, <3>2 DEF Asking
    <3> QED
      BY <3>1, <3>2
  <2> QED
    BY <1>0, <1>1, <1>3, <1>4, <2>1 DEF Asking
<1>9. Coming'
  BY <1>0, <1>1, <1>3, <1>4, <1>5 DEF Coming
<1> QED
  BY <1>3, <1>6, <1>7, <1>8, <1>9 DEF Graced

LEMMA GraceWorks ==
    ASSUME GraceHere, program' = program, WorkerStep
    PROVE  Graced' /\ Lives'
<1>0. /\ LifeInv /\ Graceful /\ Few /\ Lives /\ Calls' = Calls /\ Steady
  BY DEF GraceHere, Calls
<1>a. ASSUME NEW op, NEW c \in Conn, Task(op, c) PROVE op \in {"Established", "Send", "Release"}
  <2>1. <<op, c>> \in Queued
    BY <1>0, <1>a, Taken
  <2> QED
    BY <1>0, <2>1 DEF Few
<1>1. ASSUME NEW w, Monitor(w) PROVE Graced' /\ Lives'
  BY <1>0, <1>1, GracePolls DEF Monitor, Lives, userVars
<1>2. ASSUME NEW c \in Conn, NEW all, HandleEvents(c, all) PROVE Graced' /\ Lives'
  <2>1. fault' = "none" /\ held' = held
    BY <1>2, GracefulEvents DEF HandleEvents, baseVars, userVars
  <2> QED
    BY <1>0, <1>2, <2>1, GraceHandles DEF Lives
<1>3. ~Tick
  BY <1>0 DEF Tick, Steady
<1>4. CASE RunTasks
  BY <1>0, <1>4, GraceSwaps DEF RunTasks, Lives, userVars
<1>5. ASSUME NEW c \in Conn, CalledInLoop(c) PROVE Graced' /\ Lives'
  <2>1. /\ Task("Send", c) /\ Calls # {} /\ Others(c) /\ tasks' = tasks
        /\ conn'[c].status = conn[c].status /\ conn'[c].releases = conn[c].releases
        /\ ~conn'[c].releaseOrNot /\ peer'[c] \notin {"reset", "dead"}
    BY <1>5, GracefulCalls
  <2>2. late' = late /\ accepting' = accepting
    BY <1>5 DEF CalledInLoop, timerVars, baseVars
  <2>3. Graced'
    BY <2>1, <2>2, GraceRuns
  <2> QED
    BY <1>0, <2>1, <2>3 DEF Lives
<1>6. ASSUME NEW c \in Conn, EstablishedInLoop(c) PROVE Graced' /\ Lives'
  <2>1. /\ Task("Established", c) /\ Others(c) /\ tasks' = tasks /\ fault' = "none"
        /\ conn[c].status = "CONNECTING" /\ conn'[c].status = "CONNECTED"
        /\ conn'[c].out = conn[c].out /\ conn'[c].releases = conn[c].releases
        /\ ~conn'[c].releaseOrNot /\ peer'[c] \notin {"reset", "dead"}
    BY <1>6, GracefulEstablished
  <2>2. late' = late /\ accepting' = accepting /\ held' = held
    BY <1>6 DEF EstablishedInLoop, timerVars, baseVars, userVars
  <2>3. Graced'
    BY <2>1, <2>2, GraceRuns
  <2> QED
    BY <1>0, <2>1, <2>2, <2>3 DEF Lives
<1>7. ASSUME NEW c \in Conn, ReleaseInLoop(c) PROVE Graced' /\ Lives'
  <2>1. /\ Task("Release", c) /\ Others(c) /\ tasks' = tasks /\ fault' = fault
        /\ conn[c].status = "DISCONNECTING" /\ conn'[c].status = "DISCONNECTED"
        /\ conn'[c].out = conn[c].out
        /\ conn[c].releases = 0 /\ conn'[c].releases = 1
        /\ ~conn'[c].releaseOrNot /\ peer'[c] \notin {"reset", "dead"}
    BY <1>7, GracefulRelease
  <2>2. late' = late /\ accepting' = accepting /\ held' = held
    BY <1>7 DEF ReleaseInLoop, RemoveConnection, timerVars, baseVars, userVars
  <2>3. Graced'
    BY <2>1, <2>2, GraceRuns
  <2> QED
    BY <1>0, <2>1, <2>2, <2>3 DEF Lives
<1>8. ASSUME NEW c \in Conn
      PROVE  /\ ~EnableInactiveReleaseInLoop(c) /\ ~CancelInactiveReleaseInLoop(c)
             /\ ~AddTimer(c) /\ ~UpdateTimer(c) /\ ~CancelTimer(c)
  BY <1>a DEF EnableInactiveReleaseInLoop, CancelInactiveReleaseInLoop, AddTimer, UpdateTimer,
     CancelTimer, TimerTask
<1> QED
  BY <1>1, <1>2, <1>3, <1>4, <1>5, <1>6, <1>7, <1>8 DEF WorkerStep

LEMMA GraceOtherwise ==
    ASSUME GraceHere, program' = program, [Next]_vars, ~WorkerStep
    PROVE  Graced' /\ Lives'
<1>0. /\ LifeInv /\ Graceful /\ Few /\ Lives /\ Calls' = Calls /\ Steady /\ Coming
      /\ conn \in [Conn -> Object] /\ peer \in [Conn -> PeerState]
  BY Bodied DEF GraceHere, Calls, BodyOK
<1>a. ASSUME conn' = conn, \A d \in Conn : peer'[d] = peer[d] \/ peer'[d] \notin {"reset", "dead"}
      PROVE  \A d \in Conn : Same(d)
  BY <1>0, <1>a DEF Same, Steady
<1>1. CASE Established /\ ~Workers
  <2>1. held' = held
    BY <1>1 DEF Established, userVars
  <2> QED
    BY <1>0, <1>1, <2>1, GraceEstablishes DEF Lives
<1>2. CASE Established /\ Workers
  <2>1. /\ accepting.step = "establish" /\ accepting'.step = "insert"
        /\ tasks' = Append(tasks, <<"Established", accepting.conn>>)
        /\ conn' = conn /\ peer' = peer /\ fault' = fault /\ held' = held
        /\ tickActive' = tickActive /\ late' = late
        /\ UNCHANGED <<pending, pc, actives>>
    BY <1>0, <1>2 DEF Established, kernelVars, timerVars, userVars, LifeInv, TypeOK
  <2>2. accepting.conn \in Conn
    BY <1>0, <2>1 DEF LifeInv, AcceptOK
  <2>3. \A d \in Conn : Same(d)
    BY <1>a, <2>1
  <2>4. Graced'
    BY <2>1, <2>2, <2>3, GracePushes
  <2> QED
    BY <1>0, <2>1, <2>4 DEF Lives
<1>3. CASE InsertConnection \/ RemoveConnectionInLoop
  <2>1. /\ conn' = conn /\ peer' = peer /\ fault' = fault /\ held' = held
        /\ tickActive' = tickActive /\ late' = late
        /\ UNCHANGED <<tasks, pending, pc, actives>>
        /\ accepting'.step = "establish" => accepting' = accepting
    BY <1>3 DEF InsertConnection, RemoveConnectionInLoop, notBaseVars, kernelVars, timerVars,
       userVars, Idle
  <2>2. \A d \in Conn : Same(d)
    BY <1>a, <2>1
  <2>3. Graced'
    BY <2>1, <2>2, GraceRests
  <2> QED
    BY <1>0, <2>1, <2>3 DEF Lives
<1>4. ASSUME NEW c \in Conn, NEW fd \in Fd, NewConnection(c, fd) PROVE Graced' /\ Lives'
  <2>1. /\ fault' = fault /\ held' = held /\ tasks' = tasks
        /\ tickActive' = tickActive /\ late' = late
        /\ UNCHANGED <<tasks, pending, pc, actives>>
        /\ accepting'.conn = c
    BY <1>0, <1>4 DEF NewConnection, notBaseVars, timerVars, userVars, Graceful
  <2>2. /\ conn[c].status = "CONNECTING" /\ ~Born(c)
        /\ conn'[c].status = "CONNECTING" /\ conn'[c].out = conn[c].out
        /\ conn'[c].releases = conn[c].releases /\ peer'[c] = "open"
        /\ \A d \in Conn \ {c} : conn'[d] = conn[d] /\ peer'[d] = peer[d]
    BY <1>0, <1>4, Arrives
  <2>3. conn'[c].releaseOrNot = conn[c].releaseOrNot
    <3>1. conn' = [conn EXCEPT ![c].fd = fd, ![c].releaseOrNot = Timers /\ ~Workers]
      BY <1>4 DEF NewConnection
    <3>2. PICK no \in BOOLEAN : no = (Timers /\ ~Workers)
      OBVIOUS
    <3>3. ~no
      BY <1>0, <3>2 DEF Graceful
    <3>4. conn' = [conn EXCEPT ![c].fd = fd, ![c].releaseOrNot = no]
      BY <3>1, <3>2
    <3>5. ~conn'[c].releaseOrNot
      BY <1>0, <3>3, <3>4 DEF Object
    <3>6. conn'[c].releaseOrNot \in BOOLEAN /\ conn[c].releaseOrNot \in BOOLEAN
      BY <1>0, <3>4 DEF Object
    <3> QED
      BY <1>0, <3>5, <3>6 DEF Steady
  <2>4. \A d \in Conn : Same(d)
    BY <1>0, <2>2, <2>3 DEF Same, Steady
  <2>5. Graced'
    BY <2>1, <2>2, <2>4, GraceRests
  <2> QED
    BY <1>0, <2>1, <2>5 DEF Lives
<1>5. ASSUME NEW c \in Conn, Hold(c) \/ Drop(c) PROVE Graced' /\ Lives'
  <2>1. /\ conn' = conn /\ peer' = peer /\ fault' = fault
        /\ tickActive' = tickActive /\ late' = late /\ accepting' = accepting
        /\ UNCHANGED <<tasks, pending, pc, actives>>
        /\ Calls # {} \/ held # {}
    BY <1>5 DEF Hold, Drop, notUserVars, kernelVars, timerVars
  <2>2. \A d \in Conn : Same(d)
    BY <1>a, <2>1
  <2>3. Graced'
    BY <2>1, <2>2, GraceRests
  <2> QED
    BY <1>0, <2>1, <2>3 DEF Lives
<1>6. ASSUME NEW c \in Conn, NEW op \in Calls, Call(c, op) PROVE Graced' /\ Lives'
  <2>1. /\ conn' = conn /\ peer' = peer
        /\ tickActive' = tickActive /\ late' = late /\ accepting' = accepting
        /\ UNCHANGED <<pending, pc, actives>>
        /\ tasks' = Append(tasks, <<op, c>>)
    BY <1>6 DEF Call, notUserVars, kernelVars, timerVars
  <2>2. \A d \in Conn : Same(d)
    BY <1>a, <2>1
  <2>3. op = "Send" /\ Calls # {}
    BY <1>0 DEF Graceful
  <2>4. Graced'
    BY <2>1, <2>2, <2>3, GracePushes
  <2> QED
    BY <1>0, <2>3, <2>4 DEF Lives
<1>7. CASE ClientStep
  <2>1. PICK c \in Conn : ClientSends(c) \/ ClientShutsDown(c) \/ ClientResets(c)
    BY <1>7 DEF ClientStep
  <2>2. /\ conn' = conn /\ fault' = fault /\ held' = held
        /\ tickActive' = tickActive /\ late' = late /\ accepting' = accepting
        /\ UNCHANGED <<tasks, pending, pc, actives>>
    BY <2>1 DEF ClientSends, ClientShutsDown, ClientResets, notClientVars, timerVars, loopVars,
       baseVars, userVars
  <2>3. ~Resets
    BY <1>0 DEF Graceful
  <2>4. \A d \in Conn : peer'[d] = peer[d] \/ peer'[d] \notin {"reset", "dead"}
    BY <1>0, <2>1, <2>3 DEF ClientSends, ClientShutsDown, ClientResets
  <2>5. \A d \in Conn : Same(d)
    BY <1>a, <2>2, <2>4
  <2>6. Graced'
    BY <2>2, <2>5, GraceRests
  <2> QED
    BY <1>0, <2>2, <2>6 DEF Lives
<1>8. ~Second
  BY <1>0 DEF Second, Graceful
<1>9. CASE UNCHANGED vars
  <2>1. /\ conn' = conn /\ peer' = peer /\ fault' = fault /\ held' = held
        /\ tickActive' = tickActive /\ late' = late /\ accepting' = accepting
        /\ UNCHANGED <<tasks, pending, pc, actives>>
    BY <1>9 DEF vars, kernelVars, timerVars, loopVars, baseVars, userVars
  <2>2. \A d \in Conn : Same(d)
    BY <1>a, <2>1
  <2>3. Graced'
    BY <2>1, <2>2, GraceRests
  <2> QED
    BY <1>0, <2>1, <2>3 DEF Lives
<1> QED
  BY <1>1, <1>2, <1>3, <1>4, <1>5, <1>6, <1>7, <1>8, <1>9 DEF Next, BaseStep, UserStep

LEMMA GraceStep ==
    LifeInv /\ FoundInv /\ KeptInv /\ OwedInv /\ GraceInv /\ [Next]_vars => GraceInv'
<1> SUFFICES ASSUME LifeInv, FoundInv, KeptInv, OwedInv, GraceInv, [Next]_vars, Graceful'
             PROVE  (Steady /\ Few /\ Asking /\ Coming /\ Lives)'
  BY DEF GraceInv
<1>1. program' = program
  BY ProgramKept
<1>2. Graceful
  BY <1>1 DEF Graceful, Timers, Resets, Calls, Silent, Empty
<1>3. GraceHere
  BY <1>2 DEF GraceHere, GraceInv
<1> QED
  BY <1>1, <1>3, GraceWorks, GraceOtherwise DEF Graced

LEMMA GraceInit == Init => GraceInv
<1> SUFFICES ASSUME Init PROVE Steady /\ Few /\ Asking /\ Coming /\ Lives
  BY DEF GraceInv
<1>1. Queued = {} /\ Once(<<>>)
  BY EmptySet DEF Init, Queued, Once
<1>2. tasks = <<>> /\ pending = <<>> /\ ToSet(<<>>) = {}
  BY EmptySet DEF Init
<1>3. Steady
  BY DEF Init, Steady
<1>4. Few /\ Lives
  BY <1>1 DEF Init, Few, Lives
<1>5. Asking
  BY <1>1, <1>2 DEF Init, Asking
<1>6. Coming
  BY <1>1 DEF Init, Coming, Idle
<1> QED
  BY <1>3, <1>4, <1>5, <1>6
-----------------------------------------------------------------------------
(***************************************************************************)
(* The queue of the loop as one line: the rest of the batch, and the tasks *)
(* behind it.                                                              *)
(***************************************************************************)
Line == pending \o tasks

Has(op, c) == <<op, c>> \in ToSet(Line)

(* No e stands behind an f; nor behind another e, if they are the same.    *)
Before(q, e, f) == \A i, j \in DOMAIN q : q[i] = e /\ q[j] = f => i <= j

First(op, other, c) == Before(Line, <<op, c>>, <<other, c>>)

(* The line of c after a step that took what is in G from its head and put *)
(* p at its end.                                                           *)
Moved(c, G, p) ==
    \A e \in Op :
       /\ Has(e, c)' => Has(e, c) \/ <<e, c>> \in ToSet(p)
       /\ Has(e, c) /\ e \notin G => Has(e, c)'
       /\ <<e, c>> \in ToSet(p) => Has(e, c)'
       /\ \A f \in Op : First(e, f, c) =>
             /\ (<<e, c>> \in ToSet(p) => ~Has(f, c) /\ Before(p, <<e, c>>, <<f, c>>))
                   => First(e, f, c)'
             /\ f \in G /\ <<e, c>> \notin ToSet(p) => ~Has(e, c)'

LEMMA JoinedBefore ==
    ASSUME NEW S, NEW q \in Seq(S), NEW p \in Seq(S), NEW e, NEW f, Before(q, e, f),
           e \in ToSet(p) => f \notin ToSet(q) /\ Before(p, e, f)
    PROVE  Before(q \o p, e, f)
<1> DEFINE r == q \o p
<1>1. /\ DOMAIN r = 1..(Len(q) + Len(p))
      /\ \A i \in 1..Len(q) : r[i] = q[i]
      /\ \A i \in DOMAIN r : i \notin 1..Len(q) =>
            r[i] = p[i - Len(q)] /\ i - Len(q) \in 1..Len(p)
      /\ DOMAIN p = 1..Len(p) /\ DOMAIN q = 1..Len(q)
      /\ Len(p) \in Nat /\ Len(q) \in Nat
  OBVIOUS
<1> HIDE DEF r
<1> SUFFICES ASSUME NEW i \in DOMAIN r, NEW j \in DOMAIN r, r[i] = e, r[j] = f
             PROVE  i <= j
  BY DEF Before, r
<1>2. CASE i \in 1..Len(q) /\ j \in 1..Len(q)
  BY <1>1, <1>2 DEF Before
<1>3. CASE i \in 1..Len(q) /\ j \notin 1..Len(q)
  BY <1>1, <1>3
<1>4. CASE i \notin 1..Len(q)
  <2>1. i - Len(q) \in DOMAIN p /\ p[i - Len(q)] = e
    BY <1>1, <1>4
  <2>2. e \in ToSet(p)
    BY <2>1 DEF ToSet
  <2>3. j \notin 1..Len(q)
    BY <1>1, <2>2 DEF ToSet
  <2>4. j - Len(q) \in DOMAIN p /\ p[j - Len(q)] = f
    BY <1>1, <2>3
  <2>5. i - Len(q) <= j - Len(q)
    BY <2>1, <2>2, <2>4 DEF Before
  <2> QED
    BY <1>1, <2>5
<1> QED
  BY <1>2, <1>3, <1>4

LEMMA TailBefore ==
    ASSUME NEW S, NEW q \in Seq(S), q # <<>>, NEW e, NEW f, Before(q, e, f)
    PROVE  /\ Before(Tail(q), e, f)
           /\ Head(q) = f => e \notin ToSet(Tail(q))
<1>1. /\ Head(q) = q[1] /\ DOMAIN Tail(q) = 1..(Len(q) - 1) /\ DOMAIN q = 1..Len(q)
      /\ Len(q) \in Nat \ {0}
      /\ \A i \in 1..(Len(q) - 1) : Tail(q)[i] = q[i + 1]
  OBVIOUS
<1>2. Before(Tail(q), e, f)
  <2> SUFFICES ASSUME NEW i \in 1..(Len(q) - 1), NEW j \in 1..(Len(q) - 1),
                      q[i + 1] = e, q[j + 1] = f
               PROVE  i <= j
    BY <1>1 DEF Before
  <2>1. i + 1 \in DOMAIN q /\ j + 1 \in DOMAIN q
    BY <1>1
  <2>2. i + 1 <= j + 1
    BY <2>1 DEF Before
  <2> QED
    BY <1>1, <2>2
<1>3. ASSUME Head(q) = f, e \in ToSet(Tail(q)) PROVE FALSE
  <2>1. PICK i \in 1..(Len(q) - 1) : e = q[i + 1]
    BY <1>1, <1>3 DEF ToSet
  <2>2. 1 \in DOMAIN q /\ i + 1 \in DOMAIN q
    BY <1>1
  <2>3. i + 1 <= 1
    BY <1>1, <1>3, <2>1, <2>2 DEF Before
  <2> QED
    BY <1>1, <2>3
<1> QED
  BY <1>2, <1>3

LEMMA LineOfTasks ==
    ASSUME LifeInv
    PROVE  /\ Line \in Seq(Op \X Conn) /\ ToSet(Line) = Queued
           /\ pc = "run" => Line # <<>> /\ Head(Line) = Head(pending)
                            /\ Tail(Line) = Tail(pending) \o tasks
<1>1. tasks \in Seq(Op \X Conn) /\ pending \in Seq(Op \X Conn)
  BY DEF LifeInv, TypeOK
<1>2. Line \in Seq(Op \X Conn) /\ ToSet(Line) = Queued
  BY <1>1, JoinedSet DEF Line, Queued
<1>3. ASSUME pc = "run"
      PROVE  Line # <<>> /\ Head(Line) = Head(pending) /\ Tail(Line) = Tail(pending) \o tasks
  <2>1. pending # <<>>
    BY <1>3 DEF LifeInv, PhaseOK
  <2> QED
    BY <1>1, <2>1 DEF Line
<1> QED
  BY <1>2, <1>3

(* A step that only pushes, or moves the tasks into the batch. *)
LEMMA LineGrows ==
    ASSUME LifeInv, NEW p \in Seq(Op \X Conn), Line' = Line \o p, NEW c \in Conn
    PROVE  Moved(c, {}, p)
<1>1. Line \in Seq(Op \X Conn)
  BY LineOfTasks
<1>2. ToSet(Line') = ToSet(Line) \cup ToSet(p)
  BY <1>1, JoinedSet
<1>3. ASSUME NEW e \in Op, NEW f \in Op, First(e, f, c),
             <<e, c>> \in ToSet(p) => ~Has(f, c) /\ Before(p, <<e, c>>, <<f, c>>)
      PROVE  First(e, f, c)'
  <2>1. Before(Line \o p, <<e, c>>, <<f, c>>)
    BY <1>1, <1>3, JoinedBefore DEF First, Has
  <2> QED
    BY <2>1 DEF First
<1> QED
  BY <1>2, <1>3 DEF Moved, Has

(* A task: it leaves the line, and p is pushed. *)
LEMMA LineTurns ==
    ASSUME LifeInv, NEW op, NEW d \in Conn, Task(op, d), NEW p \in Seq(Op \X Conn),
           tasks' = tasks \o p, NEW c \in Conn
    PROVE  Moved(c, IF c = d THEN {op} ELSE {}, p)
<1>1. /\ Line \in Seq(Op \X Conn) /\ Line # <<>> /\ Head(Line) = <<op, d>>
      /\ Tail(Line) = Tail(pending) \o tasks
      /\ tasks \in Seq(Op \X Conn) /\ Tail(pending) \in Seq(Op \X Conn)
  BY LineOfTasks, Taken DEF Task, LifeInv, TypeOK
<1> DEFINE T == Tail(Line)
<1>2. Line' = T \o p
  <2>1. Line' = pending' \o tasks' /\ pending' = Tail(pending)
    BY DEF Line, Task
  <2>2. Tail(pending) \o (tasks \o p) = (Tail(pending) \o tasks) \o p
    <3> DEFINE a == Tail(pending)
               S == Op \X Conn
    <3>1. a \in Seq(S) /\ tasks \in Seq(S) /\ p \in Seq(S)
      BY <1>1
    <3> HIDE DEF a, S
    <3>2. (a \o tasks) \o p = a \o (tasks \o p)
      BY <3>1, ConcatAssociative
    <3> QED
      BY <3>2 DEF a
  <2> QED
    BY <1>1, <2>1, <2>2
<1>3. T \in Seq(Op \X Conn) /\ ToSet(Line) = {<<op, d>>} \cup ToSet(T)
  BY <1>1, TailSet
<1> HIDE DEF T
<1>4. ToSet(Line') = ToSet(T) \cup ToSet(p)
  BY <1>2, <1>3, JoinedSet
<1>5. ASSUME NEW e \in Op, NEW f \in Op, First(e, f, c)
      PROVE  Before(T, <<e, c>>, <<f, c>>) /\ (<<op, d>> = <<f, c>> => <<e, c>> \notin ToSet(T))
  BY <1>1, <1>5, TailBefore DEF First, T
<1>6. ASSUME NEW e \in Op, NEW f \in Op, First(e, f, c),
             <<e, c>> \in ToSet(p) => ~Has(f, c) /\ Before(p, <<e, c>>, <<f, c>>)
      PROVE  First(e, f, c)'
  <2>1. Before(T, <<e, c>>, <<f, c>>)
    BY <1>5, <1>6
  <2>2. <<e, c>> \in ToSet(p) => <<f, c>> \notin ToSet(T) /\ Before(p, <<e, c>>, <<f, c>>)
    BY <1>3, <1>6 DEF Has
  <2>3. Before(T \o p, <<e, c>>, <<f, c>>)
    BY <1>3, <2>1, <2>2, JoinedBefore
  <2> QED
    BY <1>2, <2>3 DEF First
<1>7. ASSUME NEW e \in Op, NEW f \in Op, First(e, f, c), f \in IF c = d THEN {op} ELSE {},
             <<e, c>> \notin ToSet(p)
      PROVE  ~Has(e, c)'
  BY <1>4, <1>5, <1>7 DEF Has
<1>8. ASSUME NEW e \in Op
      PROVE  /\ Has(e, c)' => Has(e, c) \/ <<e, c>> \in ToSet(p)
             /\ Has(e, c) /\ e \notin (IF c = d THEN {op} ELSE {}) => Has(e, c)'
             /\ <<e, c>> \in ToSet(p) => Has(e, c)'
  BY <1>3, <1>4 DEF Has
<1> QED
  BY <1>6, <1>7, <1>8 DEF Moved
(* What a connection sees of the loop's queue and of its own timer. *)
InTasks(op, c) == <<op, c>> \in ToSet(tasks)
InBatch(op, c) == <<op, c>> \in ToSet(pending)

SameTimer(c) == left'[c] = left[c] /\ valid'[c] = valid[c]

(* A step of the others. *)
Aside(c) ==
    /\ \A op \in Op : /\ InTasks(op, c)' <=> InTasks(op, c)
                      /\ InBatch(op, c)' <=> InBatch(op, c)
    /\ \A e \in Op, f \in Op : First(e, f, c) => First(e, f, c)'
    /\ SameTimer(c)
    /\ conn'[c] = conn[c]

(* p is pushed; and p is pushed by a task of c. *)
PushOf(c, p) ==
    /\ p \in Seq(Op \X Conn)
    /\ tasks' = tasks \o p /\ pending' = pending
    /\ Moved(c, {}, p)
    /\ \A op \in Op : /\ InTasks(op, c)' <=> InTasks(op, c) \/ <<op, c>> \in ToSet(p)
                      /\ InBatch(op, c)' <=> InBatch(op, c)

TaskOf(op, c, p) ==
    /\ p \in Seq(Op \X Conn)
    /\ Task(op, c)
    /\ tasks' = tasks \o p
    /\ Moved(c, {op}, p)
    /\ \A e \in Op : /\ InTasks(e, c)' <=> InTasks(e, c) \/ <<e, c>> \in ToSet(p)
                     /\ InBatch(e, c) <=> InBatch(e, c)' \/ e = op
    /\ \A d \in Conn \ {c} : Aside(d)

LEMMA HasQueued ==
    ASSUME LifeInv, NEW op, NEW c
    PROVE  Has(op, c) <=> InTasks(op, c) \/ InBatch(op, c)
  BY LineOfTasks DEF Has, Queued, InTasks, InBatch

LEMMA QueueTypes ==
    ASSUME LifeInv
    PROVE  tasks \in Seq(Op \X Conn) /\ pending \in Seq(Op \X Conn)
  BY DEF LifeInv, TypeOK

LEMMA PushesFor ==
    ASSUME LifeInv, NEW p \in Seq(Op \X Conn), tasks' = tasks \o p, pending' = pending,
           NEW c \in Conn
    PROVE  PushOf(c, p)
<1>1. ToSet(tasks') = ToSet(tasks) \cup ToSet(p)
  BY QueueTypes, JoinedSet
<1>2. Line' = Line \o p
  <2> DEFINE S == Op \X Conn
  <2>1. pending \in Seq(S) /\ tasks \in Seq(S) /\ p \in Seq(S)
    BY QueueTypes
  <2> HIDE DEF S
  <2>2. (pending \o tasks) \o p = pending \o (tasks \o p)
    BY <2>1, ConcatAssociative
  <2> QED
    BY <2>2 DEF Line
<1>3. Moved(c, {}, p)
  BY <1>2, LineGrows
<1> QED
  BY <1>1, <1>3 DEF PushOf, InTasks, InBatch

LEMMA PushAside ==
    ASSUME LifeInv, NEW p \in Seq(Op \X Conn), tasks' = tasks \o p, pending' = pending,
           NEW d \in Conn, \A t \in ToSet(p) : t[2] # d,
           SameTimer(d), conn'[d] = conn[d]
    PROVE  Aside(d)
<1>1. PushOf(d, p)
  BY PushesFor
<1>2. \A op \in Op : <<op, d>> \notin ToSet(p)
  <2> SUFFICES ASSUME NEW op \in Op, <<op, d>> \in ToSet(p) PROVE FALSE
    OBVIOUS
  <2>1. <<op, d>>[2] # d
    OBVIOUS
  <2> QED
    BY <2>1
<1> QED
  BY <1>1, <1>2 DEF PushOf, Moved, Aside

LEMMA TaskAside ==
    ASSUME LifeInv, NEW c \in Conn, NEW op, Task(op, c),
           NEW p \in Seq(Op \X Conn), tasks' = tasks \o p,
           NEW d \in Conn \ {c}, \A t \in ToSet(p) : t[2] = c,
           SameTimer(d), conn'[d] = conn[d]
    PROVE  Aside(d)
<1>1. ToSet(tasks') = ToSet(tasks) \cup ToSet(p)
  BY QueueTypes, JoinedSet
<1>2. ToSet(pending) = {<<op, c>>} \cup ToSet(pending')
  BY Taken
<1>3. Moved(d, {}, p)
  <2>1. Moved(d, IF d = c THEN {op} ELSE {}, p)
    BY LineTurns
  <2> QED
    BY <2>1
<1>4. \A e \in Op : <<e, d>> \notin ToSet(p)
  <2> SUFFICES ASSUME NEW e \in Op, <<e, d>> \in ToSet(p) PROVE FALSE
    OBVIOUS
  <2>1. <<e, d>>[2] = c
    OBVIOUS
  <2> QED
    BY <2>1
<1> QED
  BY <1>1, <1>2, <1>3, <1>4 DEF Moved, Aside, InTasks, InBatch

LEMMA TasksFor ==
    ASSUME LifeInv, NEW c \in Conn, NEW op, Task(op, c),
           NEW p \in Seq(Op \X Conn), tasks' = tasks \o p, \A t \in ToSet(p) : t[2] = c,
           \A d \in Conn \ {c} : SameTimer(d) /\ conn'[d] = conn[d]
    PROVE  TaskOf(op, c, p)
<1>1. ToSet(tasks') = ToSet(tasks) \cup ToSet(p)
  BY QueueTypes, JoinedSet
<1>2. ToSet(pending) = {<<op, c>>} \cup ToSet(pending')
  BY Taken
<1>3. Moved(c, {op}, p)
  <2>1. Moved(c, IF c = c THEN {op} ELSE {}, p)
    BY LineTurns
  <2> QED
    BY <2>1
<1>4. \A d \in Conn \ {c} : Aside(d)
  BY TaskAside
<1> QED
  BY <1>1, <1>2, <1>3, <1>4 DEF TaskOf, InTasks, InBatch

(* One task, or none, is pushed. *)
LEMMA OnePush ==
    ASSUME NEW op \in Op, NEW c \in Conn
    PROVE  /\ <<<<op, c>>>> \in Seq(Op \X Conn) /\ ToSet(<<<<op, c>>>>) = {<<op, c>>}
           /\ \A t \in ToSet(<<<<op, c>>>>) : t[2] = c
           /\ \A e, f : Before(<<<<op, c>>>>, e, f)
<1> DEFINE p == <<<<op, c>>>>
<1>1. p \in Seq(Op \X Conn) /\ DOMAIN p = {1} /\ p[1] = <<op, c>>
  OBVIOUS
<1> QED
  BY <1>1 DEF ToSet, Before

LEMMA NoPush == /\ <<>> \in Seq(Op \X Conn) /\ ToSet(<<>>) = {}
                /\ \A q \in Seq(Op \X Conn) : q \o <<>> = q
  BY EmptySet

(* The tasks, by what they do to the queue, the connection and its timer,  *)
(* in a step that the process survives.                                    *)
LEMMA EnableMoves ==
    ASSUME LifeInv, Running', NEW c \in Conn, EnableInactiveReleaseInLoop(c)
    PROVE  /\ TaskOf("EnableInactiveRelease", c, <<<<IF left[c] > 0 THEN "Update" ELSE "Add", c>>>>)
           /\ conn'[c].releaseOrNot /\ conn'[c].status = conn[c].status
           /\ SameTimer(c)
<1>1. Task("EnableInactiveRelease", c) /\ UNCHANGED timerVars
  BY DEF EnableInactiveReleaseInLoop
<1>2. ~Freed(c)
  BY DEF EnableInactiveReleaseInLoop, Dangling, Running
<1>3. /\ Quiet
      /\ tasks' = tasks \o <<<<IF left[c] > 0 THEN "Update" ELSE "Add", c>>>>
      /\ conn'[c].releaseOrNot
      /\ \A d \in Conn \ {c} : conn'[d] = conn[d]
  BY <1>2, Enables
<1>4. \A d \in Conn : SameTimer(d)
  BY <1>1 DEF timerVars, SameTimer
<1> DEFINE op == IF left[c] > 0 THEN "Update" ELSE "Add"
           p == <<<<op, c>>>>
<1>5. op \in Op
  BY DEF Op
<1>6. tasks' = tasks \o p
  BY <1>3
<1> HIDE DEF op
<1>7. p \in Seq(Op \X Conn) /\ \A t \in ToSet(p) : t[2] = c
  BY <1>5, OnePush
<1> HIDE DEF p
<1>8. TaskOf("EnableInactiveRelease", c, p)
  BY <1>1, <1>3, <1>4, <1>6, <1>7, TasksFor
<1>9. conn'[c].status = conn[c].status
  BY <1>3 DEF Quiet
<1> QED
  BY <1>3, <1>4, <1>8, <1>9 DEF p, op

LEMMA CancelMoves ==
    ASSUME LifeInv, Running', NEW c \in Conn, CancelInactiveReleaseInLoop(c)
    PROVE  /\ TaskOf("CancelInactiveRelease", c, IF left[c] > 0 THEN <<<<"Cancel", c>>>> ELSE <<>>)
           /\ ~conn'[c].releaseOrNot /\ conn'[c].status = conn[c].status
           /\ SameTimer(c)
<1>1. Task("CancelInactiveRelease", c) /\ UNCHANGED timerVars
  BY DEF CancelInactiveReleaseInLoop
<1>2. ~Freed(c)
  BY DEF CancelInactiveReleaseInLoop, Dangling, Running
<1> DEFINE p == IF left[c] > 0 THEN <<<<"Cancel", c>>>> ELSE <<>>
<1>3. /\ Quiet /\ tasks' = tasks \o p
      /\ ~conn'[c].releaseOrNot
      /\ \A d \in Conn \ {c} : conn'[d] = conn[d]
  BY <1>2, Cancels
<1>4. \A d \in Conn : SameTimer(d)
  BY <1>1 DEF timerVars, SameTimer
<1>5. "Cancel" \in Op
  BY DEF Op
<1>6. p \in Seq(Op \X Conn) /\ \A t \in ToSet(p) : t[2] = c
  BY <1>5, OnePush, NoPush
<1> HIDE DEF p
<1>7. TaskOf("CancelInactiveRelease", c, p)
  BY <1>1, <1>3, <1>4, <1>6, TasksFor
<1>8. conn'[c].status = conn[c].status
  BY <1>3 DEF Quiet
<1> QED
  BY <1>3, <1>4, <1>7, <1>8 DEF p

LEMMA CallMoves ==
    ASSUME LifeInv, Running', NEW c \in Conn, CalledInLoop(c)
    PROVE  \E op \in {"Send", "Shutdown", "SwitchProtocol"}, p \in Seq(Op \X Conn) :
              /\ TaskOf(op, c, p) /\ ToSet(p) \subseteq {<<"Release", c>>}
              /\ op = "Shutdown" => ShutByOthers
              /\ op \in {"Send", "Shutdown"} => conn[c].status # "CONNECTING"
              /\ op # "Shutdown" => p = <<>> /\ conn'[c].status = conn[c].status
              /\ conn'[c].releaseOrNot = conn[c].releaseOrNot
              /\ SameTimer(c)
<1>1. PICK op \in {"Send", "Shutdown", "SwitchProtocol"} :
         /\ Task(op, c) /\ UNCHANGED timerVars
         /\ Freed(c) => Dangling("dangling_task")
         /\ ~Freed(c) /\ op = "Send" => \E some \in BOOLEAN :
                (some \/ Empty) /\ End(SendInLoop(Begin(c), some))
         /\ ~Freed(c) /\ op = "Shutdown" => \E h \in ShutdownInLoop(Begin(c)) : End(h)
         /\ ~Freed(c) /\ op = "SwitchProtocol" => End(UpgradeInLoop(Begin(c)))
  BY DEF CalledInLoop
<1>2. ~Freed(c)
  BY <1>1 DEF Dangling, Running
<1>3. /\ op \in {"Send", "Shutdown"} => conn[c].status # "CONNECTING"
      /\ op = "Shutdown" => ShutByOthers
  BY <1>1, Taken
<1>4. \A d \in Conn : SameTimer(d)
  BY <1>1 DEF timerVars, SameTimer
<1>5. BodyOK /\ Begin(c).k = conn[c] /\ Begin(c).c = c /\ Begin(c).push = <<>>
  BY Bodied, Begun
<1>6. ASSUME op \in {"Send", "Shutdown"}
      PROVE  \E g : /\ End(g) /\ Follows(Begin(c), g)
                    /\ op = "Send" => g.push = <<>> /\ g.k.status = conn[c].status
  <2>1. Runs(Begin(c))
    BY <1>3, <1>6, BeginRuns
  <2>2. CASE op = "Send"
    <3>1. PICK some \in BOOLEAN : (some \/ Empty) /\ End(SendInLoop(Begin(c), some))
      BY <1>1, <1>2, <2>2
    <3> DEFINE g == SendInLoop(Begin(c), some)
    <3>2. Follows(Begin(c), g) /\ Mute(Begin(c), g) /\ g.k.status = Begin(c).k.status
      BY <2>1, <3>1, Sent
    <3>3. End(g)
      BY <3>1
    <3> HIDE DEF g
    <3> QED
      BY <1>5, <2>2, <3>2, <3>3 DEF Mute
  <2>3. CASE op = "Shutdown"
    BY <1>1, <1>2, <1>5, <2>1, <2>3, ShutDown
  <2> QED
    BY <1>6, <2>2, <2>3
<1>7. \E p \in Seq(Op \X Conn) :
         /\ tasks' = tasks \o p /\ ToSet(p) \subseteq {<<"Release", c>>}
         /\ op # "Shutdown" => p = <<>> /\ conn'[c].status = conn[c].status
         /\ conn'[c].releaseOrNot = conn[c].releaseOrNot
         /\ \A d \in Conn \ {c} : conn'[d] = conn[d]
  <2>1. CASE op = "SwitchProtocol"
    <3>1. /\ Quiet /\ tasks' = tasks /\ conn'[c].releaseOrNot = conn[c].releaseOrNot
          /\ \A d \in Conn \ {c} : conn'[d] = conn[d]
      BY <1>1, <1>2, <2>1, Upgrades
    <3> QED
      BY <3>1, NoPush, QueueTypes DEF Quiet
  <2>2. CASE op # "SwitchProtocol"
    <3>1. PICK g : /\ End(g) /\ Follows(Begin(c), g)
                   /\ op = "Send" => g.push = <<>> /\ g.k.status = conn[c].status
      BY <1>6, <2>2
    <3>2. /\ g \in HandlerState /\ g.c = c /\ g.k.releaseOrNot = conn[c].releaseOrNot
          /\ OnlyReleases(Begin(c)) => OnlyReleases(g)
      BY <1>5, <3>1 DEF Follows, Runs
    <3>3. OnlyReleases(g) /\ g.push \in Seq(Pushed \X Conn) /\ Pushed \subseteq Op
      BY <1>5, <3>2 DEF OnlyReleases, HandlerState, Pushed, Op
    <3>4. g.push \in Seq(Op \X Conn) /\ ToSet(g.push) \subseteq {<<"Release", c>>}
      BY <3>2, <3>3 DEF OnlyReleases, ToSet
    <3>5. /\ conn'[c] = g.k /\ tasks' = tasks \o g.push
          /\ \A d \in Conn \ {c} : conn'[d] = conn[d]
      BY <1>5, <3>1, <3>2, Ended
    <3> QED
      BY <2>2, <3>1, <3>2, <3>4, <3>5
  <2> QED
    BY <2>1, <2>2
<1>8. PICK p \in Seq(Op \X Conn) :
         /\ tasks' = tasks \o p /\ ToSet(p) \subseteq {<<"Release", c>>}
         /\ op # "Shutdown" => p = <<>> /\ conn'[c].status = conn[c].status
         /\ conn'[c].releaseOrNot = conn[c].releaseOrNot
         /\ \A d \in Conn \ {c} : conn'[d] = conn[d]
  BY <1>7
<1>9. \A t \in ToSet(p) : t[2] = c
  BY <1>8
<1>10. TaskOf(op, c, p)
  BY <1>1, <1>4, <1>8, <1>9, TasksFor
<1> QED
  BY <1>3, <1>4, <1>8, <1>10

LEMMA EstablishedMoves ==
    ASSUME LifeInv, Running', NEW c \in Conn, EstablishedInLoop(c)
    PROVE  /\ TaskOf("Established", c, <<>>)
           /\ conn[c].status = "CONNECTING" /\ conn'[c].status = "CONNECTED"
           /\ conn'[c].releaseOrNot = conn[c].releaseOrNot
           /\ SameTimer(c)
<1>1. Task("Established", c) /\ UNCHANGED timerVars
  BY DEF EstablishedInLoop
<1>2. ~Freed(c)
  BY DEF EstablishedInLoop, Dangling, Running
<1>3. conn[c].status = "CONNECTING"
  <2> SUFFICES ASSUME conn[c].status # "CONNECTING" PROVE FALSE
    OBVIOUS
  <2>1. End([Begin(c) EXCEPT !.fault = "assert"])
    BY <1>2 DEF EstablishedInLoop
  <2>2. "assert" \in Fault
    BY DEF Fault
  <2>3. fault' = "assert"
    BY <2>1, <2>2, EndsAsBegun
  <2> QED
    BY <2>3 DEF Running
<1> DEFINE g == CareRead([Begin(c) EXCEPT !.k.status = "CONNECTED"])
<1>4. End(g) /\ Born(c)
  BY <1>1, <1>2, <1>3, Taken DEF EstablishedInLoop
<1>5. /\ Runs(g) /\ g.c = c /\ g.push = <<>>
      /\ g.k = [conn[c] EXCEPT !.status = "CONNECTED", !.events = @ \cup {"IN"}]
  BY <1>3, <1>4, Establishes
<1> HIDE DEF g
<1>6. BodyOK /\ conn[c] \in Object /\ g \in HandlerState
  BY <1>5, Bodied, Begun DEF Runs
<1>7. g.k.status = "CONNECTED" /\ g.k.releaseOrNot = conn[c].releaseOrNot
  BY <1>5, <1>6 DEF Object
<1>8. /\ conn'[c] = g.k /\ tasks' = tasks \o <<>>
      /\ \A d \in Conn \ {c} : conn'[d] = conn[d]
  BY <1>4, <1>5, <1>6, Ended
<1>9. \A d \in Conn : SameTimer(d)
  BY <1>1 DEF timerVars, SameTimer
<1>10. TaskOf("Established", c, <<>>)
  BY <1>1, <1>8, <1>9, NoPush, TasksFor
<1> QED
  BY <1>3, <1>7, <1>8, <1>9, <1>10

LEMMA ReleaseMoves ==
    ASSUME LifeInv, Running', NEW c \in Conn, ReleaseInLoop(c)
    PROVE  /\ TaskOf("Release", c, IF conn[c].releaseOrNot /\ left[c] > 0
                                   THEN <<<<"Cancel", c>>>> ELSE <<>>)
           /\ conn'[c].status = "DISCONNECTED" /\ ~conn'[c].releaseOrNot
           /\ SameTimer(c) /\ ~Freed(c)
<1>2. ~Freed(c)
  BY DEF ReleaseInLoop, Dangling, Running
<1> DEFINE p == IF conn[c].releaseOrNot /\ left[c] > 0 THEN <<<<"Cancel", c>>>> ELSE <<>>
<1>3. /\ Task("Release", c)
      /\ conn'[c].status = "DISCONNECTED" /\ ~conn'[c].releaseOrNot
      /\ \A d \in Conn \ {c} : conn'[d] = conn[d]
      /\ tasks' = IF conn[c].releaseOrNot /\ left[c] > 0
                  THEN Append(tasks, <<"Cancel", c>>) ELSE tasks
      /\ UNCHANGED timerVars
  BY <1>2, Releases
<1>4. \A d \in Conn : SameTimer(d)
  BY <1>3 DEF timerVars, SameTimer
<1>5. "Cancel" \in Op
  BY DEF Op
<1>6. p \in Seq(Op \X Conn) /\ \A t \in ToSet(p) : t[2] = c
  BY <1>5, OnePush, NoPush
<1>7. tasks' = tasks \o p
  <2>1. Append(tasks, <<"Cancel", c>>) = tasks \o <<<<"Cancel", c>>>>
    BY QueueTypes
  <2>2. tasks \o <<>> = tasks
    BY QueueTypes, NoPush
  <2> QED
    BY <1>3, <2>1, <2>2
<1> HIDE DEF p
<1>8. TaskOf("Release", c, p)
  BY <1>3, <1>4, <1>6, <1>7, TasksFor
<1> QED
  BY <1>2, <1>3, <1>4, <1>8 DEF p

LEMMA TimerMoves ==
    ASSUME LifeInv, NEW c \in Conn, NEW op, TimerTask(op, c),
           \A d \in Conn \ {c} : SameTimer(d)
    PROVE  TaskOf(op, c, <<>>) /\ conn'[c] = conn[c]
<1>1. Task(op, c) /\ tasks' = tasks /\ conn' = conn
  BY DEF TimerTask
<1>2. tasks' = tasks \o <<>>
  BY <1>1, QueueTypes, NoPush
<1> QED
  BY <1>1, <1>2, NoPush, TasksFor

LEMMA AddMoves ==
    ASSUME LifeInv, NEW c \in Conn, AddTimer(c)
    PROVE  /\ TaskOf("Add", c, <<>>) /\ conn'[c] = conn[c]
           /\ left'[c] = IF left[c] = 0 THEN Timeout ELSE left[c]
           /\ valid'[c] <=> left[c] = 0 \/ valid[c]
<1>1. left \in [Conn -> 0 .. Timeout] /\ valid \in [Conn -> BOOLEAN]
  BY DEF LifeInv, TypeOK
<1>2. \A d \in Conn \ {c} : SameTimer(d)
  BY <1>1 DEF AddTimer, SameTimer
<1>3. /\ left'[c] = IF left[c] = 0 THEN Timeout ELSE left[c]
      /\ valid'[c] <=> left[c] = 0 \/ valid[c]
  BY <1>1 DEF AddTimer
<1> QED
  BY <1>2, <1>3, TimerMoves DEF AddTimer

LEMMA UpdateMoves ==
    ASSUME LifeInv, NEW c \in Conn, UpdateTimer(c)
    PROVE  /\ TaskOf("Update", c, <<>>) /\ conn'[c] = conn[c]
           /\ left'[c] = IF left[c] = 0 THEN 0 ELSE Timeout
           /\ valid'[c] = valid[c]
<1>1. left \in [Conn -> 0 .. Timeout] /\ valid' = valid
  BY DEF LifeInv, TypeOK, UpdateTimer
<1>2. \A d \in Conn \ {c} : SameTimer(d)
  BY <1>1 DEF UpdateTimer, SameTimer
<1>3. left'[c] = IF left[c] = 0 THEN 0 ELSE Timeout
  BY <1>1 DEF UpdateTimer
<1> QED
  BY <1>1, <1>2, <1>3, TimerMoves DEF UpdateTimer

LEMMA CancelTimerMoves ==
    ASSUME LifeInv, NEW c \in Conn, CancelTimer(c)
    PROVE  /\ TaskOf("Cancel", c, <<>>) /\ conn'[c] = conn[c]
           /\ left'[c] = left[c] /\ ~valid'[c]
<1>1. valid \in [Conn -> BOOLEAN] /\ left' = left
  BY DEF LifeInv, TypeOK, CancelTimer
<1>2. \A d \in Conn \ {c} : SameTimer(d)
  BY <1>1 DEF CancelTimer, SameTimer
<1>3. ~valid'[c]
  BY <1>1 DEF CancelTimer
<1> QED
  BY <1>1, <1>2, <1>3, TimerMoves DEF CancelTimer

(* The other steps of the loop. *)
LEMMA EventMoves ==
    ASSUME LifeInv, Running', NEW c \in Conn, NEW all, HandleEvents(c, all)
    PROVE  \E r \in Seq({<<"Release", c>>}), p \in Seq(Op \X Conn) :
              /\ p = IF conn[c].releaseOrNot THEN Append(r, <<"Update", c>>) ELSE r
              /\ PushOf(c, p) /\ \A d \in Conn \ {c} : Aside(d)
              /\ actives[c] # {} /\ actives'[c] = {} /\ ~Freed(c)
              /\ conn[c].status # "CONNECTING" /\ conn'[c].status # "CONNECTING"
              /\ FoundInv /\ ~ShutByOthers => conn[c].status \in Up /\ conn'[c].status \in Up
              /\ conn'[c].releaseOrNot = conn[c].releaseOrNot
              /\ SameTimer(c)
<1>1. /\ pc = "handle" /\ actives[c] # {} /\ actives' = [actives EXCEPT ![c] = {}]
      /\ UNCHANGED timerVars /\ pending' = pending
  BY DEF HandleEvents
<1>2. ~Freed(c)
  BY DEF HandleEvents, Dangling, Running
<1>3. PICK g \in Outcomes(c, actives[c], all) : End(g)
  BY <1>2 DEF HandleEvents
<1>4. conn[c].status # "CONNECTING" /\ BodyOK
  BY <1>1, Bodied DEF LifeInv, ReachedOK
<1>5. Runs(Begin(c))
  BY <1>4, BeginRuns
<1>6. /\ Runs(g) /\ g.c = c /\ g.k.releaseOrNot = conn[c].releaseOrNot
      /\ g.fault = "none" => AsksAndRefreshes(g, c)
      /\ Sound(Begin(c)) /\ ("OUT" \in actives[c] => "OUT" \in conn[c].events) => Sound(g)
  BY <1>5, HandledEvents
<1>7. /\ g \in HandlerState /\ g.k.status # "CONNECTING" /\ g.push \in Seq(Pushed \X Conn)
      /\ \A i \in DOMAIN g.push : g.push[i][2] = c
  BY <1>6 DEF Runs, HandlerState
<1>8. /\ conn'[c] = g.k /\ tasks' = tasks \o g.push /\ fault' = g.fault
      /\ \A d \in Conn \ {c} : conn'[d] = conn[d]
  BY <1>3, <1>4, <1>6, <1>7, Ended
<1>9. PICK r \in Seq({<<"Release", c>>}) :
         g.push = IF conn[c].releaseOrNot THEN Append(r, <<"Update", c>>) ELSE r
  BY <1>6, <1>8 DEF AsksAndRefreshes, Running
<1>10. g.push \in Seq(Op \X Conn) /\ \A t \in ToSet(g.push) : t[2] = c
  <2>1. Pushed \subseteq Op
    BY DEF Pushed, Op
  <2> QED
    BY <1>7, <2>1 DEF ToSet
<1>11. \A d \in Conn : SameTimer(d)
  BY <1>1 DEF timerVars, SameTimer
<1>12. PushOf(c, g.push) /\ \A d \in Conn \ {c} : Aside(d)
  BY <1>1, <1>8, <1>10, <1>11, PushesFor, PushAside
<1>13. ASSUME FoundInv, ~ShutByOthers PROVE conn[c].status \in Up /\ conn'[c].status \in Up
  <2>1. conn[c].status \in Up /\ ("OUT" \in actives[c] => "OUT" \in conn[c].events)
    BY <1>1, <1>13 DEF FoundInv, EventsOK
  <2>2. Sound(g)
    BY <1>6, <1>13, <2>1, BeginSound
  <2> QED
    BY <1>8, <2>1, <2>2 DEF Sound, Placed
<1>14. actives'[c] = {}
  BY <1>1 DEF LifeInv, TypeOK
<1> QED
  BY <1>1, <1>2, <1>4, <1>6, <1>7, <1>8, <1>9, <1>10, <1>11, <1>12, <1>13, <1>14

Due(c)    == left[c] > 0 /\ left[c] <= late
Firing(c) == Due(c) /\ valid[c]

LEMMA OrderOf ==
    ASSUME NEW S, IsFiniteSet(S), NEW order \in SetToSeqs(S)
    PROVE  order \in Seq(S) /\ ToSet(order) = S
<1> DEFINE n == Cardinality(S)
<1>1. n \in Nat
  BY FS_CardinalityType
<1>2. order \in [1..n -> S] /\ \A i, j \in 1..n : i # j => order[i] # order[j]
  BY DEF SetToSeqs
<1> HIDE DEF n
<1>3. order \in Injection(1..n, S)
  BY <1>2 DEF Injection, IsInjective
<1>4. Cardinality(1..n) = n
  BY <1>1, FS_Interval
<1>5. order \in Surjection(1..n, S)
  BY <1>3, <1>4, FS_Injection DEF n
<1>6. \A t \in S : \E i \in 1..n : order[i] = t
  BY <1>5 DEF Surjection
<1> QED
  BY <1>1, <1>2, <1>6 DEF ToSet

LEMMA TickMoves ==
    ASSUME LifeInv, Running', Tick
    PROVE  \E p \in Seq(Op \X Conn) : \A c \in Conn :
              /\ PushOf(c, p)
              /\ \A op \in Op : <<op, c>> \in ToSet(p) <=> op = "Release" /\ Firing(c)
              /\ conn' = conn
              /\ left'[c] = IF Due(c) \/ left[c] = 0 THEN 0 ELSE left[c] - late
              /\ valid'[c] <=> valid[c] /\ ~Due(c)
              /\ Firing(c) => ~Freed(c)
<1> DEFINE due == {c \in Conn : left[c] > 0 /\ left[c] <= late}
           firing == {c \in due : valid[c]}
<1>1. /\ pending' = pending
      /\ left' = [c \in Conn |-> IF c \in due \/ left[c] = 0 THEN 0 ELSE left[c] - late]
      /\ valid' = [c \in Conn |-> valid[c] /\ c \notin due]
      /\ IF \E c \in firing : Freed(c)
         THEN Dangling("dangling_timer")
         ELSE /\ \E order \in SetToSeqs(firing) :
                   tasks' = tasks \o [i \in DOMAIN order |-> <<"Release", order[i]>>]
              /\ conn' = conn
  BY DEF Tick
<1>2. ~\E c \in firing : Freed(c)
  BY <1>1 DEF Dangling, Running
<1>3. PICK order \in SetToSeqs(firing) :
         tasks' = tasks \o [i \in DOMAIN order |-> <<"Release", order[i]>>]
  BY <1>1, <1>2
<1>4. order \in Seq(firing) /\ ToSet(order) = firing
  <2>1. IsFiniteSet(firing)
    <3>1. IsFiniteSet({c \in Conn : left[c] > 0})
      BY DEF LifeInv, TimersOK
    <3> QED
      BY <3>1, FS_Subset
  <2> QED
    BY <2>1, OrderOf
<1> DEFINE p == [i \in DOMAIN order |-> <<"Release", order[i]>>]
<1>5. p \in Seq(Op \X Conn) /\ \A t : t \in ToSet(p) <=> \E c \in firing : t = <<"Release", c>>
  <2>1. firing \subseteq Conn /\ "Release" \in Op
    BY DEF Op
  <2>2. DOMAIN p = DOMAIN order /\ \A i \in DOMAIN order : p[i] = <<"Release", order[i]>>
    OBVIOUS
  <2>3. p \in Seq(Op \X Conn)
    BY <1>4, <2>1
  <2>4. ToSet(p) = {<<"Release", order[i]>> : i \in DOMAIN order}
    BY <2>2 DEF ToSet
  <2>5. \A c : c \in firing <=> \E i \in DOMAIN order : c = order[i]
    BY <1>4 DEF ToSet
  <2> QED
    BY <2>3, <2>4, <2>5
<1> HIDE DEF p
<1> SUFFICES ASSUME NEW c \in Conn
             PROVE  /\ PushOf(c, p)
                    /\ \A op \in Op : <<op, c>> \in ToSet(p) <=> op = "Release" /\ Firing(c)
                    /\ conn' = conn
                    /\ left'[c] = IF Due(c) \/ left[c] = 0 THEN 0 ELSE left[c] - late
                    /\ valid'[c] <=> valid[c] /\ ~Due(c)
                    /\ Firing(c) => ~Freed(c)
  BY <1>5
<1>6. PushOf(c, p)
  BY <1>1, <1>3, <1>5, PushesFor DEF p
<1>7. c \in firing <=> Firing(c)
  BY DEF Firing, Due
<1>8. \A op \in Op : <<op, c>> \in ToSet(p) <=> op = "Release" /\ c \in firing
  BY <1>5
<1>9. /\ left'[c] = IF Due(c) \/ left[c] = 0 THEN 0 ELSE left[c] - late
      /\ valid'[c] <=> valid[c] /\ ~Due(c)
  BY <1>1 DEF Due
<1> QED
  BY <1>1, <1>2, <1>6, <1>7, <1>8, <1>9

LEMMA SwapMoves ==
    ASSUME LifeInv, RunTasks, NEW c \in Conn
    PROVE  /\ \A op \in Op : /\ InBatch(op, c)' <=> InTasks(op, c)
                             /\ ~InBatch(op, c) /\ ~InTasks(op, c)'
                             /\ Has(op, c)' <=> Has(op, c)
           /\ \A e \in Op, f \in Op : First(e, f, c) => First(e, f, c)'
           /\ SameTimer(c) /\ conn' = conn
<1>1. pending' = tasks /\ tasks' = <<>> /\ UNCHANGED <<timerVars, conn>> /\ pc = "handle"
  BY DEF RunTasks
<1>2. pending = <<>>
  BY <1>1 DEF LifeInv, PhaseOK
<1>3. Line' = Line
  <2>1. pending' \o tasks' = tasks /\ pending \o tasks = tasks
    BY <1>1, <1>2, QueueTypes
  <2> QED
    BY <2>1 DEF Line
<1> QED
  BY <1>1, <1>2, <1>3, EmptySet DEF InBatch, InTasks, Has, First, timerVars, SameTimer

(* Nothing is pushed or taken. *)
LEMMA NothingMoves ==
    ASSUME LifeInv, tasks' = tasks, pending' = pending, UNCHANGED <<left, valid>>,
           NEW c \in Conn, conn'[c] = conn[c]
    PROVE  Aside(c)
<1>1. tasks' = tasks \o <<>>
  BY QueueTypes, NoPush
<1>2. SameTimer(c)
  BY DEF SameTimer
<1> QED
  BY <1>1, <1>2, NoPush, PushAside

LEMMA AppendIsJoin ==
    ASSUME LifeInv, NEW op \in Op, NEW c \in Conn
    PROVE  Append(tasks, <<op, c>>) = tasks \o <<<<op, c>>>>
<1> DEFINE e == <<op, c>>
           S == Op \X Conn
<1>1. tasks \in Seq(S) /\ e \in S
  BY QueueTypes
<1> HIDE DEF e, S
<1>2. Append(tasks, e) = tasks \o <<e>>
  BY <1>1, AppendIsConcat
<1> QED
  BY <1>2 DEF e

(* The other threads. *)
LEMMA AcceptMoves ==
    ASSUME LifeInv, Established, NEW c, c = accepting.conn
    PROVE  /\ c \in Conn /\ Born(c) /\ accepting.step = "establish"
           /\ PushOf(c, IF Workers THEN <<<<"Established", c>>>> ELSE <<>>)
           /\ \A d \in Conn \ {c} : Aside(d)
           /\ conn'[c].releaseOrNot = conn[c].releaseOrNot
           /\ IF Workers THEN conn'[c] = conn[c]
              ELSE conn[c].status = "CONNECTING" /\ conn'[c].status = "CONNECTED"
           /\ SameTimer(c)
<1>1. /\ accepting.step = "establish" /\ pending' = pending /\ UNCHANGED timerVars
      /\ Workers => tasks' = Append(tasks, <<"Established", c>>) /\ conn' = conn
      /\ ~Workers => End(CareRead([Begin(c) EXCEPT !.k.status = "CONNECTED"]))
  BY DEF Established
<1>2. /\ c \in Conn /\ Born(c)
      /\ ~Workers => conn[c].status = "CONNECTING"
  BY <1>1 DEF LifeInv, AcceptOK
<1>3. \A d \in Conn : SameTimer(d)
  BY <1>1 DEF timerVars, SameTimer
<1>4. CASE Workers
  <2> DEFINE p == <<<<"Established", c>>>>
  <2>1. "Established" \in Op
    BY DEF Op
  <2>2. p \in Seq(Op \X Conn) /\ \A t \in ToSet(p) : t[2] = c
    BY <1>2, <2>1, OnePush
  <2>3. tasks' = tasks \o p
    BY <1>1, <1>2, <1>4, <2>1, AppendIsJoin
  <2> HIDE DEF p
  <2>4. PushOf(c, p) /\ \A d \in Conn \ {c} : Aside(d)
    BY <1>1, <1>2, <1>3, <1>4, <2>2, <2>3, PushesFor, PushAside
  <2> QED
    BY <1>1, <1>2, <1>3, <1>4, <2>4 DEF p
<1>5. CASE ~Workers
  <2> DEFINE g == CareRead([Begin(c) EXCEPT !.k.status = "CONNECTED"])
  <2>1. /\ Runs(g) /\ g.c = c /\ g.push = <<>>
        /\ g.k = [conn[c] EXCEPT !.status = "CONNECTED", !.events = @ \cup {"IN"}]
    BY <1>2, <1>5, Establishes
  <2>2. End(g)
    BY <1>1, <1>5
  <2> HIDE DEF g
  <2>3. BodyOK /\ conn[c] \in Object /\ g \in HandlerState
    BY <1>2, <2>1, Bodied, Begun DEF Runs
  <2>4. g.k.status = "CONNECTED" /\ g.k.releaseOrNot = conn[c].releaseOrNot
    BY <2>1, <2>3 DEF Object
  <2>5. /\ conn'[c] = g.k /\ tasks' = tasks \o <<>>
        /\ \A d \in Conn \ {c} : conn'[d] = conn[d]
    BY <2>1, <2>2, <2>3, Ended
  <2>6. PushOf(c, <<>>) /\ \A d \in Conn \ {c} : Aside(d)
    BY <1>1, <1>2, <1>3, <2>5, NoPush, PushesFor, PushAside
  <2> QED
    BY <1>1, <1>2, <1>3, <1>5, <2>4, <2>5, <2>6
<1> QED
  BY <1>4, <1>5

LEMMA ArriveMoves ==
    ASSUME LifeInv, NEW c \in Conn, NEW fd \in Fd, NewConnection(c, fd)
    PROVE  /\ PushOf(c, IF Timers
                        THEN <<<<IF Workers THEN "EnableInactiveRelease" ELSE "Add", c>>>>
                        ELSE <<>>)
           /\ \A d \in Conn \ {c} : Aside(d)
           /\ \A op \in Op : ~Has(op, c)
           /\ left[c] = 0 /\ conn[c].status = "CONNECTING"
           /\ conn'[c].status = "CONNECTING"
           /\ conn'[c].releaseOrNot <=> Timers /\ ~Workers
           /\ SameTimer(c)
<1> DEFINE op == IF Workers THEN "EnableInactiveRelease" ELSE "Add"
           p == IF Timers THEN <<<<op, c>>>> ELSE <<>>
<1>1. /\ pending' = pending /\ UNCHANGED timerVars
      /\ tasks' = IF Timers THEN Append(tasks, <<op, c>>) ELSE tasks
  BY DEF NewConnection, notBaseVars
<1>2. op \in Op
  BY DEF Op
<1>3. tasks' = tasks \o p
  <2> HIDE DEF op
  <2>1. Append(tasks, <<op, c>>) = tasks \o <<<<op, c>>>>
    BY <1>2, AppendIsJoin
  <2>2. tasks \o <<>> = tasks
    BY QueueTypes, NoPush
  <2> QED
    BY <1>1, <2>1, <2>2
<1>4. p \in Seq(Op \X Conn) /\ \A t \in ToSet(p) : t[2] = c
  <2> HIDE DEF op
  <2> QED
    BY <1>2, OnePush, NoPush
<1> HIDE DEF p
<1>5. \A d \in Conn : SameTimer(d)
  BY <1>1 DEF timerVars, SameTimer
<1>6. /\ conn[c].status = "CONNECTING" /\ ~Born(c)
      /\ conn'[c].status = "CONNECTING"
      /\ conn'[c].releaseOrNot <=> Timers /\ ~Workers
      /\ \A d \in Conn \ {c} : conn'[d] = conn[d]
  BY Arrives
<1>7. PushOf(c, p) /\ \A d \in Conn \ {c} : Aside(d)
  BY <1>1, <1>3, <1>4, <1>5, <1>6, PushesFor, PushAside
<1>8. left[c] = 0
  BY <1>6 DEF LifeInv, ReachedOK, TypeOK
<1>9. ASSUME NEW e \in Op, Has(e, c) PROVE FALSE
  <2>1. <<e, c>> \in Queued
    BY <1>9, LineOfTasks DEF Has
  <2>2. Born(<<e, c>>[2])
    BY <2>1 DEF LifeInv, QueuedOK
  <2> QED
    BY <1>6, <2>2
<1> QED
  BY <1>5, <1>6, <1>7, <1>8, <1>9 DEF p

LEMMA CallPushes ==
    ASSUME LifeInv, NEW c \in Conn, NEW op \in Calls, Call(c, op)
    PROVE  /\ op \in {"Send", "Shutdown", "Release", "EnableInactiveRelease",
                      "CancelInactiveRelease", "SwitchProtocol"}
           /\ PushOf(c, <<<<op, c>>>>) /\ \A d \in Conn \ {c} : Aside(d)
           /\ conn[c].status # "CONNECTING" /\ conn' = conn
           /\ SameTimer(c)
<1>1. /\ c \in held /\ tasks' = Append(tasks, <<op, c>>)
      /\ pending' = pending /\ UNCHANGED timerVars /\ conn' = conn
  BY DEF Call, notUserVars
<1>2. program \in Program
  BY ProgramAssumption DEF LifeInv, TypeOK
<1>3. op \in {"Send", "Shutdown", "Release", "EnableInactiveRelease",
              "CancelInactiveRelease", "SwitchProtocol"}
  BY <1>2 DEF Program, Calls
<1>4. op \in Op
  BY <1>3 DEF Op
<1> DEFINE p == <<<<op, c>>>>
<1>5. p \in Seq(Op \X Conn) /\ \A t \in ToSet(p) : t[2] = c
  BY <1>4, OnePush
<1>6. tasks' = tasks \o p
  BY <1>1, <1>4, AppendIsJoin
<1> HIDE DEF p
<1>7. \A d \in Conn : SameTimer(d)
  BY <1>1 DEF timerVars, SameTimer
<1>8. PushOf(c, p) /\ \A d \in Conn \ {c} : Aside(d)
  BY <1>1, <1>5, <1>6, <1>7, PushesFor, PushAside
<1>9. conn[c].status # "CONNECTING"
  BY <1>1 DEF LifeInv, ReachedOK
<1> QED
  BY <1>1, <1>3, <1>7, <1>8, <1>9 DEF p

(* And all the others. *)
Rest == \/ \E w \in SUBSET Conn : Monitor(w)
        \/ InsertConnection \/ RemoveConnectionInLoop
        \/ \E c \in Conn : Hold(c) \/ Drop(c)
        \/ ClientStep \/ Second \/ UNCHANGED vars

LEMMA RestMoves ==
    ASSUME LifeInv, Rest, NEW c \in Conn
    PROVE  Aside(c)
<1>1. tasks' = tasks /\ pending' = pending /\ UNCHANGED <<left, valid>> /\ conn' = conn
  <2>1. CASE \E w \in SUBSET Conn : Monitor(w)
    BY <2>1 DEF Monitor, timerVars
  <2>2. CASE InsertConnection \/ RemoveConnectionInLoop
    BY <2>2 DEF InsertConnection, RemoveConnectionInLoop, notBaseVars, timerVars
  <2>3. CASE \E d \in Conn : Hold(d) \/ Drop(d)
    BY <2>3 DEF Hold, Drop, notUserVars, timerVars
  <2>4. CASE ClientStep
    BY <2>4 DEF ClientStep, ClientSends, ClientShutsDown, ClientResets, notClientVars,
       timerVars, loopVars
  <2>5. CASE Second
    BY <2>5 DEF Second, loopVars
  <2>6. CASE UNCHANGED vars
    BY <2>6 DEF vars, timerVars, loopVars
  <2> QED
    BY <2>1, <2>2, <2>3, <2>4, <2>5, <2>6 DEF Rest
<1> QED
  BY <1>1, NothingMoves

LEMMA Turns ==
    ASSUME [Next]_vars
    PROVE  \/ Rest
           \/ \E c \in Conn, all \in BOOLEAN : HandleEvents(c, all)
           \/ Tick
           \/ RunTasks
           \/ \E c \in Conn : \/ EnableInactiveReleaseInLoop(c)
                              \/ CancelInactiveReleaseInLoop(c)
                              \/ CalledInLoop(c)
                              \/ EstablishedInLoop(c)
                              \/ ReleaseInLoop(c)
                              \/ AddTimer(c)
                              \/ UpdateTimer(c)
                              \/ CancelTimer(c)
           \/ Established
           \/ \E c \in Conn, fd \in Fd : NewConnection(c, fd)
           \/ \E c \in Conn, op \in Calls : Call(c, op)
<1>1. CASE WorkerStep
  BY <1>1 DEF WorkerStep, Rest
<1>2. CASE BaseStep
  BY <1>2 DEF BaseStep, Rest
<1>3. CASE UserStep
  BY <1>3 DEF UserStep, Rest
<1>4. CASE ClientStep \/ Second \/ UNCHANGED vars
  BY <1>4 DEF Rest
<1> QED
  BY <1>1, <1>2, <1>3, <1>4 DEF Next

-----------------------------------------------------------------------------
(***************************************************************************)
(* TimersAsAsked.  Enabling comes first: nobody else asks for anything     *)
(* while it is queued.  What it adds comes before every release and every  *)
(* cancelling that is asked for, and these leave a timer only with its     *)
(* Cancel behind them.                                                     *)
(***************************************************************************)
Armed(c) == left[c] > 0 /\ valid[c]

EnabledFirst(c) ==
    /\ First("EnableInactiveRelease", "EnableInactiveRelease", c)
    /\ First("EnableInactiveRelease", "Established", c)
    /\ Has("EnableInactiveRelease", c) =>
         /\ conn[c].status = "CONNECTING" /\ Workers
         /\ left[c] = 0 /\ ~conn[c].releaseOrNot
         /\ \A op \in {"Release", "CancelInactiveRelease", "Add", "Update", "Cancel"} : ~Has(op, c)

AddedFirst(c) ==
    /\ First("Add", "Add", c) /\ First("Add", "Release", c)
    /\ First("Add", "CancelInactiveRelease", c)
    /\ Has("Add", c) => left[c] = 0 /\ conn[c].releaseOrNot

CancelledLast(c) ==
    /\ Has("Cancel", c) => ~conn[c].releaseOrNot
    /\ ~conn[c].releaseOrNot /\ Armed(c) => Has("Cancel", c)
    /\ conn[c].releaseOrNot => Armed(c) \/ Has("Add", c) \/ Has("Release", c)

(* Without timers there are none. *)
Unarmed(c) ==
    ~Timers => /\ left[c] = 0 /\ ~conn[c].releaseOrNot
               /\ ~Has("Add", c) /\ ~Has("EnableInactiveRelease", c)

Arm(c) == EnabledFirst(c) /\ AddedFirst(c) /\ CancelledLast(c) /\ Unarmed(c)

ArmInv == Running /\ NeverEnabled => \A c \in Conn : Arm(c)

(* A task of another connection, or none. *)
LEMMA ArmAside ==
    ASSUME program' = program, NEW c \in Conn, Arm(c),
           \A op \in Op : Has(op, c)' <=> Has(op, c),
           \A e \in Op, f \in Op : First(e, f, c) => First(e, f, c)',
           SameTimer(c), conn'[c] = conn[c]
    PROVE  Arm(c)'
<1>1. {"EnableInactiveRelease", "Established", "Release", "CancelInactiveRelease", "Add",
       "Update", "Cancel"} \subseteq Op
  BY DEF Op
<1>2. EnabledFirst(c)'
  <2>1. /\ First("EnableInactiveRelease", "EnableInactiveRelease", c)'
        /\ First("EnableInactiveRelease", "Established", c)'
    BY <1>1 DEF Arm, EnabledFirst
  <2>2. ASSUME Has("EnableInactiveRelease", c)'
        PROVE  /\ conn'[c].status = "CONNECTING" /\ Workers'
               /\ left'[c] = 0 /\ ~conn'[c].releaseOrNot
               /\ \A op \in {"Release", "CancelInactiveRelease", "Add", "Update", "Cancel"} :
                     ~Has(op, c)'
    BY <1>1, <2>2 DEF Arm, EnabledFirst, SameTimer, Workers
  <2> QED
    BY <2>1, <2>2 DEF EnabledFirst
<1>3. AddedFirst(c)'
  BY <1>1 DEF Arm, AddedFirst, SameTimer
<1>4. CancelledLast(c)'
  BY <1>1 DEF Arm, CancelledLast, SameTimer, Armed
<1>5. Unarmed(c)'
  BY <1>1 DEF Arm, Unarmed, SameTimer, Timers
<1> QED
  BY <1>2, <1>3, <1>4, <1>5 DEF Arm

(* What is neither Add, Cancel, Release nor pushes an Enable, Add or       *)
(* Cancel.                                                                 *)
LEMMA ArmKept ==
    ASSUME program' = program, NEW c \in Conn, Arm(c),
           NEW G, G \cap {"Add", "Cancel", "Release"} = {},
           NEW p, Moved(c, G, p),
           \A op \in {"EnableInactiveRelease", "Add", "Cancel"} : <<op, c>> \notin ToSet(p),
           conn'[c].releaseOrNot = conn[c].releaseOrNot,
           left[c] = 0 => left'[c] = 0,
           Armed(c)' => Armed(c),
           Armed(c) => Armed(c)' \/ Has("Release", c)',
           Has("EnableInactiveRelease", c)' =>
              /\ conn'[c].status = "CONNECTING"
              /\ \A op \in {"Release", "CancelInactiveRelease", "Update"} :
                    <<op, c>> \notin ToSet(p)
    PROVE  Arm(c)'
<1>1. {"EnableInactiveRelease", "Established", "Release", "CancelInactiveRelease", "Add",
       "Update", "Cancel"} \subseteq Op
  BY DEF Op
<1>2. EnabledFirst(c)'
  <2>1. /\ First("EnableInactiveRelease", "EnableInactiveRelease", c)'
        /\ First("EnableInactiveRelease", "Established", c)'
    BY <1>1 DEF Arm, EnabledFirst, Moved
  <2>2. ASSUME Has("EnableInactiveRelease", c)'
        PROVE  /\ conn'[c].status = "CONNECTING" /\ Workers'
               /\ left'[c] = 0 /\ ~conn'[c].releaseOrNot
               /\ \A op \in {"Release", "CancelInactiveRelease", "Add", "Update", "Cancel"} :
                     ~Has(op, c)'
    <3>1. Has("EnableInactiveRelease", c)
      BY <1>1, <2>2 DEF Moved
    <3>2. \A op \in {"Release", "CancelInactiveRelease", "Add", "Update", "Cancel"} :
             <<op, c>> \notin ToSet(p) /\ ~Has(op, c)
      BY <2>2, <3>1 DEF Arm, EnabledFirst
    <3>3. \A op \in {"Release", "CancelInactiveRelease", "Add", "Update", "Cancel"} :
             ~Has(op, c)'
      BY <1>1, <3>2 DEF Moved
    <3> QED
      BY <2>2, <3>1, <3>3 DEF Arm, EnabledFirst, Workers
  <2> QED
    BY <2>1, <2>2 DEF EnabledFirst
<1>3. AddedFirst(c)'
  <2>1. /\ First("Add", "Add", c)' /\ First("Add", "Release", c)'
        /\ First("Add", "CancelInactiveRelease", c)'
    BY <1>1 DEF Arm, AddedFirst, Moved
  <2>2. Has("Add", c)' => Has("Add", c)
    BY <1>1 DEF Moved
  <2> QED
    BY <2>1, <2>2 DEF Arm, AddedFirst
<1>4. CancelledLast(c)'
  <2>1. \A op \in {"Add", "Cancel", "Release"} : Has(op, c) => Has(op, c)'
    BY <1>1 DEF Moved
  <2>2. Has("Cancel", c)' => Has("Cancel", c)
    BY <1>1 DEF Moved
  <2> QED
    BY <2>1, <2>2 DEF Arm, CancelledLast
<1>5. Unarmed(c)'
  <2>1. \A op \in {"Add", "EnableInactiveRelease"} : Has(op, c)' => Has(op, c)
    BY <1>1 DEF Moved
  <2> QED
    BY <2>1 DEF Arm, Unarmed, Timers
<1> QED
  BY <1>2, <1>3, <1>4, <1>5 DEF Arm

(* The task at the head is queued. *)
LEMMA HeadHas ==
    ASSUME LifeInv, NEW op, NEW c \in Conn, Task(op, c)
    PROVE  Has(op, c)
<1>1. <<op, c>> \in ToSet(pending)
  BY Taken
<1> QED
  BY <1>1, HasQueued DEF InBatch

LEMMA ArmEnables ==
    ASSUME LifeInv, Running', program' = program, NEW c \in Conn, Arm(c),
           EnableInactiveReleaseInLoop(c)
    PROVE  Arm(c)'
<1> DEFINE p == <<<<IF left[c] > 0 THEN "Update" ELSE "Add", c>>>>
<1>1. /\ TaskOf("EnableInactiveRelease", c, p)
      /\ conn'[c].releaseOrNot /\ SameTimer(c)
  BY EnableMoves
<1>2. Has("EnableInactiveRelease", c)
  BY <1>1, HeadHas DEF TaskOf
<1>3. /\ left[c] = 0 /\ Workers
      /\ \A op \in {"Release", "CancelInactiveRelease", "Add", "Update", "Cancel"} : ~Has(op, c)
  BY <1>2 DEF Arm, EnabledFirst
<1>4. ToSet(p) = {<<"Add", c>>} /\ \A e, f : Before(p, e, f)
  <2>1. "Add" \in Op
    BY DEF Op
  <2> QED
    BY <1>3, <2>1, OnePush
<1> HIDE DEF p
<1>5. {"EnableInactiveRelease", "Established", "Release", "CancelInactiveRelease", "Add",
       "Update", "Cancel"} \subseteq Op
  BY DEF Op
<1>6. Moved(c, {"EnableInactiveRelease"}, p)
  BY <1>1 DEF TaskOf
<1>7. ~Has("EnableInactiveRelease", c)'
  BY <1>4, <1>5, <1>6 DEF Arm, EnabledFirst, Moved
<1>8. EnabledFirst(c)'
  <2>1. /\ First("EnableInactiveRelease", "EnableInactiveRelease", c)'
        /\ First("EnableInactiveRelease", "Established", c)'
    BY <1>4, <1>5, <1>6 DEF Arm, EnabledFirst, Moved
  <2> QED
    BY <1>7, <2>1 DEF EnabledFirst
<1>9. AddedFirst(c)'
  <2>1. /\ First("Add", "Add", c)' /\ First("Add", "Release", c)'
        /\ First("Add", "CancelInactiveRelease", c)'
    BY <1>3, <1>4, <1>5, <1>6 DEF Arm, AddedFirst, Moved
  <2> QED
    BY <1>1, <1>3, <2>1 DEF AddedFirst, SameTimer
<1>10. CancelledLast(c)'
  <2>1. ~Has("Cancel", c)' /\ Has("Add", c)'
    BY <1>3, <1>4, <1>5, <1>6 DEF Moved
  <2> QED
    BY <1>1, <2>1 DEF CancelledLast
<1>11. Unarmed(c)'
  <2>1. Timers
    BY <1>2 DEF Arm, Unarmed
  <2> QED
    BY <2>1 DEF Unarmed, Timers
<1> QED
  BY <1>8, <1>9, <1>10, <1>11 DEF Arm

(* Cancelling and releasing: no Add is left, and a timer has its Cancel. *)
LEMMA ArmCancels ==
    ASSUME LifeInv, program' = program, NEW c \in Conn, Arm(c),
           NEW op \in {"CancelInactiveRelease", "Release"},
           NEW p, TaskOf(op, c, p), ToSet(p) \subseteq {<<"Cancel", c>>},
           ~conn'[c].releaseOrNot, SameTimer(c),
           Armed(c) => <<"Cancel", c>> \in ToSet(p) \/ ~conn[c].releaseOrNot
    PROVE  Arm(c)'
<1>1. Has(op, c)
  BY HeadHas DEF TaskOf
<1>2. ~Has("EnableInactiveRelease", c)
  BY <1>1 DEF Arm, EnabledFirst
<1>3. {"EnableInactiveRelease", "Established", "Release", "CancelInactiveRelease", "Add",
       "Update", "Cancel"} \subseteq Op
  BY DEF Op
<1>4. Moved(c, {op}, p)
  BY DEF TaskOf
<1>5. ~Has("Add", c)' /\ ~Has("EnableInactiveRelease", c)'
  BY <1>2, <1>3, <1>4 DEF Arm, AddedFirst, Moved
<1>6. EnabledFirst(c)'
  <2>1. /\ First("EnableInactiveRelease", "EnableInactiveRelease", c)'
        /\ First("EnableInactiveRelease", "Established", c)'
    BY <1>3, <1>4 DEF Arm, EnabledFirst, Moved
  <2> QED
    BY <1>5, <2>1 DEF EnabledFirst
<1>7. AddedFirst(c)'
  <2>1. /\ First("Add", "Add", c)' /\ First("Add", "Release", c)'
        /\ First("Add", "CancelInactiveRelease", c)'
    BY <1>3, <1>4 DEF Arm, AddedFirst, Moved
  <2> QED
    BY <1>5, <2>1 DEF AddedFirst
<1>8. CancelledLast(c)'
  <2>1. Has("Cancel", c) \/ <<"Cancel", c>> \in ToSet(p) => Has("Cancel", c)'
    BY <1>3, <1>4 DEF Moved
  <2> QED
    BY <2>1 DEF Arm, CancelledLast, Armed, SameTimer
<1>9. Unarmed(c)'
  BY <1>5 DEF Arm, Unarmed, Timers, SameTimer
<1> QED
  BY <1>6, <1>7, <1>8, <1>9 DEF Arm

LEMMA ArmAdds ==
    ASSUME LifeInv, program' = program, NEW c \in Conn, Arm(c), AddTimer(c)
    PROVE  Arm(c)'
<1>1. /\ TaskOf("Add", c, <<>>) /\ conn'[c] = conn[c]
      /\ left'[c] = IF left[c] = 0 THEN Timeout ELSE left[c]
      /\ valid'[c] <=> left[c] = 0 \/ valid[c]
  BY AddMoves
<1>2. Has("Add", c)
  BY <1>1, HeadHas DEF TaskOf
<1>3. left[c] = 0 /\ conn[c].releaseOrNot /\ Timers /\ ~Has("EnableInactiveRelease", c)
  BY <1>2 DEF Arm, AddedFirst, Unarmed, EnabledFirst
<1>4. Armed(c)'
  BY <1>1, <1>3, TimeoutAssumption DEF Armed
<1>5. {"EnableInactiveRelease", "Established", "Release", "CancelInactiveRelease", "Add",
       "Update", "Cancel"} \subseteq Op
  BY DEF Op
<1>6. Moved(c, {"Add"}, <<>>) /\ \A e : e \notin ToSet(<<>>)
  BY <1>1, EmptySet DEF TaskOf
<1>7. ~Has("Add", c)' /\ ~Has("EnableInactiveRelease", c)'
  BY <1>3, <1>5, <1>6 DEF Arm, AddedFirst, Moved
<1>8. EnabledFirst(c)'
  <2>1. /\ First("EnableInactiveRelease", "EnableInactiveRelease", c)'
        /\ First("EnableInactiveRelease", "Established", c)'
    BY <1>5, <1>6 DEF Arm, EnabledFirst, Moved
  <2> QED
    BY <1>7, <2>1 DEF EnabledFirst
<1>9. AddedFirst(c)'
  <2>1. /\ First("Add", "Add", c)' /\ First("Add", "Release", c)'
        /\ First("Add", "CancelInactiveRelease", c)'
    BY <1>5, <1>6 DEF Arm, AddedFirst, Moved
  <2> QED
    BY <1>7, <2>1 DEF AddedFirst
<1>10. CancelledLast(c)'
  <2>1. ~Has("Cancel", c)'
    BY <1>3, <1>5, <1>6 DEF Arm, CancelledLast, Moved
  <2> QED
    BY <1>1, <1>3, <1>4, <2>1 DEF CancelledLast
<1>11. Unarmed(c)'
  BY <1>3 DEF Unarmed, Timers
<1> QED
  BY <1>8, <1>9, <1>10, <1>11 DEF Arm

LEMMA ArmCancelsTimer ==
    ASSUME LifeInv, program' = program, NEW c \in Conn, Arm(c), CancelTimer(c)
    PROVE  Arm(c)'
<1>1. /\ TaskOf("Cancel", c, <<>>) /\ conn'[c] = conn[c]
      /\ left'[c] = left[c] /\ ~valid'[c]
  BY CancelTimerMoves
<1>2. Has("Cancel", c)
  BY <1>1, HeadHas DEF TaskOf
<1>3. ~conn[c].releaseOrNot /\ ~Has("Add", c) /\ ~Has("EnableInactiveRelease", c)
  BY <1>2 DEF Arm, CancelledLast, AddedFirst, EnabledFirst
<1>4. {"EnableInactiveRelease", "Established", "Release", "CancelInactiveRelease", "Add",
       "Update", "Cancel"} \subseteq Op
  BY DEF Op
<1>5. Moved(c, {"Cancel"}, <<>>) /\ \A e : e \notin ToSet(<<>>)
  BY <1>1, EmptySet DEF TaskOf
<1>6. ~Has("Add", c)' /\ ~Has("EnableInactiveRelease", c)'
  BY <1>3, <1>4, <1>5 DEF Moved
<1>7. EnabledFirst(c)'
  <2>1. /\ First("EnableInactiveRelease", "EnableInactiveRelease", c)'
        /\ First("EnableInactiveRelease", "Established", c)'
    BY <1>4, <1>5 DEF Arm, EnabledFirst, Moved
  <2> QED
    BY <1>6, <2>1 DEF EnabledFirst
<1>8. AddedFirst(c)'
  <2>1. /\ First("Add", "Add", c)' /\ First("Add", "Release", c)'
        /\ First("Add", "CancelInactiveRelease", c)'
    BY <1>4, <1>5 DEF Arm, AddedFirst, Moved
  <2> QED
    BY <1>6, <2>1 DEF AddedFirst
<1>9. CancelledLast(c)'
  BY <1>1, <1>3 DEF CancelledLast, Armed
<1>10. Unarmed(c)'
  BY <1>1, <1>6 DEF Arm, Unarmed, Timers
<1> QED
  BY <1>7, <1>8, <1>9, <1>10 DEF Arm

LEMMA ArmArrives ==
    ASSUME LifeInv, program' = program, NEW c \in Conn, NEW fd \in Fd, Arm(c),
           NewConnection(c, fd)
    PROVE  Arm(c)'
<1> DEFINE op == IF Workers THEN "EnableInactiveRelease" ELSE "Add"
           p == IF Timers THEN <<<<op, c>>>> ELSE <<>>
<1>1. /\ PushOf(c, p) /\ \A e \in Op : ~Has(e, c)
      /\ left[c] = 0 /\ SameTimer(c)
      /\ conn'[c].status = "CONNECTING"
      /\ conn'[c].releaseOrNot <=> Timers /\ ~Workers
  BY ArriveMoves
<1>2. {"EnableInactiveRelease", "Established", "Release", "CancelInactiveRelease", "Add",
       "Update", "Cancel"} \subseteq Op
  BY DEF Op
<1>3. /\ ToSet(p) = IF Timers THEN {<<op, c>>} ELSE {}
      /\ \A e, f : Timers => Before(p, e, f)
  <2>1. op \in Op
    BY <1>2
  <2> HIDE DEF op
  <2> QED
    BY <2>1, OnePush, EmptySet
<1>4. Moved(c, {}, p)
  BY <1>1 DEF PushOf
<1> HIDE DEF p
<1>5. \A e \in Op : Has(e, c)' <=> Timers /\ e = op
  <2> SUFFICES ASSUME NEW e \in Op PROVE Has(e, c)' <=> Timers /\ e = op
    OBVIOUS
  <2>1. <<e, c>> \in ToSet(p) <=> Timers /\ e = op
    BY <1>3
  <2> QED
    BY <1>1, <1>4, <2>1 DEF Moved
<1>6. \A e \in Op, f \in Op : First(e, f, c) => First(e, f, c)'
  BY <1>1, <1>3, <1>4 DEF Moved
<1>7. First("Add", "Add", c)' /\ First("Add", "Release", c)'
      /\ First("Add", "CancelInactiveRelease", c)'
      /\ First("EnableInactiveRelease", "EnableInactiveRelease", c)'
      /\ First("EnableInactiveRelease", "Established", c)'
  BY <1>2, <1>6 DEF Arm, AddedFirst, EnabledFirst
<1>8. EnabledFirst(c)'
  <2>1. ASSUME Has("EnableInactiveRelease", c)'
        PROVE  /\ Timers /\ Workers
               /\ \A e \in {"Release", "CancelInactiveRelease", "Add", "Update", "Cancel"} :
                     ~Has(e, c)'
    BY <1>2, <1>5, <2>1
  <2> QED
    BY <1>1, <1>7, <2>1 DEF EnabledFirst, Workers, SameTimer
<1>9. AddedFirst(c)'
  <2>1. Has("Add", c)' => Timers /\ ~Workers
    BY <1>2, <1>5
  <2> QED
    BY <1>1, <1>7, <2>1 DEF AddedFirst, SameTimer
<1>10. CancelledLast(c)'
  <2>1. ~Has("Cancel", c)' /\ (Timers /\ ~Workers => Has("Add", c)')
    BY <1>2, <1>5
  <2> QED
    BY <1>1, <2>1 DEF CancelledLast, Armed, SameTimer
<1>11. Unarmed(c)'
  BY <1>1, <1>2, <1>5 DEF Unarmed, Timers, SameTimer
<1> QED
  BY <1>8, <1>9, <1>10, <1>11 DEF Arm
Sides == \A op \in Op, c \in Conn : Has(op, c) <=> InTasks(op, c) \/ InBatch(op, c)

LEMMA SidesOf == LifeInv => Sides
  BY HasQueued DEF Sides

LEMMA SidesKept ==
    ASSUME LifeInv, LifeInv', NEW c \in Conn, Aside(c)
    PROVE  \A op \in Op : Has(op, c)' <=> Has(op, c)
<1>1. Sides /\ Sides'
  BY SidesOf, PTL
<1> QED
  BY <1>1 DEF Aside, Sides

LEMMA ArmStands ==
    ASSUME LifeInv, LifeInv', program' = program, NEW c \in Conn, Arm(c), Aside(c)
    PROVE  Arm(c)'
<1>1. \A op \in Op : Has(op, c)' <=> Has(op, c)
  BY SidesKept
<1> QED
  BY <1>1, ArmAside DEF Aside

LEMMA ArmTicks ==
    ASSUME LifeInv, Running', program' = program, NEW c \in Conn, Arm(c), Tick
    PROVE  Arm(c)'
<1>1. PICK p \in Seq(Op \X Conn) :
         /\ PushOf(c, p)
         /\ \A op \in Op : <<op, c>> \in ToSet(p) <=> op = "Release" /\ Firing(c)
         /\ conn' = conn
         /\ left'[c] = IF Due(c) \/ left[c] = 0 THEN 0 ELSE left[c] - late
         /\ valid'[c] <=> valid[c] /\ ~Due(c)
  BY TickMoves
<1>2. {"EnableInactiveRelease", "Release", "CancelInactiveRelease", "Add",
       "Update", "Cancel"} \subseteq Op
  BY DEF Op
<1>3. left[c] \in 0 .. Timeout /\ late \in 0 .. MaxLate
  BY DEF LifeInv, TypeOK
<1>4. Moved(c, {}, p)
  BY <1>1 DEF PushOf
<1>5. Armed(c)' => Armed(c)
  BY <1>1, <1>3, TimeoutAssumption DEF Armed
<1>6. ASSUME Armed(c) PROVE Armed(c)' \/ Has("Release", c)'
  <2>1. CASE Due(c)
    <3>1. <<"Release", c>> \in ToSet(p)
      BY <1>1, <1>2, <1>6, <2>1 DEF Firing, Armed
    <3> QED
      BY <1>2, <1>4, <3>1 DEF Moved
  <2>2. CASE ~Due(c)
    BY <1>1, <1>3, <1>6, <2>2, TimeoutAssumption DEF Armed, Due
  <2> QED
    BY <2>1, <2>2
<1>7. ASSUME Has("EnableInactiveRelease", c)'
      PROVE  /\ conn'[c].status = "CONNECTING"
             /\ \A op \in {"Release", "CancelInactiveRelease", "Update"} : <<op, c>> \notin ToSet(p)
  <2>1. Has("EnableInactiveRelease", c)
    BY <1>1, <1>2, <1>4, <1>7 DEF Moved
  <2>2. conn[c].status = "CONNECTING" /\ left[c] = 0
    BY <2>1 DEF Arm, EnabledFirst
  <2>3. ~Firing(c)
    BY <2>2 DEF Firing, Due
  <2> QED
    BY <1>1, <1>2, <2>2, <2>3
<1>8. \A op \in {"EnableInactiveRelease", "Add", "Cancel"} : <<op, c>> \notin ToSet(p)
  BY <1>1, <1>2
<1>9. left[c] = 0 => left'[c] = 0
  BY <1>1
<1> QED
  BY <1>1, <1>4, <1>5, <1>6, <1>7, <1>8, <1>9, ArmKept

(* A step that pushes what belongs to no timer, for a connection that is   *)
(* no longer connecting.                                                   *)
LEMMA ArmPushes ==
    ASSUME LifeInv, program' = program, NEW c \in Conn, Arm(c),
           NEW G, G \cap {"Add", "Cancel", "Release"} = {},
           NEW p, Moved(c, G, p),
           \A op \in {"EnableInactiveRelease", "Add", "Cancel"} : <<op, c>> \notin ToSet(p),
           conn'[c].releaseOrNot = conn[c].releaseOrNot, SameTimer(c),
           conn[c].status # "CONNECTING"
    PROVE  Arm(c)'
<1>1. "EnableInactiveRelease" \in Op
  BY DEF Op
<1>2. ~Has("EnableInactiveRelease", c)'
  BY <1>1 DEF Moved, Arm, EnabledFirst
<1>3. /\ left[c] = 0 => left'[c] = 0
      /\ Armed(c)' <=> Armed(c)
  BY DEF SameTimer, Armed
<1> QED
  BY <1>2, <1>3, ArmKept

LEMMA ArmHandles ==
    ASSUME LifeInv, Running', program' = program, NEW c \in Conn, Arm(c), NEW all,
           HandleEvents(c, all)
    PROVE  Arm(c)' /\ \A d \in Conn \ {c} : Aside(d)
<1>1. PICK r \in Seq({<<"Release", c>>}), p \in Seq(Op \X Conn) :
         /\ p = IF conn[c].releaseOrNot THEN Append(r, <<"Update", c>>) ELSE r
         /\ PushOf(c, p) /\ \A d \in Conn \ {c} : Aside(d)
         /\ conn[c].status # "CONNECTING"
         /\ conn'[c].releaseOrNot = conn[c].releaseOrNot
         /\ SameTimer(c)
  BY EventMoves
<1>2. ToSet(r) \subseteq {<<"Release", c>>}
  BY <1>1 DEF ToSet
<1>3. ToSet(p) \subseteq {<<"Release", c>>, <<"Update", c>>}
  <2> DEFINE S == {<<"Release", c>>, <<"Update", c>>}
             u == <<"Update", c>>
  <2>1. r \in Seq(S) /\ u \in S
    BY <1>1
  <2> HIDE DEF S, u
  <2>2. ToSet(Append(r, u)) = ToSet(r) \cup {u}
    BY <2>1, AppendedSet
  <2> QED
    BY <1>1, <1>2, <2>2 DEF u
<1>4. \A op \in {"EnableInactiveRelease", "Add", "Cancel"} : <<op, c>> \notin ToSet(p)
  BY <1>3
<1>5. Moved(c, {}, p)
  BY <1>1 DEF PushOf
<1> QED
  BY <1>1, <1>4, <1>5, ArmPushes

LEMMA ArmCalled ==
    ASSUME LifeInv, Running', program' = program, NEW c \in Conn, Arm(c), CalledInLoop(c)
    PROVE  Arm(c)' /\ \A d \in Conn \ {c} : Aside(d)
<1>1. PICK op \in {"Send", "Shutdown", "SwitchProtocol"}, p \in Seq(Op \X Conn) :
         /\ TaskOf(op, c, p) /\ ToSet(p) \subseteq {<<"Release", c>>}
         /\ op \in {"Send", "Shutdown"} => conn[c].status # "CONNECTING"
         /\ op # "Shutdown" => p = <<>> /\ conn'[c].status = conn[c].status
         /\ conn'[c].releaseOrNot = conn[c].releaseOrNot
         /\ SameTimer(c)
  BY CallMoves
<1>2. Moved(c, {op}, p) /\ \A d \in Conn \ {c} : Aside(d)
  BY <1>1 DEF TaskOf
<1>3. \A e \in {"EnableInactiveRelease", "Add", "Cancel"} : <<e, c>> \notin ToSet(p)
  BY <1>1
<1>4. CASE op # "SwitchProtocol"
  BY <1>1, <1>2, <1>3, <1>4, ArmPushes
<1>5. CASE op = "SwitchProtocol"
  <2>1. p = <<>> /\ conn'[c].status = conn[c].status /\ ToSet(p) = {}
    BY <1>1, <1>5, EmptySet
  <2>2. "EnableInactiveRelease" \in Op
    BY DEF Op
  <2>3. Has("EnableInactiveRelease", c)' => conn'[c].status = "CONNECTING"
    BY <1>2, <1>3, <2>1, <2>2 DEF Moved, Arm, EnabledFirst
  <2>4. (left[c] = 0 => left'[c] = 0) /\ (Armed(c)' <=> Armed(c))
    BY <1>1 DEF SameTimer, Armed
  <2>5. {op} \cap {"Add", "Cancel", "Release"} = {}
    BY <1>5
  <2> QED
    BY <1>1, <1>2, <1>3, <2>1, <2>3, <2>4, <2>5, ArmKept
<1> QED
  BY <1>2, <1>4, <1>5

LEMMA ArmEstablished ==
    ASSUME LifeInv, Running', program' = program, NEW c \in Conn, Arm(c), EstablishedInLoop(c)
    PROVE  Arm(c)' /\ \A d \in Conn \ {c} : Aside(d)
<1>1. /\ TaskOf("Established", c, <<>>)
      /\ conn'[c].releaseOrNot = conn[c].releaseOrNot
      /\ SameTimer(c)
  BY EstablishedMoves
<1>2. /\ Moved(c, {"Established"}, <<>>) /\ ToSet(<<>>) = {}
      /\ \A d \in Conn \ {c} : Aside(d)
  BY <1>1, EmptySet DEF TaskOf
<1>3. ~Has("EnableInactiveRelease", c)'
  <2>1. {"EnableInactiveRelease", "Established"} \subseteq Op
    BY DEF Op
  <2> QED
    BY <1>2, <2>1 DEF Moved, Arm, EnabledFirst
<1>4. (left[c] = 0 => left'[c] = 0) /\ (Armed(c)' <=> Armed(c))
  BY <1>1 DEF SameTimer, Armed
<1>5. {"Established"} \cap {"Add", "Cancel", "Release"} = {}
  OBVIOUS
<1> QED
  BY <1>1, <1>2, <1>3, <1>4, <1>5, ArmKept

LEMMA ArmUpdates ==
    ASSUME LifeInv, program' = program, NEW c \in Conn, Arm(c), UpdateTimer(c)
    PROVE  Arm(c)' /\ \A d \in Conn \ {c} : Aside(d)
<1>1. /\ TaskOf("Update", c, <<>>) /\ conn'[c] = conn[c]
      /\ left'[c] = IF left[c] = 0 THEN 0 ELSE Timeout
      /\ valid'[c] = valid[c]
  BY UpdateMoves
<1>2. /\ Moved(c, {"Update"}, <<>>) /\ ToSet(<<>>) = {}
      /\ \A d \in Conn \ {c} : Aside(d)
  BY <1>1, EmptySet DEF TaskOf
<1>3. left[c] \in 0 .. Timeout
  BY DEF LifeInv, TypeOK
<1>4. (left[c] = 0 => left'[c] = 0) /\ (Armed(c)' <=> Armed(c))
  BY <1>1, <1>3, TimeoutAssumption DEF Armed
<1>5. Has("EnableInactiveRelease", c)' => conn'[c].status = "CONNECTING"
  <2>1. "EnableInactiveRelease" \in Op
    BY DEF Op
  <2> QED
    BY <1>1, <1>2, <2>1 DEF Moved, Arm, EnabledFirst
<1>6. {"Update"} \cap {"Add", "Cancel", "Release"} = {}
  OBVIOUS
<1> QED
  BY <1>1, <1>2, <1>4, <1>5, <1>6, ArmKept

LEMMA ArmAccepts ==
    ASSUME LifeInv, program' = program, NEW c, c = accepting.conn, c \in Conn => Arm(c),
           Established
    PROVE  c \in Conn /\ Arm(c)' /\ \A d \in Conn \ {c} : Aside(d)
<1> DEFINE p == IF Workers THEN <<<<"Established", c>>>> ELSE <<>>
<1>1. /\ c \in Conn /\ PushOf(c, p)
      /\ \A d \in Conn \ {c} : Aside(d)
      /\ conn'[c].releaseOrNot = conn[c].releaseOrNot
      /\ Workers => conn'[c] = conn[c]
      /\ SameTimer(c)
  BY AcceptMoves
<1>2. {"EnableInactiveRelease", "Established", "Release", "CancelInactiveRelease", "Add",
       "Update", "Cancel"} \subseteq Op
  BY DEF Op
<1>3. ToSet(p) \subseteq {<<"Established", c>>}
  BY <1>1, <1>2, OnePush, EmptySet
<1>4. Moved(c, {}, p) /\ Arm(c)
  BY <1>1 DEF PushOf
<1> HIDE DEF p
<1>5. \A op \in Op \ {"Established"} : <<op, c>> \notin ToSet(p)
  BY <1>3
<1>6. ASSUME Has("EnableInactiveRelease", c)' PROVE conn'[c].status = "CONNECTING"
  <2>1. Has("EnableInactiveRelease", c)
    BY <1>2, <1>4, <1>5, <1>6 DEF Moved
  <2> QED
    BY <1>1, <1>4, <2>1 DEF Arm, EnabledFirst
<1>7. (left[c] = 0 => left'[c] = 0) /\ (Armed(c)' <=> Armed(c))
  BY <1>1 DEF SameTimer, Armed
<1> QED
  BY <1>1, <1>2, <1>4, <1>5, <1>6, <1>7, ArmKept

LEMMA ArmCalls ==
    ASSUME LifeInv, program' = program, NeverEnabled, NEW c \in Conn, Arm(c),
           NEW op \in Calls, Call(c, op)
    PROVE  Arm(c)' /\ \A d \in Conn \ {c} : Aside(d)
<1>1. /\ op \in {"Send", "Shutdown", "Release", "EnableInactiveRelease",
                 "CancelInactiveRelease", "SwitchProtocol"}
      /\ PushOf(c, <<<<op, c>>>>) /\ \A d \in Conn \ {c} : Aside(d)
      /\ conn[c].status # "CONNECTING" /\ conn' = conn
      /\ SameTimer(c)
  BY CallPushes
<1>2. op \in Op
  BY <1>1 DEF Op
<1>3. Moved(c, {}, <<<<op, c>>>>) /\ ToSet(<<<<op, c>>>>) = {<<op, c>>}
  BY <1>1, <1>2, OnePush DEF PushOf
<1>4. \A e \in {"EnableInactiveRelease", "Add", "Cancel"} : <<e, c>> \notin ToSet(<<<<op, c>>>>)
  BY <1>1, <1>3 DEF NeverEnabled
<1> QED
  BY <1>1, <1>3, <1>4, ArmPushes

LEMMA ArmTimers ==
    ASSUME LifeInv, Running', program' = program, NEW c \in Conn, Arm(c),
           \/ EnableInactiveReleaseInLoop(c) \/ CancelInactiveReleaseInLoop(c)
           \/ ReleaseInLoop(c) \/ AddTimer(c) \/ CancelTimer(c)
    PROVE  Arm(c)' /\ \A d \in Conn \ {c} : Aside(d)
<1>1. CASE EnableInactiveReleaseInLoop(c)
  BY <1>1, ArmEnables, EnableMoves DEF TaskOf
<1>2. CASE CancelInactiveReleaseInLoop(c)
  <2> DEFINE p == IF left[c] > 0 THEN <<<<"Cancel", c>>>> ELSE <<>>
  <2>1. /\ TaskOf("CancelInactiveRelease", c, p)
        /\ ~conn'[c].releaseOrNot /\ SameTimer(c)
    BY <1>2, CancelMoves
  <2>2. "Cancel" \in Op
    BY DEF Op
  <2>3. ToSet(p) = IF left[c] > 0 THEN {<<"Cancel", c>>} ELSE {}
    BY <2>2, OnePush, EmptySet
  <2> HIDE DEF p
  <2>4. ToSet(p) \subseteq {<<"Cancel", c>>} /\ (Armed(c) => <<"Cancel", c>> \in ToSet(p))
    BY <2>3 DEF Armed
  <2>5. "CancelInactiveRelease" \in {"CancelInactiveRelease", "Release"}
    OBVIOUS
  <2> QED
    BY <2>1, <2>4, <2>5, ArmCancels DEF TaskOf
<1>3. CASE ReleaseInLoop(c)
  <2> DEFINE p == IF conn[c].releaseOrNot /\ left[c] > 0 THEN <<<<"Cancel", c>>>> ELSE <<>>
  <2>1. /\ TaskOf("Release", c, p)
        /\ ~conn'[c].releaseOrNot /\ SameTimer(c)
    BY <1>3, ReleaseMoves
  <2>2. "Cancel" \in Op
    BY DEF Op
  <2>3. ToSet(p) = IF conn[c].releaseOrNot /\ left[c] > 0 THEN {<<"Cancel", c>>} ELSE {}
    BY <2>2, OnePush, EmptySet
  <2> HIDE DEF p
  <2>4. /\ ToSet(p) \subseteq {<<"Cancel", c>>}
        /\ Armed(c) => <<"Cancel", c>> \in ToSet(p) \/ ~conn[c].releaseOrNot
    BY <2>3 DEF Armed
  <2>5. "Release" \in {"CancelInactiveRelease", "Release"}
    OBVIOUS
  <2> QED
    BY <2>1, <2>4, <2>5, ArmCancels DEF TaskOf
<1>4. CASE AddTimer(c)
  BY <1>4, ArmAdds, AddMoves DEF TaskOf
<1>5. CASE CancelTimer(c)
  BY <1>5, ArmCancelsTimer, CancelTimerMoves DEF TaskOf
<1> QED
  BY <1>1, <1>2, <1>3, <1>4, <1>5

LEMMA RunningBefore == [Next]_vars /\ Running' => Running
  BY DEF Next, vars, WorkerStep, BaseStep, UserStep, ClientStep, Monitor, HandleEvents, Tick,
     RunTasks, EnableInactiveReleaseInLoop, CancelInactiveReleaseInLoop, CalledInLoop,
     EstablishedInLoop, ReleaseInLoop, AddTimer, UpdateTimer, CancelTimer,
     TimerTask, Task, Established, InsertConnection, RemoveConnectionInLoop, NewConnection, Hold,
     Drop, Call, ClientSends, ClientShutsDown, ClientResets, Second, Running

LEMMA ArmStep == LifeInv /\ ArmInv /\ [Next]_vars => ArmInv'
<1> SUFFICES ASSUME LifeInv, ArmInv, [Next]_vars, Running', NeverEnabled', NEW c \in Conn
             PROVE  Arm(c)'
  BY DEF ArmInv
<1>1. program' = program /\ LifeInv' /\ Running
  BY ProgramKept, LifeStep, RunningBefore
<1>2. NeverEnabled
  BY <1>1 DEF NeverEnabled, Calls
<1>3. \A d \in Conn : Arm(d)
  BY <1>1, <1>2 DEF ArmInv
<1>4. ASSUME NEW d \in Conn, Arm(d)' /\ \A e \in Conn \ {d} : Aside(e)
      PROVE  Arm(c)'
  BY <1>1, <1>3, <1>4, ArmStands
<1>5. CASE Rest
  BY <1>1, <1>3, <1>5, RestMoves, ArmStands
<1>6. CASE \E d \in Conn, all \in BOOLEAN : HandleEvents(d, all)
  BY <1>1, <1>3, <1>4, <1>6, ArmHandles
<1>7. CASE Tick
  BY <1>1, <1>3, <1>7, ArmTicks
<1>8. CASE RunTasks
  BY <1>1, <1>3, <1>8, SwapMoves, ArmAside
<1>9. ASSUME NEW d \in Conn,
             \/ EnableInactiveReleaseInLoop(d) \/ CancelInactiveReleaseInLoop(d)
             \/ ReleaseInLoop(d) \/ AddTimer(d) \/ CancelTimer(d)
             \/ CalledInLoop(d) \/ EstablishedInLoop(d) \/ UpdateTimer(d)
      PROVE  Arm(c)'
  <2>1. Arm(d)
    BY <1>3
  <2>2. CASE CalledInLoop(d)
    BY <1>1, <1>4, <2>1, <2>2, ArmCalled
  <2>3. CASE EstablishedInLoop(d)
    BY <1>1, <1>4, <2>1, <2>3, ArmEstablished
  <2>4. CASE UpdateTimer(d)
    BY <1>1, <1>4, <2>1, <2>4, ArmUpdates
  <2>5. CASE \/ EnableInactiveReleaseInLoop(d) \/ CancelInactiveReleaseInLoop(d)
             \/ ReleaseInLoop(d) \/ AddTimer(d) \/ CancelTimer(d)
    BY <1>1, <1>4, <2>1, <2>5, ArmTimers
  <2> QED
    BY <1>9, <2>2, <2>3, <2>4, <2>5
<1>10. CASE Established
  <2>1. PICK d \in Conn : d = accepting.conn
    BY <1>10 DEF LifeInv, AcceptOK, Established
  <2>2. Arm(d)' /\ \A e \in Conn \ {d} : Aside(e)
    BY <1>1, <1>3, <1>10, <2>1, ArmAccepts
  <2> QED
    BY <1>4, <2>2
<1>11. CASE \E d \in Conn, fd \in Fd : NewConnection(d, fd)
  <2>1. PICK d \in Conn, fd \in Fd : NewConnection(d, fd)
    BY <1>11
  <2>2. Arm(d)'
    BY <1>1, <1>3, <2>1, ArmArrives
  <2>3. \A e \in Conn \ {d} : Aside(e)
    BY <2>1, ArriveMoves
  <2> QED
    BY <1>1, <1>3, <2>2, <2>3, ArmStands
<1>12. CASE \E d \in Conn, op \in Calls : Call(d, op)
  <2>1. PICK d \in Conn, op \in Calls : Call(d, op)
    BY <1>12
  <2>2. Arm(d)' /\ \A e \in Conn \ {d} : Aside(e)
    BY <1>1, <1>2, <1>3, <2>1, ArmCalls
  <2> QED
    BY <1>4, <2>2
<1> QED
  BY <1>5, <1>6, <1>7, <1>8, <1>9, <1>10, <1>11, <1>12, Turns

LEMMA ArmInit == Init => ArmInv
<1> SUFFICES ASSUME Init, NEW c \in Conn PROVE Arm(c)
  BY DEF ArmInv
<1>1. Line = <<>> /\ ToSet(<<>>) = {}
  BY EmptySet DEF Init, Line
<1>2. \A op : ~Has(op, c)
  BY <1>1 DEF Has
<1>3. \A e, f : First(e, f, c)
  BY <1>1 DEF First, Before
<1>4. left[c] = 0 /\ ~conn[c].releaseOrNot
  BY DEF Init
<1> QED
  BY <1>2, <1>3, <1>4 DEF Arm, EnabledFirst, AddedFirst, CancelledLast, Unarmed, Armed

LEMMA ArmSettled == LifeInv /\ ArmInv => TimersAsAsked
<1> SUFFICES ASSUME LifeInv, ArmInv, Running, NeverEnabled, NEW c \in Conn, Settled(c)
             PROVE  /\ ~conn[c].releaseOrNot => ~(left[c] > 0 /\ valid[c])
                    /\ /\ conn[c].releaseOrNot
                       /\ <<"Release", c>> \notin ToSet(tasks) \cup ToSet(pending)
                       => left[c] > 0 /\ valid[c]
  BY DEF TimersAsAsked, CancelHolds, EnabledIsArmed
<1>1. Arm(c)
  BY DEF ArmInv
<1>2. \A op : Has(op, c) <=> <<op, c>> \in ToSet(tasks) \cup ToSet(pending)
  BY HasQueued DEF InTasks, InBatch
<1>3. ASSUME NEW op \in TimerOps PROVE ~Has(op, c)
  <2>1. <<op, c>>[2] = c /\ <<op, c>>[1] = op
    OBVIOUS
  <2> QED
    BY <1>2, <1>3, <2>1 DEF Settled
<1>4. ~Has("Add", c) /\ ~Has("Cancel", c)
  BY <1>3 DEF TimerOps
<1> QED
  BY <1>1, <1>2, <1>4 DEF Arm, CancelledLast, Armed

-----------------------------------------------------------------------------
(***************************************************************************)
(* No late release.  Releases and refreshes are pushed while events are    *)
(* handled, so they run in the batch that follows at once.  A release of a *)
(* connection whose timer is armed, or about to be, has the Cancel, or a   *)
(* refresh behind it, in the same batch; so when the Cancel runs a batch   *)
(* later the timer is either not looked at before, or was just refreshed.  *)
(***************************************************************************)

(* In the batch that is running, or will be when the events are handled.   *)
InTurn(op, c) == IF pc = "handle" THEN InTasks(op, c) ELSE InBatch(op, c)

AskedInTime(c) ==
    /\ InTasks("Release", c) => pc = "handle" /\ conn[c].status # "DISCONNECTED"
    /\ InTasks("Update", c) => pc = "handle" /\ actives[c] = {}
    /\ conn[c].status = "DISCONNECTED" => ~conn[c].releaseOrNot

Paired(c) ==
    /\ conn[c].status # "DISCONNECTED"
    /\ Armed(c) \/ Has("Add", c)
    /\ Has("Release", c)
    => \/ InTurn("Cancel", c)
       \/ InTurn("Update", c) /\ First("Release", "Update", c)

Defused(c) ==
    conn[c].status = "DISCONNECTED" /\ Armed(c) =>
        \/ InBatch("Cancel", c)
        \/ /\ InTasks("Cancel", c)
           /\ \/ pc = "handle" /\ ~tickActive
              \/ left[c] = Timeout
              \/ InBatch("Update", c)

LateOf(c) == AskedInTime(c) /\ Paired(c) /\ Defused(c)

LateInv == Running /\ NoLateRelease => \A c \in Conn : LateOf(c)

LEMMA TimerOpsQueued ==
    {"EnableInactiveRelease", "Established", "Release", "CancelInactiveRelease", "Add",
     "Update", "Cancel"} \subseteq Op
  BY DEF Op

LEMMA LateStands ==
    ASSUME LifeInv, LifeInv', NEW c \in Conn, LateOf(c), Aside(c),
           pc' = "handle" <=> pc = "handle", actives'[c] \in {actives[c], {}},
           tickActive' = tickActive
    PROVE  LateOf(c)'
<1>1. \A op \in Op : Has(op, c)' <=> Has(op, c)
  BY SidesKept
<1>2. \A op \in Op : /\ InTasks(op, c)' <=> InTasks(op, c)
                     /\ InBatch(op, c)' <=> InBatch(op, c)
  BY DEF Aside
<1>3. Armed(c)' <=> Armed(c)
  BY DEF Armed, Aside, SameTimer
<1>4. AskedInTime(c)'
  BY <1>2, TimerOpsQueued DEF LateOf, AskedInTime, Aside
<1>5. Paired(c)'
  BY <1>1, <1>2, <1>3, TimerOpsQueued DEF LateOf, Paired, InTurn, Aside
<1>6. Defused(c)'
  BY <1>2, <1>3, TimerOpsQueued DEF LateOf, Defused, Aside, SameTimer
<1> QED
  BY <1>4, <1>5, <1>6 DEF LateOf

(* A task of c that asks for no release and no refresh. *)
LEMMA LateTurns ==
    ASSUME LifeInv, NEW c \in Conn, LateOf(c), NEW op, NEW p, TaskOf(op, c, p),
           <<"Release", c>> \notin ToSet(p), <<"Update", c>> \notin ToSet(p),
           conn'[c].status = "DISCONNECTED" => ~conn'[c].releaseOrNot,
           /\ conn'[c].status # "DISCONNECTED"
           /\ Armed(c)' \/ Has("Add", c)'
           /\ Has("Release", c)'
           => /\ conn[c].status # "DISCONNECTED"
              /\ Armed(c) \/ Has("Add", c)
              /\ op \notin {"Cancel", "Release"},
           conn'[c].status = "DISCONNECTED" /\ Armed(c)' =>
              \/ InBatch("Cancel", c)'
              \/ InTasks("Cancel", c)' /\ (left'[c] = Timeout \/ InBatch("Update", c)')
    PROVE  LateOf(c)'
<1>1. pc = "run" /\ pc' # "handle"
  BY DEF TaskOf, Task
<1>2. /\ Moved(c, {op}, p)
      /\ \A e \in Op : /\ InTasks(e, c)' <=> InTasks(e, c) \/ <<e, c>> \in ToSet(p)
                       /\ InBatch(e, c) <=> InBatch(e, c)' \/ e = op
  BY DEF TaskOf
<1>3. AskedInTime(c)'
  <2>1. ~InTasks("Release", c)' /\ ~InTasks("Update", c)'
    BY <1>1, <1>2, TimerOpsQueued DEF LateOf, AskedInTime
  <2> QED
    BY <2>1 DEF AskedInTime
<1>4. Paired(c)'
  <2> SUFFICES ASSUME /\ conn'[c].status # "DISCONNECTED"
                      /\ Armed(c)' \/ Has("Add", c)'
                      /\ Has("Release", c)'
               PROVE  \/ InBatch("Cancel", c)'
                      \/ InBatch("Update", c)' /\ First("Release", "Update", c)'
    BY <1>1 DEF Paired, InTurn
  <2>1. /\ conn[c].status # "DISCONNECTED"
        /\ Armed(c) \/ Has("Add", c)
        /\ op \notin {"Cancel", "Release"} /\ Has("Release", c)
    BY <1>2, TimerOpsQueued DEF Moved
  <2>2. InBatch("Cancel", c) \/ (InBatch("Update", c) /\ First("Release", "Update", c))
    BY <1>1, <2>1 DEF LateOf, Paired, InTurn
  <2>3. CASE InBatch("Cancel", c)
    BY <1>2, <2>1, <2>3, TimerOpsQueued
  <2>4. CASE InBatch("Update", c) /\ First("Release", "Update", c)
    <3>1. op # "Update"
      BY <1>2, <2>4, TimerOpsQueued DEF Moved
    <3>2. First("Release", "Update", c)'
      BY <1>2, <2>4, TimerOpsQueued DEF Moved
    <3> QED
      BY <1>2, <2>4, <3>1, <3>2, TimerOpsQueued
  <2> QED
    BY <2>2, <2>3, <2>4
<1>5. Defused(c)'
  BY DEF Defused
<1> QED
  BY <1>3, <1>4, <1>5 DEF LateOf

(* One that leaves the timer to the Cancel that is coming, or refreshes it. *)
LEMMA LateWaits ==
    ASSUME LifeInv, NEW c \in Conn, LateOf(c), NEW op, NEW p, TaskOf(op, c, p),
           op \notin {"Cancel", "Update"}, conn[c].status = "DISCONNECTED", Armed(c),
           left'[c] = left[c]
    PROVE  \/ InBatch("Cancel", c)'
           \/ InTasks("Cancel", c)' /\ (left'[c] = Timeout \/ InBatch("Update", c)')
<1>1. pc = "run"
  BY DEF TaskOf, Task
<1>2. \A e \in Op : /\ InTasks(e, c)' <=> InTasks(e, c) \/ <<e, c>> \in ToSet(p)
                    /\ InBatch(e, c) <=> InBatch(e, c)' \/ e = op
  BY DEF TaskOf
<1>3. \/ InBatch("Cancel", c)
      \/ InTasks("Cancel", c) /\ (left[c] = Timeout \/ InBatch("Update", c))
  BY <1>1 DEF LateOf, Defused
<1> QED
  BY <1>2, <1>3, TimerOpsQueued

(* One that changes neither the timer nor whether c was released. *)
LEMMA LatePasses ==
    ASSUME LifeInv, NEW c \in Conn, LateOf(c), NEW op, NEW p, TaskOf(op, c, p),
           op \notin {"Cancel", "Update", "Release"},
           \A e \in {"Release", "Update", "Add"} : <<e, c>> \notin ToSet(p),
           SameTimer(c),
           conn'[c].status = "DISCONNECTED" <=> conn[c].status = "DISCONNECTED",
           conn'[c].releaseOrNot => conn[c].releaseOrNot
    PROVE  LateOf(c)'
<1>1. Armed(c)' <=> Armed(c)
  BY DEF Armed, SameTimer
<1>2. Has("Add", c)' => Has("Add", c)
  BY TimerOpsQueued DEF TaskOf, Moved
<1>3. conn'[c].status = "DISCONNECTED" => ~conn'[c].releaseOrNot
  BY DEF LateOf, AskedInTime
<1>4. conn'[c].status = "DISCONNECTED" /\ Armed(c)' =>
              \/ InBatch("Cancel", c)'
              \/ InTasks("Cancel", c)' /\ (left'[c] = Timeout \/ InBatch("Update", c)')
  BY <1>1, LateWaits DEF SameTimer
<1> QED
  BY <1>1, <1>2, <1>3, <1>4, LateTurns

(* Something else is pushed for c. *)
LEMMA LatePushes ==
    ASSUME LifeInv, NEW c \in Conn, LateOf(c), NEW p, PushOf(c, p),
           \A e \in {"Release", "Update", "Add"} : <<e, c>> \notin ToSet(p),
           pc' = pc, tickActive' = tickActive, actives'[c] = actives[c], SameTimer(c),
           conn'[c].status = "DISCONNECTED" <=> conn[c].status = "DISCONNECTED",
           conn'[c].releaseOrNot = conn[c].releaseOrNot
    PROVE  LateOf(c)'
<1>1. Armed(c)' <=> Armed(c)
  BY DEF Armed, SameTimer
<1>2. /\ Moved(c, {}, p)
      /\ \A e \in Op : /\ InTasks(e, c)' <=> InTasks(e, c) \/ <<e, c>> \in ToSet(p)
                       /\ InBatch(e, c)' <=> InBatch(e, c)
  BY DEF PushOf
<1>3. /\ Has("Add", c)' => Has("Add", c)
      /\ Has("Release", c)' => Has("Release", c)
      /\ First("Release", "Update", c) => First("Release", "Update", c)'
  BY <1>2, TimerOpsQueued DEF Moved
<1>4. AskedInTime(c)'
  BY <1>2, TimerOpsQueued DEF LateOf, AskedInTime
<1>5. Paired(c)'
  BY <1>1, <1>2, <1>3, TimerOpsQueued DEF LateOf, Paired, InTurn
<1>6. Defused(c)'
  BY <1>1, <1>2, TimerOpsQueued DEF LateOf, Defused, SameTimer
<1> QED
  BY <1>4, <1>5, <1>6 DEF LateOf
(* The tasks, one by one. *)
LEMMA LateEnables ==
    ASSUME LifeInv, Running', NEW c \in Conn, LateOf(c), Arm(c), EnableInactiveReleaseInLoop(c)
    PROVE  LateOf(c)'
<1> DEFINE p == <<<<IF left[c] > 0 THEN "Update" ELSE "Add", c>>>>
<1>1. /\ TaskOf("EnableInactiveRelease", c, p)
      /\ conn'[c].status = conn[c].status
  BY EnableMoves
<1>2. Has("EnableInactiveRelease", c)
  BY <1>1, HeadHas DEF TaskOf
<1>3. left[c] = 0 /\ ~Has("Release", c) /\ conn[c].status = "CONNECTING"
  BY <1>2 DEF Arm, EnabledFirst
<1>4. ToSet(p) = {<<"Add", c>>}
  <2>1. "Add" \in Op
    BY DEF Op
  <2> QED
    BY <1>3, <2>1, OnePush
<1> HIDE DEF p
<1>5. <<"Release", c>> \notin ToSet(p) /\ <<"Update", c>> \notin ToSet(p)
  BY <1>4
<1>6. ~Has("Release", c)'
  BY <1>1, <1>3, <1>5, TimerOpsQueued DEF TaskOf, Moved
<1> QED
  BY <1>1, <1>3, <1>5, <1>6, LateTurns

LEMMA LateCancels ==
    ASSUME LifeInv, Running', NEW c \in Conn, LateOf(c), CancelInactiveReleaseInLoop(c)
    PROVE  LateOf(c)'
<1> DEFINE p == IF left[c] > 0 THEN <<<<"Cancel", c>>>> ELSE <<>>
<1>1. /\ TaskOf("CancelInactiveRelease", c, p)
      /\ ~conn'[c].releaseOrNot /\ conn'[c].status = conn[c].status
      /\ SameTimer(c)
  BY CancelMoves
<1>2. ToSet(p) \subseteq {<<"Cancel", c>>}
  BY TimerOpsQueued, OnePush, EmptySet
<1> HIDE DEF p
<1>3. \A e \in {"Release", "Update", "Add"} : <<e, c>> \notin ToSet(p)
  BY <1>2
<1> QED
  BY <1>1, <1>3, LatePasses

LEMMA LateCalled ==
    ASSUME LifeInv, Running', ~ShutByOthers, NEW c \in Conn, LateOf(c), CalledInLoop(c)
    PROVE  LateOf(c)'
<1>1. PICK op \in {"Send", "SwitchProtocol"} :
         /\ TaskOf(op, c, <<>>) /\ conn'[c].status = conn[c].status
         /\ conn'[c].releaseOrNot = conn[c].releaseOrNot
         /\ SameTimer(c)
  BY CallMoves
<1>2. \A e \in {"Release", "Update", "Add"} : <<e, c>> \notin ToSet(<<>>)
  BY EmptySet
<1> QED
  BY <1>1, <1>2, LatePasses

LEMMA LateEstablished ==
    ASSUME LifeInv, Running', NEW c \in Conn, LateOf(c), EstablishedInLoop(c)
    PROVE  LateOf(c)'
<1>1. /\ TaskOf("Established", c, <<>>)
      /\ conn[c].status = "CONNECTING" /\ conn'[c].status = "CONNECTED"
      /\ conn'[c].releaseOrNot = conn[c].releaseOrNot
      /\ SameTimer(c)
  BY EstablishedMoves
<1>2. \A e \in {"Release", "Update", "Add"} : <<e, c>> \notin ToSet(<<>>)
  BY EmptySet
<1> QED
  BY <1>1, <1>2, LatePasses

LEMMA LateReleases ==
    ASSUME LifeInv, Running', NEW c \in Conn, LateOf(c), Arm(c), ReleaseInLoop(c)
    PROVE  LateOf(c)'
<1> DEFINE p == IF conn[c].releaseOrNot /\ left[c] > 0 THEN <<<<"Cancel", c>>>> ELSE <<>>
<1>1. /\ TaskOf("Release", c, p)
      /\ conn'[c].status = "DISCONNECTED" /\ ~conn'[c].releaseOrNot
      /\ SameTimer(c)
  BY ReleaseMoves
<1>2. ToSet(p) = IF conn[c].releaseOrNot /\ left[c] > 0 THEN {<<"Cancel", c>>} ELSE {}
  BY TimerOpsQueued, OnePush, EmptySet
<1> HIDE DEF p
<1>3. /\ Moved(c, {"Release"}, p)
      /\ \A e \in Op : /\ InTasks(e, c)' <=> InTasks(e, c) \/ <<e, c>> \in ToSet(p)
                       /\ InBatch(e, c) <=> InBatch(e, c)' \/ e = "Release"
      /\ pc = "run"
  BY <1>1 DEF TaskOf, Task
<1>4. ASSUME Armed(c)
      PROVE  \/ InBatch("Cancel", c)'
             \/ InTasks("Cancel", c)' /\ (left'[c] = Timeout \/ InBatch("Update", c)')
  <2>1. CASE conn[c].status = "DISCONNECTED"
    BY <1>1, <1>4, <2>1, LateWaits DEF SameTimer
  <2>2. CASE conn[c].status # "DISCONNECTED"
    <3>1. Has("Release", c)
      BY <1>1, HeadHas DEF TaskOf
    <3>2. InBatch("Cancel", c) \/ InBatch("Update", c)
      BY <1>3, <1>4, <2>2, <3>1 DEF LateOf, Paired, InTurn
    <3>3. InBatch("Cancel", c)' \/ InBatch("Update", c)'
      BY <1>3, <3>2, TimerOpsQueued
    <3>4. CASE conn[c].releaseOrNot
      <4>1. InTasks("Cancel", c)'
        BY <1>2, <1>3, <1>4, <3>4, TimerOpsQueued DEF Armed
      <4> QED
        BY <3>3, <4>1
    <3>5. CASE ~conn[c].releaseOrNot
      <4>1. InTasks("Cancel", c) \/ InBatch("Cancel", c)
        BY <1>4, <3>5, HasQueued DEF Arm, CancelledLast
      <4> QED
        BY <1>3, <3>3, <4>1, TimerOpsQueued
    <3> QED
      BY <3>4, <3>5
  <2> QED
    BY <2>1, <2>2
<1>5. Armed(c)' <=> Armed(c)
  BY <1>1 DEF Armed, SameTimer
<1>6. <<"Release", c>> \notin ToSet(p) /\ <<"Update", c>> \notin ToSet(p)
  BY <1>2
<1> QED
  BY <1>1, <1>4, <1>5, <1>6, LateTurns

LEMMA LateAdds ==
    ASSUME LifeInv, NEW c \in Conn, LateOf(c), Arm(c), AddTimer(c)
    PROVE  LateOf(c)'
<1>1. TaskOf("Add", c, <<>>) /\ conn'[c] = conn[c]
  BY AddMoves
<1>2. Has("Add", c)
  BY <1>1, HeadHas DEF TaskOf
<1>3. conn[c].status # "DISCONNECTED"
  BY <1>2 DEF Arm, AddedFirst, LateOf, AskedInTime
<1>4. <<"Release", c>> \notin ToSet(<<>>) /\ <<"Update", c>> \notin ToSet(<<>>)
  BY EmptySet
<1> QED
  BY <1>1, <1>2, <1>3, <1>4, LateTurns

LEMMA LateUpdates ==
    ASSUME LifeInv, NEW c \in Conn, LateOf(c), UpdateTimer(c)
    PROVE  LateOf(c)'
<1>1. /\ TaskOf("Update", c, <<>>) /\ conn'[c] = conn[c]
      /\ left'[c] = IF left[c] = 0 THEN 0 ELSE Timeout
      /\ valid'[c] = valid[c]
  BY UpdateMoves
<1>2. /\ Moved(c, {"Update"}, <<>>) /\ ToSet(<<>>) = {} /\ pc = "run"
      /\ \A e \in Op : /\ InTasks(e, c)' <=> InTasks(e, c)
                       /\ InBatch(e, c) <=> InBatch(e, c)' \/ e = "Update"
  BY <1>1, EmptySet DEF TaskOf, Task
<1>3. Armed(c)' => Armed(c) /\ left'[c] = Timeout
  <2>1. left[c] \in 0 .. Timeout
    BY DEF LifeInv, TypeOK
  <2> QED
    BY <1>1, <2>1, TimeoutAssumption DEF Armed
<1>4. <<"Release", c>> \notin ToSet(<<>>) /\ <<"Update", c>> \notin ToSet(<<>>)
  BY EmptySet
<1>5. Has("Add", c)' => Has("Add", c)
  BY <1>2, TimerOpsQueued DEF Moved
<1>6. ASSUME conn'[c].status = "DISCONNECTED", Armed(c)'
      PROVE  InBatch("Cancel", c)' \/ InTasks("Cancel", c)'
  <2>1. InBatch("Cancel", c) \/ InTasks("Cancel", c)
    BY <1>1, <1>3, <1>6 DEF LateOf, Defused
  <2> QED
    BY <1>2, <2>1, TimerOpsQueued
<1>7. conn[c].status = "DISCONNECTED" => ~conn[c].releaseOrNot
  BY DEF LateOf, AskedInTime
<1> QED
  BY <1>1, <1>3, <1>4, <1>5, <1>6, <1>7, LateTurns

LEMMA LateCancelsTimer ==
    ASSUME LifeInv, NEW c \in Conn, LateOf(c), Arm(c), CancelTimer(c)
    PROVE  LateOf(c)'
<1>1. TaskOf("Cancel", c, <<>>) /\ conn'[c] = conn[c] /\ ~valid'[c]
  BY CancelTimerMoves
<1>2. Has("Cancel", c)
  BY <1>1, HeadHas DEF TaskOf
<1>3. ~Has("Add", c)
  BY <1>2 DEF Arm, CancelledLast, AddedFirst
<1>4. ~Has("Add", c)' /\ ~Armed(c)'
  BY <1>1, <1>3, EmptySet, TimerOpsQueued DEF TaskOf, Moved, Armed
<1>5. <<"Release", c>> \notin ToSet(<<>>) /\ <<"Update", c>> \notin ToSet(<<>>)
  BY EmptySet
<1>6. conn[c].status = "DISCONNECTED" => ~conn[c].releaseOrNot
  BY DEF LateOf, AskedInTime
<1> QED
  BY <1>1, <1>4, <1>5, <1>6, LateTurns

(* The other steps. *)
LEMMA LateHandles ==
    ASSUME LifeInv, FoundInv, Running', ~ShutByOthers, NEW c \in Conn, LateOf(c), Arm(c),
           NEW all, HandleEvents(c, all)
    PROVE  LateOf(c)'
<1>1. PICK r \in Seq({<<"Release", c>>}), p \in Seq(Op \X Conn) :
         /\ p = IF conn[c].releaseOrNot THEN Append(r, <<"Update", c>>) ELSE r
         /\ PushOf(c, p)
         /\ actives[c] # {} /\ actives'[c] = {}
         /\ conn'[c].status \in Up
         /\ conn'[c].releaseOrNot = conn[c].releaseOrNot
         /\ SameTimer(c)
  BY EventMoves
<1>2. pc = "handle" /\ pc' = "handle" /\ pending = <<>>
  BY DEF HandleEvents, LifeInv, PhaseOK
<1>3. \A e \in Op : ~InBatch(e, c) /\ (Has(e, c) <=> InTasks(e, c))
  BY <1>2, HasQueued, EmptySet DEF InBatch
<1>4. /\ Moved(c, {}, p)
      /\ \A e \in Op : InTasks(e, c)' <=> InTasks(e, c) \/ <<e, c>> \in ToSet(p)
  BY <1>1 DEF PushOf
<1>5. conn'[c].status # "DISCONNECTED"
  BY <1>1 DEF Up
<1>6. AskedInTime(c)'
  BY <1>1, <1>2, <1>5 DEF AskedInTime
<1>7. Defused(c)'
  BY <1>5 DEF Defused
<1>8. Paired(c)'
  <2> SUFFICES ASSUME Armed(c)' \/ Has("Add", c)'
               PROVE  \/ InTasks("Cancel", c)'
                      \/ InTasks("Update", c)' /\ First("Release", "Update", c)'
    BY <1>2 DEF Paired, InTurn
  <2>1. CASE conn[c].releaseOrNot
    <3> DEFINE u == <<"Update", c>>
               S == {<<"Release", c>>, <<"Update", c>>}
    <3>1. r \in Seq(S) /\ u \in S /\ p = Append(r, u) /\ DOMAIN r = 1..Len(r)
      BY <1>1, <2>1
    <3>2. \A i \in DOMAIN r : r[i] = <<"Release", c>>
      BY <1>1
    <3> HIDE DEF S
    <3>3. u \in ToSet(p) /\ DOMAIN p = 1..(Len(r) + 1) /\ Len(r) \in Nat
          /\ \A i \in 1..Len(r) : p[i] = r[i]
      BY <3>1 DEF ToSet
    <3>4. Before(p, <<"Release", c>>, <<"Update", c>>)
      <4> SUFFICES ASSUME NEW i \in DOMAIN p, NEW j \in DOMAIN p,
                          p[i] = <<"Release", c>>, p[j] = <<"Update", c>>
                   PROVE  i <= j
        BY DEF Before
      <4>1. j \notin 1..Len(r)
        BY <3>1, <3>2, <3>3
      <4> QED
        BY <3>3, <4>1
    <3>5. ~Has("Update", c)
      BY <1>1, <1>3, TimerOpsQueued DEF LateOf, AskedInTime
    <3>6. First("Release", "Update", c)
      <4>1. \A j \in DOMAIN Line : Line[j] # <<"Update", c>>
        BY <3>5 DEF Has, ToSet
      <4> QED
        BY <4>1 DEF First, Before
    <3>7. First("Release", "Update", c)'
      BY <1>4, <3>4, <3>5, <3>6, TimerOpsQueued DEF Moved
    <3>8. InTasks("Update", c)'
      BY <1>4, <3>3, TimerOpsQueued
    <3> QED
      BY <3>7, <3>8
  <2>2. CASE ~conn[c].releaseOrNot
    <3>1. p = r /\ ToSet(r) \subseteq {<<"Release", c>>}
      BY <1>1, <2>2 DEF ToSet
    <3>2. ~Has("Add", c)'
      BY <1>4, <2>2, <3>1, TimerOpsQueued DEF Arm, AddedFirst, Moved
    <3>3. Armed(c)
      BY <1>1, <3>2 DEF Armed, SameTimer
    <3>4. InTasks("Cancel", c)
      BY <1>3, <2>2, <3>3, TimerOpsQueued DEF Arm, CancelledLast
    <3> QED
      BY <1>4, <3>4, TimerOpsQueued
  <2> QED
    BY <2>1, <2>2
<1> QED
  BY <1>6, <1>7, <1>8 DEF LateOf

(* A connection that was released is not due: its Cancel is queued behind  *)
(* a refresh that ran after the last tick that counts.                     *)
LEMMA NeverFiresLate ==
    ASSUME LifeInv, NeverLate, NEW c \in Conn, LateOf(c), Arm(c),
           pc = "handle", tickActive, Firing(c)
    PROVE  conn[c].status # "DISCONNECTED"
<1> SUFFICES ASSUME conn[c].status = "DISCONNECTED" PROVE FALSE
  OBVIOUS
<1>1. left[c] > 0 /\ left[c] <= late /\ valid[c] /\ late \in 0 .. MaxLate
  BY DEF Firing, Due, LifeInv, TypeOK
<1>2. Armed(c) /\ Timers
  BY <1>1 DEF Armed, Arm, Unarmed
<1>3. ~InBatch("Cancel", c) /\ ~InBatch("Update", c)
  BY EmptySet DEF InBatch, LifeInv, PhaseOK
<1>4. left[c] = Timeout
  BY <1>2, <1>3 DEF LateOf, Defused
<1> QED
  BY <1>1, <1>2, <1>4, TimeoutAssumption DEF NeverLate

LEMMA LateTicks ==
    ASSUME LifeInv, Running', NeverLate, NEW c \in Conn, LateOf(c), Arm(c), Tick
    PROVE  LateOf(c)'
<1>1. PICK p \in Seq(Op \X Conn) :
         /\ PushOf(c, p)
         /\ \A op \in Op : <<op, c>> \in ToSet(p) <=> op = "Release" /\ Firing(c)
         /\ conn' = conn
         /\ left'[c] = IF Due(c) \/ left[c] = 0 THEN 0 ELSE left[c] - late
         /\ valid'[c] <=> valid[c] /\ ~Due(c)
  BY TickMoves
<1>2. /\ pc = "handle" /\ pc' = "handle" /\ tickActive /\ ~tickActive' /\ actives' = actives
  BY DEF Tick
<1>3. /\ Moved(c, {}, p)
      /\ \A e \in Op : /\ InTasks(e, c)' <=> InTasks(e, c) \/ <<e, c>> \in ToSet(p)
                       /\ InBatch(e, c)' <=> InBatch(e, c)
  BY <1>1 DEF PushOf
<1>4. Armed(c)' => Armed(c) /\ ~Due(c)
  <2>1. left[c] \in 0 .. Timeout
    BY DEF LifeInv, TypeOK
  <2> QED
    BY <1>1, <2>1, TimeoutAssumption DEF Armed
<1>5. Has("Add", c)' => Has("Add", c)
  BY <1>1, <1>3, TimerOpsQueued DEF Moved
<1>6. AskedInTime(c)'
  <2>1. InTasks("Release", c)' => conn[c].status # "DISCONNECTED"
    BY <1>1, <1>2, <1>3, NeverFiresLate, TimerOpsQueued DEF LateOf, AskedInTime
  <2>2. InTasks("Update", c)' => actives[c] = {}
    BY <1>1, <1>3, TimerOpsQueued DEF LateOf, AskedInTime
  <2> QED
    BY <1>1, <1>2, <2>1, <2>2 DEF LateOf, AskedInTime
<1>7. Defused(c)'
  <2> SUFFICES ASSUME conn[c].status = "DISCONNECTED", Armed(c)' PROVE InTasks("Cancel", c)'
    BY <1>1, <1>2 DEF Defused
  <2>1. ~InBatch("Cancel", c)
    BY <1>2, EmptySet DEF InBatch, LifeInv, PhaseOK
  <2>2. InTasks("Cancel", c)
    BY <1>4, <2>1 DEF LateOf, Defused
  <2> QED
    BY <1>3, <2>2, TimerOpsQueued
<1>8. Paired(c)'
  <2> SUFFICES ASSUME /\ conn[c].status # "DISCONNECTED"
                      /\ Armed(c)' \/ Has("Add", c)'
                      /\ Has("Release", c)'
               PROVE  \/ InTasks("Cancel", c)'
                      \/ InTasks("Update", c)' /\ First("Release", "Update", c)'
    BY <1>1, <1>2 DEF Paired, InTurn
  <2>1. ~Firing(c)
    <3>1. Has("Add", c)' => left[c] = 0
      BY <1>5 DEF Arm, AddedFirst
    <3> QED
      BY <1>4, <3>1 DEF Firing, Due
  <2>2. <<"Release", c>> \notin ToSet(p) /\ Has("Release", c)
    BY <1>1, <1>3, <2>1, TimerOpsQueued DEF Moved
  <2>3. InTasks("Cancel", c) \/ (InTasks("Update", c) /\ First("Release", "Update", c))
    BY <1>2, <1>4, <1>5, <2>2 DEF LateOf, Paired, InTurn
  <2> QED
    BY <1>3, <2>2, <2>3, TimerOpsQueued DEF Moved
<1> QED
  BY <1>6, <1>7, <1>8 DEF LateOf

LEMMA LatePolls ==
    ASSUME LifeInv, LifeInv', NEW c \in Conn, LateOf(c), NEW w, Monitor(w), Aside(c)
    PROVE  LateOf(c)'
<1>1. pc = "monitor" /\ pc' = "handle" /\ pending = <<>>
  BY DEF Monitor, LifeInv, PhaseOK
<1>2. \A op \in Op : Has(op, c)' <=> Has(op, c)
  BY SidesKept
<1>3. \A op \in Op : /\ InTasks(op, c)' <=> InTasks(op, c)
                     /\ InBatch(op, c)' <=> InBatch(op, c)
  BY DEF Aside
<1>4. \A op \in Op : ~InBatch(op, c)
  BY <1>1, EmptySet DEF InBatch
<1>5. ~InTasks("Release", c) /\ ~InTasks("Update", c)
  BY <1>1 DEF LateOf, AskedInTime
<1>6. AskedInTime(c)'
  BY <1>3, <1>5, TimerOpsQueued DEF AskedInTime, LateOf, Aside
<1>7. Paired(c)'
  <2>1. ~Has("Release", c)
    BY <1>4, <1>5, HasQueued, TimerOpsQueued
  <2> QED
    BY <1>2, <2>1, TimerOpsQueued DEF Paired
<1>8. Defused(c)'
  BY <1>1, <1>3, <1>4, TimerOpsQueued DEF LateOf, Defused, Aside, SameTimer, Armed
<1> QED
  BY <1>6, <1>7, <1>8 DEF LateOf

LEMMA LateSwaps ==
    ASSUME LifeInv, NEW c \in Conn, LateOf(c), RunTasks
    PROVE  LateOf(c)'
<1>1. /\ \A op \in Op : /\ InBatch(op, c)' <=> InTasks(op, c)
                        /\ ~InBatch(op, c) /\ ~InTasks(op, c)'
                        /\ Has(op, c)' <=> Has(op, c)
      /\ \A e \in Op, f \in Op : First(e, f, c) => First(e, f, c)'
      /\ SameTimer(c) /\ conn' = conn
  BY SwapMoves
<1>2. pc = "handle" /\ pc' # "handle"
  BY DEF RunTasks
<1>3. Armed(c)' <=> Armed(c)
  BY <1>1 DEF Armed, SameTimer
<1>4. AskedInTime(c)'
  BY <1>1, TimerOpsQueued DEF LateOf, AskedInTime
<1>5. Paired(c)'
  BY <1>1, <1>2, <1>3, TimerOpsQueued DEF LateOf, Paired, InTurn
<1>6. Defused(c)'
  BY <1>1, <1>2, <1>3, TimerOpsQueued DEF LateOf, Defused
<1> QED
  BY <1>4, <1>5, <1>6 DEF LateOf

LEMMA LateArrives ==
    ASSUME LifeInv, NEW c \in Conn, NEW fd \in Fd, NewConnection(c, fd)
    PROVE  LateOf(c)'
<1> DEFINE op == IF Workers THEN "EnableInactiveRelease" ELSE "Add"
           p == IF Timers THEN <<<<op, c>>>> ELSE <<>>
<1>1. /\ PushOf(c, p) /\ \A e \in Op : ~Has(e, c)
      /\ conn'[c].status = "CONNECTING"
  BY ArriveMoves
<1>2. \A e \in {"Release", "Update"} : <<e, c>> \notin ToSet(p)
  <2>1. op \in Op /\ op \notin {"Release", "Update"}
    BY TimerOpsQueued
  <2> HIDE DEF op
  <2>2. ToSet(p) \subseteq {<<op, c>>}
    BY <2>1, OnePush, EmptySet
  <2> QED
    BY <2>1, <2>2
<1> HIDE DEF p
<1>3. \A e \in {"Release", "Update"} : ~InTasks(e, c) /\ ~Has(e, c)
  BY <1>1, HasQueued, TimerOpsQueued
<1>4. \A e \in {"Release", "Update"} : ~InTasks(e, c)' /\ ~Has(e, c)'
  BY <1>1, <1>2, <1>3, TimerOpsQueued DEF PushOf, Moved
<1> QED
  BY <1>1, <1>4 DEF LateOf, AskedInTime, Paired, Defused

LEMMA LateAccepts ==
    ASSUME LifeInv, NEW c \in Conn, c = accepting.conn, LateOf(c), Established
    PROVE  LateOf(c)' /\ \A d \in Conn \ {c} : Aside(d)
<1> DEFINE p == IF Workers THEN <<<<"Established", c>>>> ELSE <<>>
<1>1. /\ PushOf(c, p) /\ \A d \in Conn \ {c} : Aside(d)
      /\ conn'[c].releaseOrNot = conn[c].releaseOrNot
      /\ Workers => conn'[c] = conn[c]
      /\ ~Workers => conn[c].status = "CONNECTING" /\ conn'[c].status = "CONNECTED"
      /\ SameTimer(c)
  BY AcceptMoves
<1>2. \A e \in {"Release", "Update", "Add"} : <<e, c>> \notin ToSet(p)
  <2>1. ToSet(p) \subseteq {<<"Established", c>>}
    BY TimerOpsQueued, OnePush, EmptySet
  <2> QED
    BY <2>1
<1> HIDE DEF p
<1>3. pc' = pc /\ tickActive' = tickActive /\ actives' = actives
  BY DEF Established
<1> QED
  BY <1>1, <1>2, <1>3, LatePushes

LEMMA LateCalls ==
    ASSUME LifeInv, NoLateRelease, NEW c \in Conn, LateOf(c), NEW op \in Calls, Call(c, op)
    PROVE  LateOf(c)' /\ \A d \in Conn \ {c} : Aside(d)
<1>1. /\ op \in {"Send", "CancelInactiveRelease", "SwitchProtocol"}
      /\ PushOf(c, <<<<op, c>>>>) /\ \A d \in Conn \ {c} : Aside(d)
      /\ conn' = conn
      /\ SameTimer(c)
  BY CallPushes DEF NoLateRelease
<1>2. op \in Op
  BY <1>1 DEF Op
<1>3. \A e \in {"Release", "Update", "Add"} : <<e, c>> \notin ToSet(<<<<op, c>>>>)
  <2>1. ToSet(<<<<op, c>>>>) = {<<op, c>>}
    BY <1>2, OnePush
  <2> QED
    BY <1>1, <2>1
<1>4. pc' = pc /\ tickActive' = tickActive /\ actives' = actives
  BY DEF Call, notUserVars
<1> QED
  BY <1>1, <1>3, <1>4, LatePushes
LEMMA LateTimers ==
    ASSUME LifeInv, Running', ~ShutByOthers, NEW c \in Conn, LateOf(c), Arm(c),
           \/ EnableInactiveReleaseInLoop(c) \/ CancelInactiveReleaseInLoop(c)
           \/ CalledInLoop(c) \/ EstablishedInLoop(c) \/ ReleaseInLoop(c)
           \/ AddTimer(c) \/ UpdateTimer(c) \/ CancelTimer(c)
    PROVE  /\ LateOf(c)' /\ \A d \in Conn \ {c} : Aside(d)
           /\ pc = "run" /\ pc' # "handle" /\ actives' = actives /\ tickActive' = tickActive
<1>1. \E op, p : TaskOf(op, c, p)
  <2>1. CASE EnableInactiveReleaseInLoop(c)
    BY <2>1, EnableMoves
  <2>2. CASE CancelInactiveReleaseInLoop(c)
    BY <2>2, CancelMoves
  <2>3. CASE CalledInLoop(c)
    BY <2>3, CallMoves
  <2>4. CASE EstablishedInLoop(c)
    BY <2>4, EstablishedMoves
  <2>5. CASE ReleaseInLoop(c)
    BY <2>5, ReleaseMoves
  <2>6. CASE AddTimer(c) \/ UpdateTimer(c) \/ CancelTimer(c)
    BY <2>6, AddMoves, UpdateMoves, CancelTimerMoves
  <2> QED
    BY <2>1, <2>2, <2>3, <2>4, <2>5, <2>6
<1>2. /\ \A d \in Conn \ {c} : Aside(d)
      /\ pc = "run" /\ pc' # "handle" /\ actives' = actives /\ tickActive' = tickActive
  BY <1>1 DEF TaskOf, Task
<1>3. LateOf(c)'
  BY LateEnables, LateCancels, LateCalled, LateEstablished, LateReleases, LateAdds,
     LateUpdates, LateCancelsTimer
<1> QED
  BY <1>2, <1>3

LEMMA NoLateNever == NoLateRelease => NeverEnabled /\ ~ShutByOthers /\ NeverLate
  BY DEF NoLateRelease, NeverEnabled, ShutByOthers

LEMMA NoLateKept == program' = program => (NoLateRelease' <=> NoLateRelease)
  BY DEF NoLateRelease, NeverLate, Calls, Timers

LEMMA LateStep ==
    LifeInv /\ FoundInv /\ ArmInv /\ LateInv /\ [Next]_vars => LateInv'
<1> SUFFICES ASSUME LifeInv, FoundInv, ArmInv, LateInv, [Next]_vars, Running', NoLateRelease',
                    NEW c \in Conn
             PROVE  LateOf(c)'
  BY DEF LateInv
<1>1. program' = program /\ LifeInv' /\ Running
  BY ProgramKept, LifeStep, RunningBefore
<1>2. NoLateRelease /\ NeverLate /\ ~ShutByOthers
  BY <1>1, NoLateKept, NoLateNever
<1>3. \A d \in Conn : Arm(d) /\ LateOf(d)
  BY <1>1, <1>2, NoLateNever DEF ArmInv, LateInv
<1>4. ASSUME NEW d \in Conn, LateOf(d)', \A e \in Conn \ {d} : Aside(e),
             pc' = "handle" <=> pc = "handle", tickActive' = tickActive,
             \A e \in Conn : actives'[e] \in {actives[e], {}}
      PROVE  LateOf(c)'
  BY <1>1, <1>3, <1>4, LateStands
<1>5. CASE Rest
  <2>1. Aside(c)
    BY <1>5, RestMoves
  <2>2. CASE \E w \in SUBSET Conn : Monitor(w)
    BY <1>1, <1>3, <2>1, <2>2, LatePolls
  <2>3. CASE UNCHANGED <<pc, actives, tickActive>>
    BY <1>1, <1>3, <2>1, <2>3, LateStands
  <2>4. (\E w \in SUBSET Conn : Monitor(w)) \/ UNCHANGED <<pc, actives, tickActive>>
    BY <1>5 DEF Rest, InsertConnection, RemoveConnectionInLoop, notBaseVars, Hold, Drop,
       notUserVars, ClientStep, ClientSends, ClientShutsDown, ClientResets, notClientVars,
       loopVars, Second, vars
  <2> QED
    BY <2>2, <2>3, <2>4
<1>6. CASE \E d \in Conn, all \in BOOLEAN : HandleEvents(d, all)
  <2>1. PICK d \in Conn, all \in BOOLEAN : HandleEvents(d, all)
    BY <1>6
  <2>2. LateOf(d)'
    BY <1>2, <1>3, <2>1, LateHandles
  <2>3. \A e \in Conn \ {d} : Aside(e)
    BY <2>1, EventMoves
  <2>4. /\ pc' = pc /\ tickActive' = tickActive
        /\ \A e \in Conn : actives'[e] \in {actives[e], {}}
    BY <2>1 DEF HandleEvents, LifeInv, TypeOK
  <2> QED
    BY <1>4, <2>2, <2>3, <2>4
<1>7. CASE Tick
  BY <1>2, <1>3, <1>7, LateTicks
<1>8. CASE RunTasks
  BY <1>3, <1>8, LateSwaps
<1>9. ASSUME NEW d \in Conn,
             \/ EnableInactiveReleaseInLoop(d) \/ CancelInactiveReleaseInLoop(d)
             \/ CalledInLoop(d) \/ EstablishedInLoop(d) \/ ReleaseInLoop(d)
             \/ AddTimer(d) \/ UpdateTimer(d) \/ CancelTimer(d)
      PROVE  LateOf(c)'
  <2>1. /\ LateOf(d)' /\ \A e \in Conn \ {d} : Aside(e)
        /\ pc = "run" /\ pc' # "handle" /\ actives' = actives /\ tickActive' = tickActive
    BY <1>2, <1>3, <1>9, LateTimers
  <2> QED
    BY <1>4, <2>1
<1>10. CASE Established
  <2>1. PICK d \in Conn : d = accepting.conn
    BY <1>10 DEF LifeInv, AcceptOK, Established
  <2>2. LateOf(d)' /\ \A e \in Conn \ {d} : Aside(e)
    BY <1>3, <1>10, <2>1, LateAccepts
  <2>3. pc' = pc /\ tickActive' = tickActive /\ actives' = actives
    BY <1>10 DEF Established
  <2> QED
    BY <1>4, <2>2, <2>3
<1>11. CASE \E d \in Conn, fd \in Fd : NewConnection(d, fd)
  <2>1. PICK d \in Conn, fd \in Fd : NewConnection(d, fd)
    BY <1>11
  <2>2. LateOf(d)'
    BY <2>1, LateArrives
  <2>3. \A e \in Conn \ {d} : Aside(e)
    BY <2>1, ArriveMoves
  <2>4. pc' = pc /\ tickActive' = tickActive /\ actives' = actives
    BY <2>1 DEF NewConnection, notBaseVars
  <2> QED
    BY <1>4, <2>2, <2>3, <2>4
<1>12. CASE \E d \in Conn, op \in Calls : Call(d, op)
  <2>1. PICK d \in Conn, op \in Calls : Call(d, op)
    BY <1>12
  <2>2. LateOf(d)' /\ \A e \in Conn \ {d} : Aside(e)
    BY <1>2, <1>3, <2>1, LateCalls
  <2>3. pc' = pc /\ tickActive' = tickActive /\ actives' = actives
    BY <2>1 DEF Call, notUserVars
  <2> QED
    BY <1>4, <2>2, <2>3
<1> QED
  BY <1>5, <1>6, <1>7, <1>8, <1>9, <1>10, <1>11, <1>12, Turns

LEMMA LateInit == Init => LateInv
<1> SUFFICES ASSUME Init, NEW c \in Conn PROVE LateOf(c)
  BY DEF LateInv
<1>1. \A op : ~InTasks(op, c)
  BY EmptySet DEF Init, InTasks
<1>2. \A op : ~Has(op, c)
  <2>1. Line = <<>> /\ ToSet(<<>>) = {}
    BY EmptySet DEF Init, Line
  <2> QED
    BY <2>1 DEF Has
<1>3. conn[c].status = "CONNECTING"
  BY DEF Init
<1> QED
  BY <1>1, <1>2, <1>3 DEF LateOf, AskedInTime, Paired, Defused

(***************************************************************************)
(* No timer's closure finds its connection freed.                          *)
(***************************************************************************)
LEMMA NeverFiresOff ==
    ASSUME LifeInv, ~Timers, NEW c \in Conn, Arm(c)
    PROVE  ~Firing(c)
  BY DEF Arm, Unarmed, Firing, Due

(* The ways to die, by the steps that do. *)
Kills ==
    \/ fault' \in {fault, "bad_copy", "dangling_event", "dangling_task"}
    \/ Tick /\ \E c \in Conn : Firing(c) /\ Freed(c)
    \/ fault' = "assert" /\ \E c \in Conn : EstablishedInLoop(c) /\ conn[c].status # "CONNECTING"

LEMMA KilledByTask ==
    ASSUME LifeInv, NEW c \in Conn,
           \/ EnableInactiveReleaseInLoop(c) \/ CancelInactiveReleaseInLoop(c)
           \/ CalledInLoop(c) \/ EstablishedInLoop(c) \/ ReleaseInLoop(c)
           \/ AddTimer(c) \/ UpdateTimer(c) \/ CancelTimer(c)
    PROVE  Kills
<1>1. fault = "none" /\ BodyOK
  BY Bodied DEF EnableInactiveReleaseInLoop, CancelInactiveReleaseInLoop, CalledInLoop,
     EstablishedInLoop, ReleaseInLoop, AddTimer, UpdateTimer, CancelTimer, TimerTask, Task,
     Running
<1>2. CASE Dangling("dangling_task")
  BY <1>2 DEF Dangling, Kills
<1>3. ASSUME ~Freed(c),
             \/ EnableInactiveReleaseInLoop(c) \/ CancelInactiveReleaseInLoop(c)
             \/ ReleaseInLoop(c)
      PROVE  Kills
  BY <1>1, <1>3, Enables, Cancels, Releases DEF Kills
<1>4. CASE AddTimer(c) \/ UpdateTimer(c) \/ CancelTimer(c)
  BY <1>4 DEF AddTimer, UpdateTimer, CancelTimer, TimerTask, Kills
<1>5. ASSUME ~Freed(c), CalledInLoop(c) PROVE Kills
  <2>1. PICK op \in {"Send", "Shutdown", "SwitchProtocol"} :
           /\ Task(op, c)
           /\ op = "Send" => \E some \in BOOLEAN : End(SendInLoop(Begin(c), some))
           /\ op = "Shutdown" => \E h \in ShutdownInLoop(Begin(c)) : End(h)
           /\ op = "SwitchProtocol" => End(UpgradeInLoop(Begin(c)))
    BY <1>5 DEF CalledInLoop
  <2>2. Begin(c).fault = "none"
    BY <1>1, Begun
  <2>3. CASE op = "SwitchProtocol"
    BY <1>1, <2>1, <2>3, Upgrades DEF Kills
  <2>4. CASE op \in {"Send", "Shutdown"}
    <3>1. Runs(Begin(c))
      BY <2>1, <2>4, Taken, BeginRuns
    <3>2. CASE op = "Send"
      <4>1. PICK some \in BOOLEAN : End(SendInLoop(Begin(c), some))
        BY <2>1, <3>2
      <4>2. SendInLoop(Begin(c), some).fault = "none"
        BY <2>2, <3>1, Sent DEF Mute
      <4> QED
        BY <1>1, <4>1, <4>2 DEF End, Kills
    <3>3. CASE op = "Shutdown"
      <4>1. PICK h \in ShutdownInLoop(Begin(c)) : End(h)
        BY <2>1, <3>3
      <4>2. h.fault = "none"
        BY <2>2, <3>1, ShutDown
      <4> QED
        BY <1>1, <4>1, <4>2 DEF End, Kills
    <3> QED
      BY <2>4, <3>2, <3>3
  <2> QED
    BY <2>3, <2>4
<1>6. ASSUME ~Freed(c), EstablishedInLoop(c) PROVE Kills
  <2>1. CASE conn[c].status # "CONNECTING"
    <3>1. End([Begin(c) EXCEPT !.fault = "assert"])
      BY <1>6, <2>1 DEF EstablishedInLoop
    <3>2. "assert" \in Fault
      BY DEF Fault
    <3>3. fault' = "assert"
      BY <3>1, <3>2, EndsAsBegun
    <3> QED
      BY <1>6, <2>1, <3>3 DEF Kills
  <2>2. CASE conn[c].status = "CONNECTING"
    <3> DEFINE h == CareRead([Begin(c) EXCEPT !.k.status = "CONNECTED"])
    <3>1. Task("Established", c) /\ End(h)
      BY <1>6, <2>2 DEF EstablishedInLoop
    <3>2. h.fault = "none"
      BY <2>2, <3>1, Taken, Establishes
    <3> HIDE DEF h
    <3> QED
      BY <1>1, <3>1, <3>2 DEF End, Kills
  <2> QED
    BY <2>1, <2>2
<1>7. Freed(c) /\ ~(AddTimer(c) \/ UpdateTimer(c) \/ CancelTimer(c)) => Dangling("dangling_task")
  BY DEF EnableInactiveReleaseInLoop, CancelInactiveReleaseInLoop, CalledInLoop,
     EstablishedInLoop, ReleaseInLoop
<1> QED
  BY <1>2, <1>3, <1>4, <1>5, <1>6, <1>7

LEMMA Killed == LifeInv /\ [Next]_vars => Kills
<1> SUFFICES ASSUME LifeInv, [Next]_vars PROVE Kills
  OBVIOUS
<1>1. ASSUME NEW c \in Conn, NEW all, HandleEvents(c, all) PROVE Kills
  <2>1. fault = "none" /\ conn[c].status # "CONNECTING"
    BY <1>1 DEF HandleEvents, LifeInv, ReachedOK, Running
  <2>2. CASE Dangling("dangling_event")
    BY <2>2 DEF Dangling, Kills
  <2>3. CASE \E h \in Outcomes(c, actives[c], all) : End(h)
    <3>1. PICK h \in Outcomes(c, actives[c], all) : End(h)
      BY <2>3
    <3>2. h.fault \in {"none", "bad_copy"}
      BY <2>1, BeginRuns, HandledEvents
    <3> QED
      BY <2>1, <3>1, <3>2 DEF End, Kills
  <2> QED
    BY <1>1, <2>2, <2>3 DEF HandleEvents
<1>2. CASE Tick
  <2>1. CASE \E c \in {d \in {e \in Conn : left[e] > 0 /\ left[e] <= late} : valid[d]} : Freed(c)
    BY <1>2, <2>1 DEF Kills, Firing, Due
  <2>2. CASE fault' = fault
    BY <2>2 DEF Kills
  <2> QED
    BY <1>2, <2>1, <2>2 DEF Tick
<1>3. CASE RunTasks
  BY <1>3 DEF RunTasks, Kills
<1>4. CASE Established
  <2>1. CASE Workers
    BY <1>4, <2>1 DEF Established, Kills
  <2>2. CASE ~Workers
    <3> DEFINE c == accepting.conn
               h == CareRead([Begin(c) EXCEPT !.k.status = "CONNECTED"])
    <3>1. End(h) /\ fault = "none" /\ accepting.step = "establish"
      BY <1>4, <2>2 DEF Established, Running
    <3>2. c \in Conn /\ Born(c) /\ conn[c].status = "CONNECTING"
      BY <2>2, <3>1 DEF LifeInv, AcceptOK
    <3>3. h = CareRead([Begin(c) EXCEPT !.k.status = "CONNECTED"])
      OBVIOUS
    <3> HIDE DEF h, c
    <3>4. h.fault = "none"
      BY <3>2, <3>3, Establishes
    <3> QED
      BY <3>1, <3>4 DEF End, Kills
  <2> QED
    BY <2>1, <2>2
<1>5. CASE \E c \in Conn, fd \in Fd : NewConnection(c, fd)
  BY <1>5 DEF NewConnection, notBaseVars, Kills
<1>6. CASE \E c \in Conn, op \in Calls : Call(c, op)
  BY <1>6 DEF Call, notUserVars, Kills
<1>7. CASE Rest
  BY <1>7 DEF Rest, Monitor, InsertConnection, RemoveConnectionInLoop, notBaseVars, Hold, Drop,
     notUserVars, ClientStep, ClientSends, ClientShutsDown, ClientResets, notClientVars,
     Second, vars, Kills
<1> QED
  BY <1>1, <1>2, <1>3, <1>4, <1>5, <1>6, <1>7, KilledByTask, Turns

LEMMA DanglingStep ==
    LifeInv /\ FoundInv /\ KeptInv /\ ArmInv /\ LateInv /\ NoDanglingTimer /\ [Next]_vars
    => NoDanglingTimer'
<1> SUFFICES ASSUME LifeInv, KeptInv, ArmInv, LateInv, NoDanglingTimer, [Next]_vars,
                    NoLateRelease' \/ (~Timers /\ NeverEnabled)', fault' = "dangling_timer"
             PROVE  FALSE
  BY DEF NoDanglingTimer
<1>1. program' = program
  BY ProgramKept
<1>2. NoLateRelease \/ (~Timers /\ NeverEnabled)
  BY <1>1, NoLateKept DEF Timers, NeverEnabled, Calls
<1>3. fault # "dangling_timer"
  BY <1>2 DEF NoDanglingTimer
<1>4. PICK c \in Conn : Tick /\ Firing(c) /\ Freed(c)
  BY <1>3, Killed DEF Kills
<1>5. Running /\ pc = "handle" /\ tickActive /\ NeverEnabled
  BY <1>2, <1>4, NoLateNever DEF Tick
<1>6. Arm(c)
  BY <1>5 DEF ArmInv
<1>7. CASE ~Timers
  BY <1>4, <1>6, <1>7, NeverFiresOff
<1>8. CASE NoLateRelease
  <2>1. NeverLate /\ ~ShutByOthers /\ LateOf(c)
    BY <1>5, <1>8, NoLateNever DEF LateInv
  <2>2. conn[c].status # "DISCONNECTED"
    BY <1>4, <1>5, <1>6, <2>1, NeverFiresLate
  <2>3. conn[c].status = "DISCONNECTED"
    BY <1>4, <2>1 DEF KeptInv, Freed, Born
  <2> QED
    BY <2>2, <2>3
<1> QED
  BY <1>2, <1>7, <1>8

LEMMA DanglingInit == Init => NoDanglingTimer
  BY DEF Init, NoDanglingTimer

-----------------------------------------------------------------------------
(***************************************************************************)
(* Established in time.  The task comes once and before any release: until *)
(* NewConnection has pushed it the timer does not fire, because no second  *)
(* passes and those that already passed are fewer than a timeout.          *)
(***************************************************************************)
Awaited(c) == accepting.step = "establish" /\ accepting.conn = c

EstablishedOnce(c) ==
    /\ First("Established", "Established", c) /\ First("Established", "Release", c)
    /\ Has("Established", c) => conn[c].status = "CONNECTING" /\ Workers /\ ~Awaited(c)

NotYetDue(c) ==
    Awaited(c) => /\ conn[c].status = "CONNECTING" /\ ~Has("Release", c)
                  /\ left[c] = 0 \/ left[c] = Timeout \/ late = 0

EstOf(c) == EstablishedOnce(c) /\ NotYetDue(c)

NoSeconds == ~Timers => late = 0

EstInv == Running /\ Prompt /\ NeverLate => \A c \in Conn : EstOf(c)

LEMMA SecondsStep == NoSeconds /\ [Next]_vars => NoSeconds'
<1> SUFFICES ASSUME NoSeconds, [Next]_vars, ~Timers' PROVE late' = 0
  BY DEF NoSeconds
<1>1. ~Timers /\ late = 0
  BY ProgramKept DEF NoSeconds, Timers
<1> QED
  BY <1>1 DEF Next, vars, WorkerStep, BaseStep, UserStep, ClientStep, Monitor, HandleEvents, Tick,
     RunTasks, EnableInactiveReleaseInLoop, CancelInactiveReleaseInLoop, CalledInLoop,
     EstablishedInLoop, ReleaseInLoop, AddTimer, UpdateTimer, CancelTimer,
     TimerTask, Established, InsertConnection, RemoveConnectionInLoop, NewConnection, Hold,
     Drop, Call, ClientSends, ClientShutsDown, ClientResets, Second,
     timerVars, notBaseVars, notUserVars, notClientVars

LEMMA EstKept ==
    ASSUME NEW c \in Conn, EstOf(c), NEW G, NEW p, Moved(c, G, p), program' = program,
           <<"Established", c>> \notin ToSet(p), Awaited(c)' => Awaited(c),
           Has("Established", c)' \/ Awaited(c)' => conn'[c].status = "CONNECTING",
           Awaited(c)' => /\ <<"Release", c>> \notin ToSet(p)
                          /\ left'[c] = 0 \/ left'[c] = Timeout \/ late' = 0
    PROVE  EstOf(c)'
<1>1. First("Established", "Established", c)' /\ First("Established", "Release", c)'
  BY TimerOpsQueued DEF EstOf, EstablishedOnce, Moved
<1>2. Has("Established", c)' => Has("Established", c)
  BY TimerOpsQueued DEF Moved
<1>3. EstablishedOnce(c)'
  BY <1>1, <1>2 DEF EstOf, EstablishedOnce, Workers
<1>4. Awaited(c)' => ~Has("Release", c)'
  BY TimerOpsQueued DEF EstOf, NotYetDue, Moved
<1>5. NotYetDue(c)'
  BY <1>4 DEF NotYetDue
<1> QED
  BY <1>3, <1>5 DEF EstOf

LEMMA EstStands ==
    ASSUME LifeInv, LifeInv', NEW c \in Conn, EstOf(c), Aside(c), program' = program,
           Awaited(c)' => Awaited(c) /\ late' \in {late, 0}
    PROVE  EstOf(c)'
<1>1. \A op \in Op : Has(op, c)' <=> Has(op, c)
  BY SidesKept
<1>2. EstablishedOnce(c)'
  BY <1>1, TimerOpsQueued DEF EstOf, EstablishedOnce, Aside, Workers
<1>3. NotYetDue(c)'
  BY <1>1, TimerOpsQueued DEF EstOf, NotYetDue, Aside, SameTimer
<1> QED
  BY <1>2, <1>3 DEF EstOf

LEMMA EstTurns ==
    ASSUME LifeInv, NEW c \in Conn, EstOf(c), program' = program,
           NEW op, NEW p, TaskOf(op, c, p), <<"Established", c>> \notin ToSet(p),
           <<"Release", c>> \in ToSet(p) => conn[c].status # "CONNECTING",
           \/ conn'[c].status = conn[c].status
           \/ op \in {"Established", "Release"}
           \/ conn[c].status # "CONNECTING",
           accepting' = accepting, late' = late, left'[c] \in {left[c], Timeout}
    PROVE  EstOf(c)'
<1>1. Has(op, c) /\ Moved(c, {op}, p)
  BY HeadHas DEF TaskOf
<1>2. Awaited(c)' <=> Awaited(c)
  BY DEF Awaited
<1>3. Has("Established", c)' => Has("Established", c) /\ op \notin {"Established", "Release"}
  BY <1>1, TimerOpsQueued DEF EstOf, EstablishedOnce, Moved
<1>4. Awaited(c) => conn[c].status = "CONNECTING" /\ op \notin {"Established", "Release"}
  BY <1>1 DEF EstOf, EstablishedOnce, NotYetDue
<1>5. Has("Established", c)' \/ Awaited(c)' => conn'[c].status = "CONNECTING"
  BY <1>2, <1>3, <1>4 DEF EstOf, EstablishedOnce
<1>6. Awaited(c)' => /\ <<"Release", c>> \notin ToSet(p)
                     /\ left'[c] = 0 \/ left'[c] = Timeout \/ late' = 0
  BY <1>2, <1>4 DEF EstOf, NotYetDue
<1> QED
  BY <1>1, <1>2, <1>5, <1>6, EstKept

LEMMA EstTasks ==
    ASSUME LifeInv, Running', NEW c \in Conn, EstOf(c), program' = program,
           \/ EnableInactiveReleaseInLoop(c) \/ CancelInactiveReleaseInLoop(c)
           \/ CalledInLoop(c) \/ EstablishedInLoop(c) \/ ReleaseInLoop(c)
           \/ AddTimer(c) \/ UpdateTimer(c) \/ CancelTimer(c)
    PROVE  /\ EstOf(c)' /\ \A d \in Conn \ {c} : Aside(d)
           /\ accepting' = accepting /\ late' = late
<1>1. accepting' = accepting /\ late' = late
  BY DEF EnableInactiveReleaseInLoop, CancelInactiveReleaseInLoop, CalledInLoop, EstablishedInLoop,
     ReleaseInLoop, RemoveConnection, AddTimer, UpdateTimer, CancelTimer, TimerTask,
     baseVars, timerVars
<1>2. left[c] \in 0 .. Timeout
  BY DEF LifeInv, TypeOK
<1>3. \A e \in {"Update", "Add", "Cancel"} :
         /\ <<e, c>> # <<"Established", c>> /\ <<e, c>> # <<"Release", c>>
         /\ e \in Op /\ ToSet(<<<<e, c>>>>) = {<<e, c>>}
  BY TimerOpsQueued, OnePush
<1>4. CASE EnableInactiveReleaseInLoop(c)
  <2> DEFINE p == <<<<IF left[c] > 0 THEN "Update" ELSE "Add", c>>>>
  <2>1. /\ TaskOf("EnableInactiveRelease", c, p)
        /\ conn'[c].status = conn[c].status /\ SameTimer(c)
    BY <1>4, EnableMoves
  <2>2. <<"Established", c>> \notin ToSet(p) /\ <<"Release", c>> \notin ToSet(p)
    BY <1>3
  <2> HIDE DEF p
  <2> QED
    BY <1>1, <2>1, <2>2, EstTurns DEF TaskOf, SameTimer
<1>5. CASE CancelInactiveReleaseInLoop(c)
  <2> DEFINE p == IF left[c] > 0 THEN <<<<"Cancel", c>>>> ELSE <<>>
  <2>1. /\ TaskOf("CancelInactiveRelease", c, p)
        /\ conn'[c].status = conn[c].status /\ SameTimer(c)
    BY <1>5, CancelMoves
  <2>2. <<"Established", c>> \notin ToSet(p) /\ <<"Release", c>> \notin ToSet(p)
    BY <1>3, EmptySet
  <2> HIDE DEF p
  <2> QED
    BY <1>1, <2>1, <2>2, EstTurns DEF TaskOf, SameTimer
<1>6. CASE CalledInLoop(c)
  <2>1. PICK op \in {"Send", "Shutdown", "SwitchProtocol"}, p \in Seq(Op \X Conn) :
           /\ TaskOf(op, c, p) /\ ToSet(p) \subseteq {<<"Release", c>>}
           /\ op \in {"Send", "Shutdown"} => conn[c].status # "CONNECTING"
           /\ op # "Shutdown" => p = <<>> /\ conn'[c].status = conn[c].status
           /\ SameTimer(c)
    BY <1>6, CallMoves
  <2>2. /\ <<"Established", c>> \notin ToSet(p)
        /\ <<"Release", c>> \in ToSet(p) => conn[c].status # "CONNECTING"
    BY <2>1, EmptySet
  <2>3. conn'[c].status = conn[c].status \/ conn[c].status # "CONNECTING"
    BY <2>1
  <2> QED
    BY <1>1, <2>1, <2>2, <2>3, EstTurns DEF TaskOf, SameTimer
<1>7. CASE EstablishedInLoop(c)
  <2>1. TaskOf("Established", c, <<>>) /\ SameTimer(c)
    BY <1>7, EstablishedMoves
  <2> QED
    BY <1>1, <2>1, EmptySet, EstTurns DEF TaskOf, SameTimer
<1>8. CASE ReleaseInLoop(c)
  <2> DEFINE p == IF conn[c].releaseOrNot /\ left[c] > 0 THEN <<<<"Cancel", c>>>> ELSE <<>>
  <2>1. TaskOf("Release", c, p) /\ SameTimer(c)
    BY <1>8, ReleaseMoves
  <2>2. <<"Established", c>> \notin ToSet(p) /\ <<"Release", c>> \notin ToSet(p)
    BY <1>3, EmptySet
  <2> HIDE DEF p
  <2> QED
    BY <1>1, <2>1, <2>2, EstTurns DEF TaskOf, SameTimer
<1>9. CASE AddTimer(c) \/ UpdateTimer(c) \/ CancelTimer(c)
  <2>1. PICK op : /\ TaskOf(op, c, <<>>) /\ conn'[c] = conn[c]
                  /\ left'[c] \in {left[c], Timeout}
    BY <1>2, <1>9, AddMoves, UpdateMoves, CancelTimerMoves
  <2> QED
    BY <1>1, <2>1, EmptySet, EstTurns DEF TaskOf
<1> QED
  BY <1>1, <1>4, <1>5, <1>6, <1>7, <1>8, <1>9

LEMMA EstHandles ==
    ASSUME LifeInv, Running', NEW c \in Conn, EstOf(c), program' = program,
           NEW all, HandleEvents(c, all)
    PROVE  EstOf(c)' /\ \A d \in Conn \ {c} : Aside(d)
<1>1. PICK r \in Seq({<<"Release", c>>}), p \in Seq(Op \X Conn) :
         /\ p = IF conn[c].releaseOrNot THEN Append(r, <<"Update", c>>) ELSE r
         /\ PushOf(c, p) /\ \A d \in Conn \ {c} : Aside(d)
         /\ conn[c].status # "CONNECTING"
  BY EventMoves
<1>2. <<"Established", c>> \notin ToSet(p)
  <2> DEFINE S == {<<"Release", c>>, <<"Update", c>>}
             u == <<"Update", c>>
  <2>1. ToSet(r) \subseteq {<<"Release", c>>}
    BY <1>1 DEF ToSet
  <2>2. r \in Seq(S) /\ u \in S
    BY <1>1
  <2> HIDE DEF S, u
  <2>3. ToSet(Append(r, u)) = ToSet(r) \cup {u}
    BY <2>2, AppendedSet
  <2> QED
    BY <1>1, <2>1, <2>3 DEF u
<1>3. accepting' = accepting
  BY DEF HandleEvents, baseVars
<1>4. ~Has("Established", c) /\ ~Awaited(c) /\ Moved(c, {}, p)
  BY <1>1 DEF EstOf, EstablishedOnce, NotYetDue, PushOf
<1>5. ~Has("Established", c)' /\ ~Awaited(c)'
  BY <1>2, <1>3, <1>4, TimerOpsQueued DEF Moved, Awaited
<1> QED
  BY <1>1, <1>2, <1>4, <1>5, EstKept

LEMMA EstTicks ==
    ASSUME LifeInv, Running', NeverLate, NoSeconds, NEW c \in Conn, EstOf(c),
           program' = program, Tick
    PROVE  EstOf(c)'
<1>1. PICK p \in Seq(Op \X Conn) :
         /\ PushOf(c, p)
         /\ \A op \in Op : <<op, c>> \in ToSet(p) <=> op = "Release" /\ Firing(c)
         /\ conn' = conn
  BY TickMoves
<1>2. late' = 0 /\ accepting' = accepting
  BY DEF Tick, baseVars
<1>3. Awaited(c)' <=> Awaited(c)
  BY <1>2 DEF Awaited
<1>4. Awaited(c) => ~Firing(c)
  <2> SUFFICES ASSUME Awaited(c) PROVE ~Due(c)
    BY DEF Firing
  <2>1. late \in Nat /\ late <= MaxLate /\ left[c] \in Nat
    BY TimeoutAssumption DEF LifeInv, TypeOK
  <2>2. left[c] = 0 \/ left[c] = Timeout \/ late = 0
    BY DEF EstOf, NotYetDue
  <2>3. late < Timeout
    BY <2>1, TimeoutAssumption DEF NeverLate, NoSeconds
  <2> QED
    BY <2>1, <2>2, <2>3, TimeoutAssumption DEF Due
<1>5. Moved(c, {}, p) /\ <<"Established", c>> \notin ToSet(p)
  BY <1>1, TimerOpsQueued DEF PushOf
<1>6. Has("Established", c)' \/ Awaited(c)' => conn'[c].status = "CONNECTING"
  BY <1>1, <1>3, <1>5, TimerOpsQueued DEF EstOf, EstablishedOnce, NotYetDue, Moved
<1>7. Awaited(c)' => <<"Release", c>> \notin ToSet(p) /\ late' = 0
  BY <1>1, <1>2, <1>3, <1>4, TimerOpsQueued
<1> QED
  BY <1>3, <1>5, <1>6, <1>7, EstKept

LEMMA EstAccepts ==
    ASSUME LifeInv, program' = program, NEW c \in Conn, c = accepting.conn, EstOf(c), Established
    PROVE  EstOf(c)' /\ \A d \in Conn \ {c} : Aside(d)
<1> DEFINE p == IF Workers THEN <<<<"Established", c>>>> ELSE <<>>
<1>1. /\ PushOf(c, p) /\ \A d \in Conn \ {c} : Aside(d)
      /\ accepting.step = "establish"
      /\ Workers => conn'[c] = conn[c]
  BY AcceptMoves
<1>2. Awaited(c) /\ ~Awaited(c)'
  BY DEF Awaited, Established
<1>3. /\ conn[c].status = "CONNECTING" /\ ~Has("Release", c) /\ ~Has("Established", c)
      /\ First("Established", "Established", c) /\ First("Established", "Release", c)
  BY <1>2 DEF EstOf, EstablishedOnce, NotYetDue
<1>4. /\ ToSet(p) = IF Workers THEN {<<"Established", c>>} ELSE {}
      /\ Workers => \A e, f : Before(p, e, f)
  BY TimerOpsQueued, OnePush, EmptySet
<1>5. Moved(c, {}, p)
  BY <1>1 DEF PushOf
<1> HIDE DEF p
<1>6. First("Established", "Established", c)' /\ First("Established", "Release", c)'
  BY <1>3, <1>4, <1>5, TimerOpsQueued DEF Moved
<1>7. Has("Established", c)' => Workers
  BY <1>3, <1>4, <1>5, TimerOpsQueued DEF Moved
<1>8. EstablishedOnce(c)'
  BY <1>1, <1>2, <1>3, <1>6, <1>7 DEF EstablishedOnce, Workers
<1> QED
  BY <1>1, <1>2, <1>8 DEF EstOf, NotYetDue

LEMMA EstArrives ==
    ASSUME LifeInv, program' = program, NEW c \in Conn, EstOf(c), NEW fd \in Fd,
           NewConnection(c, fd)
    PROVE  EstOf(c)'
<1> DEFINE op == IF Workers THEN "EnableInactiveRelease" ELSE "Add"
           p == IF Timers THEN <<<<op, c>>>> ELSE <<>>
<1>1. /\ PushOf(c, p) /\ \A e \in Op : ~Has(e, c)
      /\ left[c] = 0 /\ SameTimer(c)
      /\ conn'[c].status = "CONNECTING"
  BY ArriveMoves
<1>2. \A e \in {"Established", "Release"} : <<e, c>> \notin ToSet(p)
  <2>1. op \in Op /\ op \notin {"Established", "Release"}
    BY TimerOpsQueued
  <2> HIDE DEF op
  <2>2. ToSet(p) \subseteq {<<op, c>>}
    BY <2>1, OnePush, EmptySet
  <2> QED
    BY <2>1, <2>2
<1>3. Moved(c, {}, p)
  BY <1>1 DEF PushOf
<1> HIDE DEF p
<1>4. \A e \in {"Established", "Release"} : ~Has(e, c)'
  BY <1>1, <1>2, <1>3, TimerOpsQueued DEF Moved
<1>5. First("Established", "Established", c)' /\ First("Established", "Release", c)'
  BY <1>2, <1>3, TimerOpsQueued DEF EstOf, EstablishedOnce, Moved
<1> QED
  BY <1>1, <1>4, <1>5 DEF EstOf, EstablishedOnce, NotYetDue, SameTimer

LEMMA EstCalls ==
    ASSUME LifeInv, program' = program, NEW c \in Conn, EstOf(c), NEW op \in Calls, Call(c, op)
    PROVE  EstOf(c)' /\ \A d \in Conn \ {c} : Aside(d)
<1>1. /\ op \in {"Send", "Shutdown", "Release", "EnableInactiveRelease",
                 "CancelInactiveRelease", "SwitchProtocol"}
      /\ PushOf(c, <<<<op, c>>>>) /\ \A d \in Conn \ {c} : Aside(d)
      /\ conn[c].status # "CONNECTING" /\ conn' = conn
  BY CallPushes
<1>2. op \in Op /\ accepting' = accepting
  BY <1>1 DEF Op, Call, notUserVars
<1>3. <<"Established", c>> \notin ToSet(<<<<op, c>>>>)
  <2>1. ToSet(<<<<op, c>>>>) = {<<op, c>>}
    BY <1>2, OnePush
  <2> QED
    BY <1>1, <2>1
<1>4. ~Has("Established", c) /\ ~Awaited(c) /\ Moved(c, {}, <<<<op, c>>>>)
  BY <1>1 DEF EstOf, EstablishedOnce, NotYetDue, PushOf
<1>5. ~Has("Established", c)' /\ ~Awaited(c)'
  BY <1>2, <1>3, <1>4, TimerOpsQueued DEF Moved, Awaited
<1> QED
  BY <1>1, <1>3, <1>4, <1>5, EstKept

LEMMA EstRests ==
    ASSUME LifeInv, LifeInv', NEW c \in Conn, EstOf(c), program' = program, Prompt, Rest
    PROVE  EstOf(c)'
<1>1. Aside(c)
  BY RestMoves
<1>2. Awaited(c)' => Awaited(c) /\ late' \in {late, 0}
  <2>1. CASE \E w \in SUBSET Conn : Monitor(w)
    BY <2>1 DEF Monitor, Awaited, timerVars, Idle
  <2>2. CASE InsertConnection
    BY <2>2 DEF InsertConnection, Awaited, Idle
  <2>3. CASE RemoveConnectionInLoop \/ (\E d \in Conn : Hold(d) \/ Drop(d))
    BY <2>3 DEF RemoveConnectionInLoop, notBaseVars, Hold, Drop, notUserVars, Awaited, timerVars
  <2>4. CASE ClientStep \/ UNCHANGED vars
    BY <2>4 DEF ClientStep, ClientSends, ClientShutsDown, ClientResets, notClientVars,
       vars, baseVars, Awaited, timerVars
  <2>5. CASE Second
    BY <2>5 DEF Second, baseVars, Awaited
  <2> QED
    BY <2>1, <2>2, <2>3, <2>4, <2>5 DEF Rest
<1> QED
  BY <1>1, <1>2, EstStands

LEMMA EstStep ==
    LifeInv /\ NoSeconds /\ EstInv /\ [Next]_vars => EstInv'
<1> SUFFICES ASSUME LifeInv, NoSeconds, EstInv, [Next]_vars, Running', Prompt', NeverLate',
                    NEW c \in Conn
             PROVE  EstOf(c)'
  BY DEF EstInv
<1>1. program' = program /\ LifeInv' /\ Running
  BY ProgramKept, LifeStep, RunningBefore
<1>2. Prompt /\ NeverLate
  BY <1>1 DEF Prompt, NeverLate, Timers
<1>3. \A d \in Conn : EstOf(d)
  BY <1>1, <1>2 DEF EstInv
<1>4. ASSUME NEW d \in Conn, EstOf(d)', \A e \in Conn \ {d} : Aside(e),
             \A e \in Conn \ {d} : Awaited(e)' => Awaited(e),
             late' \in {late, 0}
      PROVE  EstOf(c)'
  BY <1>1, <1>3, <1>4, EstStands
<1>5. CASE Rest
  BY <1>1, <1>2, <1>3, <1>5, EstRests
<1>6. CASE \E d \in Conn, all \in BOOLEAN : HandleEvents(d, all)
  <2>1. PICK d \in Conn, all \in BOOLEAN : HandleEvents(d, all)
    BY <1>6
  <2>2. EstOf(d)' /\ \A e \in Conn \ {d} : Aside(e)
    BY <1>1, <1>3, <2>1, EstHandles
  <2>3. accepting' = accepting /\ late' = late
    BY <2>1 DEF HandleEvents, baseVars, timerVars
  <2> QED
    BY <1>4, <2>2, <2>3 DEF Awaited
<1>7. CASE Tick
  BY <1>1, <1>2, <1>3, <1>7, EstTicks
<1>8. CASE RunTasks
  <2>1. /\ \A op \in Op : Has(op, c)' <=> Has(op, c)
        /\ \A e \in Op, f \in Op : First(e, f, c) => First(e, f, c)'
        /\ SameTimer(c) /\ conn' = conn
    BY <1>8, SwapMoves
  <2>2. (Awaited(c)' => Awaited(c)) /\ late' = late
    BY <1>8 DEF RunTasks, Awaited, Idle, timerVars
  <2>3. EstOf(c)
    BY <1>3
  <2>4. EstablishedOnce(c)'
    BY <1>1, <2>1, <2>2, <2>3, TimerOpsQueued DEF EstOf, EstablishedOnce, Workers
  <2>5. NotYetDue(c)'
    BY <2>1, <2>2, <2>3, TimerOpsQueued DEF EstOf, NotYetDue, SameTimer
  <2> QED
    BY <2>4, <2>5 DEF EstOf
<1>9. ASSUME NEW d \in Conn,
             \/ EnableInactiveReleaseInLoop(d) \/ CancelInactiveReleaseInLoop(d)
             \/ CalledInLoop(d) \/ EstablishedInLoop(d) \/ ReleaseInLoop(d)
             \/ AddTimer(d) \/ UpdateTimer(d) \/ CancelTimer(d)
      PROVE  EstOf(c)'
  <2>1. /\ EstOf(d)' /\ \A e \in Conn \ {d} : Aside(e)
        /\ accepting' = accepting /\ late' = late
    BY <1>1, <1>3, <1>9, EstTasks
  <2> QED
    BY <1>4, <2>1 DEF Awaited
<1>10. CASE Established
  <2>1. PICK d \in Conn : d = accepting.conn
    BY <1>10 DEF LifeInv, AcceptOK, Established
  <2>2. EstOf(d)' /\ \A e \in Conn \ {d} : Aside(e)
    BY <1>1, <1>3, <1>10, <2>1, EstAccepts
  <2>3. late' = late /\ \A e \in Conn : ~Awaited(e)'
    BY <1>10 DEF Established, timerVars, Awaited
  <2> QED
    BY <1>4, <2>2, <2>3
<1>11. CASE \E d \in Conn, fd \in Fd : NewConnection(d, fd)
  <2>1. PICK d \in Conn, fd \in Fd : NewConnection(d, fd)
    BY <1>11
  <2>2. EstOf(d)'
    BY <1>1, <1>3, <2>1, EstArrives
  <2>3. \A e \in Conn \ {d} : Aside(e)
    BY <2>1, ArriveMoves
  <2>4. late' = late /\ \A e \in Conn \ {d} : ~Awaited(e)'
    BY <2>1 DEF NewConnection, notBaseVars, timerVars, Awaited
  <2> QED
    BY <1>4, <2>2, <2>3, <2>4
<1>12. CASE \E d \in Conn, op \in Calls : Call(d, op)
  <2>1. PICK d \in Conn, op \in Calls : Call(d, op)
    BY <1>12
  <2>2. EstOf(d)' /\ \A e \in Conn \ {d} : Aside(e)
    BY <1>1, <1>3, <2>1, EstCalls
  <2>3. accepting' = accepting /\ late' = late
    BY <2>1 DEF Call, notUserVars, timerVars
  <2> QED
    BY <1>4, <2>2, <2>3 DEF Awaited
<1> QED
  BY <1>5, <1>6, <1>7, <1>8, <1>9, <1>10, <1>11, <1>12, Turns

LEMMA EstInit == Init => EstInv /\ NoSeconds /\ EstablishedInTime
<1> SUFFICES ASSUME Init, NEW c \in Conn PROVE EstOf(c)
  BY DEF Init, EstInv, NoSeconds, EstablishedInTime
<1>1. Line = <<>> /\ ToSet(<<>>) = {}
  BY EmptySet DEF Init, Line
<1>2. \A op : ~Has(op, c)
  BY <1>1 DEF Has
<1>3. \A e, f : First(e, f, c)
  BY <1>1 DEF First, Before
<1>4. ~Awaited(c)
  BY DEF Init, Awaited, Idle
<1> QED
  BY <1>2, <1>3, <1>4 DEF EstOf, EstablishedOnce, NotYetDue

LEMMA EstablishedInTimeStep ==
    LifeInv /\ EstInv /\ EstablishedInTime /\ [Next]_vars => EstablishedInTime'
<1> SUFFICES ASSUME LifeInv, EstInv, EstablishedInTime, [Next]_vars,
                    Prompt', NeverLate', fault' = "assert"
             PROVE  FALSE
  BY DEF EstablishedInTime
<1>1. program' = program
  BY ProgramKept
<1>2. Prompt /\ NeverLate /\ fault # "assert"
  BY <1>1 DEF Prompt, NeverLate, Timers, EstablishedInTime
<1>3. ASSUME Tick PROVE FALSE
  BY <1>2, <1>3 DEF Tick, Dangling
<1>4. PICK c \in Conn : EstablishedInLoop(c) /\ conn[c].status # "CONNECTING"
  BY <1>2, <1>3, Killed DEF Kills
<1>5. Running /\ Has("Established", c)
  BY <1>4, HeadHas DEF EstablishedInLoop, Task
<1> QED
  BY <1>2, <1>4, <1>5 DEF EstInv, EstOf, EstablishedOnce

-----------------------------------------------------------------------------
(***************************************************************************)
(* Found by events.  A second release removes the channel of whoever has   *)
(* the descriptor by then.  If none comes late, it comes in the batch of   *)
(* the first, and until that has run nobody was established with the       *)
(* descriptor: a task that does it was pushed after the first release      *)
(* closed it, and without workers nothing is accepted while a batch runs.  *)
(***************************************************************************)
Reached == \A c \in Conn : conn[c].status \in Up => channels[conn[c].fd] = c

Gone(c) ==
    conn[c].status = "DISCONNECTED" /\ InBatch("Release", c) =>
        /\ channels[conn[c].fd] = NoConn
        /\ \A d \in Conn : conn[d].fd = conn[c].fd /\ conn[d].status = "CONNECTING" =>
              ~InBatch("Established", d)

AcceptsHere == ~Workers /\ accepting.step # "idle" => pc = "handle"

GoneInv == Running /\ NoLateRelease => \A c \in Conn : Gone(c)

ReachInv == ~ShutByOthers /\ (NoLateRelease \/ OneRelease) => Reached

LEMMA AcceptsStep == AcceptsHere /\ [Next]_vars => AcceptsHere'
<1> SUFFICES ASSUME AcceptsHere, [Next]_vars PROVE AcceptsHere'
  OBVIOUS
<1>1. Workers' <=> Workers
  BY ProgramKept DEF Workers
<1>2. ASSUME NEW op, NEW c, Task(op, c), accepting' = accepting PROVE AcceptsHere'
  BY <1>1, <1>2 DEF Task, LoopIsFree, AcceptsHere
<1>3. CASE WorkerStep
  <2>1. CASE \E w \in SUBSET {c \in Conn : Open(c)} : Monitor(w)
    BY <2>1 DEF Monitor, AcceptsHere
  <2>2. CASE (\E c \in Conn, all \in BOOLEAN : HandleEvents(c, all)) \/ Tick
    BY <1>1, <2>2 DEF HandleEvents, Tick, baseVars, AcceptsHere
  <2>3. CASE RunTasks
    BY <1>1, <2>3 DEF RunTasks, Idle, AcceptsHere
  <2>4. ASSUME NEW c \in Conn,
               \/ EnableInactiveReleaseInLoop(c) \/ CancelInactiveReleaseInLoop(c)
               \/ CalledInLoop(c) \/ EstablishedInLoop(c) \/ ReleaseInLoop(c)
               \/ AddTimer(c) \/ UpdateTimer(c) \/ CancelTimer(c)
        PROVE  AcceptsHere'
    <3>1. accepting' = accepting
      BY <2>4 DEF EnableInactiveReleaseInLoop, CancelInactiveReleaseInLoop, CalledInLoop,
         EstablishedInLoop, ReleaseInLoop, RemoveConnection, AddTimer, UpdateTimer,
         CancelTimer, TimerTask, baseVars
    <3>2. \E op : Task(op, c)
      BY <2>4 DEF EnableInactiveReleaseInLoop, CancelInactiveReleaseInLoop, CalledInLoop,
         EstablishedInLoop, ReleaseInLoop, AddTimer, UpdateTimer, CancelTimer, TimerTask
    <3> QED
      BY <1>2, <3>1, <3>2
  <2> QED
    BY <1>3, <2>1, <2>2, <2>3, <2>4 DEF WorkerStep
<1>4. CASE BaseStep
  BY <1>1, <1>4 DEF BaseStep, Established, InsertConnection, RemoveConnectionInLoop,
     notBaseVars, Idle, AcceptsHere
<1>5. CASE \E c \in Conn, fd \in Fd : NewConnection(c, fd)
  BY <1>1, <1>5 DEF NewConnection, notBaseVars, AcceptsHere
<1>6. CASE UserStep \/ ClientStep \/ Second \/ UNCHANGED vars
  BY <1>1, <1>6 DEF UserStep, Hold, Drop, Call, notUserVars, ClientStep, ClientSends,
     ClientShutsDown, ClientResets, notClientVars, Second, loopVars, baseVars, vars, AcceptsHere
<1> QED
  BY <1>3, <1>4, <1>5, <1>6 DEF Next

LEMMA FdKept == LifeInv /\ Kind => \A d \in Conn : Born(d) => conn'[d].fd = conn[d].fd
<1> SUFFICES ASSUME LifeInv, Kind, NEW d \in Conn, Born(d) PROVE conn'[d].fd = conn[d].fd
  OBVIOUS
<1>1. CASE Quiet
  BY <1>1 DEF Quiet
<1>2. ASSUME NEW h, Served(h) PROVE conn'[d].fd = conn[d].fd
  <2>1. h \in HandlerState /\ h.c \in Conn /\ End(h) /\ BodyOK /\ h.k.fd = conn[h.c].fd
    BY <1>2, Bodied DEF Served, Runs, HandlerState
  <2>2. conn'[h.c] = h.k /\ \A e \in Conn \ {h.c} : conn'[e] = conn[e]
    BY <2>1, Ended
  <2> QED
    BY <2>1, <2>2
<1>3. ASSUME NEW c \in Conn, ReleaseInLoop(c), ~Freed(c) PROVE conn'[d].fd = conn[d].fd
  BY <1>3, Releases
<1>4. ASSUME NEW c \in Conn, NEW fd \in Fd, NewConnection(c, fd) PROVE conn'[d].fd = conn[d].fd
  BY <1>4, Arrives
<1> QED
  BY <1>1, <1>2, <1>3, <1>4 DEF Kind

LEMMA Rises ==
    ASSUME LifeInv, Running', [Next]_vars, NEW c \in Conn,
           conn[c].status = "CONNECTING", conn'[c].status # "CONNECTING"
    PROVE  EstablishedInLoop(c) \/ ReleaseInLoop(c) \/ (Established /\ ~Workers)
<1>1. ~Rest
  BY RestMoves DEF Aside
<1>2. \A d \in Conn, all \in BOOLEAN : ~HandleEvents(d, all)
  BY EventMoves DEF Aside
<1>3. ~Tick
  BY TickMoves
<1>4. ~RunTasks
  BY SwapMoves
<1>5. ASSUME NEW d \in Conn,
             \/ EnableInactiveReleaseInLoop(d) \/ CancelInactiveReleaseInLoop(d)
             \/ CalledInLoop(d) \/ EstablishedInLoop(d) \/ ReleaseInLoop(d)
             \/ AddTimer(d) \/ UpdateTimer(d) \/ CancelTimer(d)
      PROVE  EstablishedInLoop(c) \/ ReleaseInLoop(c)
  <2>1. CASE EnableInactiveReleaseInLoop(d)
    BY <2>1, EnableMoves DEF TaskOf, Aside
  <2>2. CASE CancelInactiveReleaseInLoop(d)
    BY <2>2, CancelMoves DEF TaskOf, Aside
  <2>3. CASE CalledInLoop(d)
    BY <2>3, CallMoves DEF TaskOf, Aside
  <2>4. CASE EstablishedInLoop(d)
    BY <2>4, EstablishedMoves DEF TaskOf, Aside
  <2>5. CASE ReleaseInLoop(d)
    BY <2>5, ReleaseMoves DEF TaskOf, Aside
  <2>6. CASE AddTimer(d) \/ UpdateTimer(d) \/ CancelTimer(d)
    BY <2>6 DEF AddTimer, UpdateTimer, CancelTimer, TimerTask
  <2> QED
    BY <1>5, <2>1, <2>2, <2>3, <2>4, <2>5, <2>6
<1>6. ~Established \/ ~Workers
  BY DEF Established
<1>7. \A d \in Conn, fd \in Fd : ~NewConnection(d, fd)
  BY ArriveMoves DEF Aside
<1>8. \A d \in Conn, op \in Calls : ~Call(d, op)
  BY CallPushes
<1> QED
  BY <1>1, <1>2, <1>3, <1>4, <1>5, <1>6, <1>7, <1>8, Turns

(* Only RunTasks fills the batch. *)
LEMMA BatchShrinks ==
    ASSUME LifeInv, [Next]_vars, ~RunTasks, NEW c \in Conn, NEW op, InBatch(op, c)'
    PROVE  InBatch(op, c)
<1>1. CASE pending' = pending
  BY <1>1 DEF InBatch
<1>2. ASSUME NEW d \in Conn, NEW e, Task(e, d) PROVE InBatch(op, c)
  BY <1>2, Taken DEF InBatch
<1>3. pending' = pending \/ \E d \in Conn : \E e : Task(e, d)
  BY DEF Next, vars, WorkerStep, BaseStep, UserStep, ClientStep, Monitor, HandleEvents, Tick,
     EnableInactiveReleaseInLoop, CancelInactiveReleaseInLoop, CalledInLoop,
     EstablishedInLoop, ReleaseInLoop, AddTimer, UpdateTimer, CancelTimer,
     TimerTask, Established, InsertConnection, RemoveConnectionInLoop, NewConnection, Hold,
     Drop, Call, ClientSends, ClientShutsDown, ClientResets, Second,
     loopVars, notBaseVars, notUserVars, notClientVars
<1> QED
  BY <1>1, <1>2, <1>3

LEMMA GoneNow ==
    ASSUME LifeInv, FoundInv, ~ShutByOthers, NEW c \in Conn, ReleaseInLoop(c), ~Freed(c),
           conn[c].status # "DISCONNECTED",
           NEW d \in Conn, conn'[d].fd = conn'[c].fd, conn'[d].status = "CONNECTING"
    PROVE  FALSE
<1>1. /\ conn[c].fd \in Fd /\ conn'[c].fd = conn[c].fd /\ conn'[c].status = "DISCONNECTED"
      /\ \A e \in Conn \ {c} : conn'[e] = conn[e]
  BY Releases
<1>2. d # c /\ conn'[d] = conn[d]
  BY <1>1
<1>3. file[conn[c].fd] = c /\ file[conn[c].fd] = d
  BY <1>1, <1>2 DEF FoundInv, OwnerOK
<1> QED
  BY <1>2, <1>3

LEMMA GoneStays ==
    ASSUME LifeInv, FoundInv, ~ShutByOthers, AcceptsHere, Reached, [Next]_vars, Running',
           pc = "run", NEW c \in Conn, Born(c), channels[conn[c].fd] = NoConn,
           \A d \in Conn : conn[d].fd = conn[c].fd /\ conn[d].status = "CONNECTING" =>
              ~InBatch("Established", d)
    PROVE  channels'[conn[c].fd] = NoConn
<1>1. Kind /\ BodyOK
  BY Kinds, Bodied
<1>2. conn[c].fd \in Fd
  BY <1>1 DEF Born, BodyOK, Object
<1>3. CASE Quiet
  BY <1>3 DEF Quiet
<1>4. ASSUME NEW h, Served(h) PROVE channels'[conn[c].fd] = NoConn
  <2>1. /\ h.c \in Conn /\ Sound(h) /\ h.k.fd = conn[h.c].fd
        /\ h.k.status \in Up /\ conn[h.c].status # "DISCONNECTED"
        /\ conn'[h.c] = h.k /\ channels' = h.channels
    BY <1>4, ServedSound
  <2>2. conn[h.c].fd # conn[c].fd
    <3> SUFFICES ASSUME conn[h.c].fd = conn[c].fd PROVE FALSE
      OBVIOUS
    <3>1. conn[h.c].status \notin Up
      BY <2>1, NoneAssumption DEF Reached
    <3>2. conn[h.c].status = "CONNECTING"
      BY <1>1, <2>1, <3>1 DEF BodyOK, Object, Status, Up
    <3>3. conn'[h.c].status \in Up
      BY <2>1
    <3>4. EstablishedInLoop(h.c) \/ ReleaseInLoop(h.c) \/ (Established /\ ~Workers)
      BY <2>1, <3>2, <3>3, Rises DEF Up
    <3>5. CASE EstablishedInLoop(h.c)
      <4>1. InBatch("Established", h.c)
        BY <2>1, <3>5, Taken DEF EstablishedInLoop, InBatch
      <4> QED
        BY <2>1, <3>2, <4>1
    <3>6. CASE ReleaseInLoop(h.c)
      BY <2>1, <3>3, <3>6, ReleaseMoves DEF Up
    <3>7. CASE Established /\ ~Workers
      BY <3>7 DEF Established, AcceptsHere
    <3> QED
      BY <3>4, <3>5, <3>6, <3>7
  <2> QED
    BY <1>2, <2>1, <2>2 DEF Sound, Placed
<1>5. ASSUME NEW d \in Conn, ReleaseInLoop(d), ~Freed(d) PROVE channels'[conn[c].fd] = NoConn
  BY <1>2, <1>5, Releases
<1>6. ASSUME NEW d \in Conn, NEW fd \in Fd, NewConnection(d, fd)
      PROVE  channels'[conn[c].fd] = NoConn
  BY <1>6, Arrives DEF epollVars
<1> QED
  BY <1>1, <1>3, <1>4, <1>5, <1>6 DEF Kind

LEMMA GoneStep ==
    /\ LifeInv /\ FoundInv /\ LateInv /\ AcceptsHere /\ ReachInv /\ GoneInv /\ [Next]_vars
    => GoneInv'
<1> SUFFICES ASSUME LifeInv, FoundInv, LateInv, AcceptsHere, ReachInv, GoneInv, [Next]_vars,
                    Running', NoLateRelease', NEW c \in Conn,
                    conn'[c].status = "DISCONNECTED", InBatch("Release", c)'
             PROVE  /\ channels'[conn'[c].fd] = NoConn
                    /\ \A d \in Conn :
                          conn'[d].fd = conn'[c].fd /\ conn'[d].status = "CONNECTING" =>
                          ~InBatch("Established", d)'
  BY DEF GoneInv, Gone
<1>1. program' = program /\ Running /\ Kind /\ Onward /\ BodyOK
  BY ProgramKept, RunningBefore, Kinds, KindOnward, Bodied
<1>2. NoLateRelease /\ ~ShutByOthers /\ Reached /\ Gone(c) /\ LateOf(c)
  BY <1>1, NoLateKept, NoLateNever DEF ReachInv, GoneInv, LateInv
<1>3. ~RunTasks
  <2> SUFFICES ASSUME RunTasks PROVE FALSE
    OBVIOUS
  <2>1. InTasks("Release", c) /\ conn' = conn
    BY SwapMoves, TimerOpsQueued
  <2> QED
    BY <1>2, <2>1 DEF LateOf, AskedInTime
<1>4. \A d \in Conn, op \in Op : InBatch(op, d)' => InBatch(op, d)
  BY <1>3, BatchShrinks
<1>5. InBatch("Release", c) /\ Born(c)
  BY <1>4, TimerOpsQueued DEF InBatch, LifeInv, QueuedOK, Queued
<1>6. pc = "run"
  <2>1. pending # <<>>
    BY <1>5, EmptySet DEF InBatch
  <2> QED
    BY <2>1 DEF LifeInv, PhaseOK
<1>7. CASE conn[c].status = "DISCONNECTED"
  <2>1. /\ channels[conn[c].fd] = NoConn
        /\ \A d \in Conn : conn[d].fd = conn[c].fd /\ conn[d].status = "CONNECTING" =>
              ~InBatch("Established", d)
    BY <1>2, <1>5, <1>7 DEF Gone
  <2>2. conn'[c].fd = conn[c].fd
    BY <1>1, <1>5, FdKept
  <2>3. channels'[conn[c].fd] = NoConn
    BY <1>2, <1>5, <1>6, <2>1, GoneStays
  <2>4. ASSUME NEW d \in Conn, conn'[d].fd = conn'[c].fd, conn'[d].status = "CONNECTING",
               InBatch("Established", d)'
        PROVE  FALSE
    <3>1. InBatch("Established", d) /\ Born(d)
      BY <1>4, <2>4, TimerOpsQueued DEF InBatch, LifeInv, QueuedOK, Queued
    <3>2. conn'[d].fd = conn[d].fd
      BY <1>1, <3>1, FdKept
    <3>3. conn[d].status = "CONNECTING"
      BY <1>1, <2>4 DEF Onward
    <3> QED
      BY <2>1, <2>2, <2>4, <3>1, <3>2, <3>3
  <2> QED
    BY <2>2, <2>3, <2>4
<1>8. CASE conn[c].status # "DISCONNECTED"
  <2>1. ReleaseInLoop(c) /\ ~Freed(c)
    <3>1. CASE Quiet
      BY <1>8, <3>1 DEF Quiet
    <3>2. ASSUME NEW h, Served(h) PROVE FALSE
      <4>1. /\ h.k.status \in Up /\ conn'[h.c] = h.k
            /\ \A d \in Conn \ {h.c} : conn'[d] = conn[d]
        BY <1>2, <3>2, ServedSound
      <4> QED
        BY <1>8, <4>1 DEF Up
    <3>3. ASSUME NEW d \in Conn, ReleaseInLoop(d), ~Freed(d), d # c PROVE FALSE
      BY <1>8, <3>3, Releases
    <3>4. ASSUME NEW d \in Conn, NEW fd \in Fd, NewConnection(d, fd) PROVE FALSE
      <4>1. /\ conn'[d].status = "CONNECTING"
            /\ \A e \in Conn \ {d} : conn'[e] = conn[e]
        BY <3>4, Arrives
      <4> QED
        BY <1>8, <4>1
    <3> QED
      BY <1>1, <3>1, <3>2, <3>3, <3>4 DEF Kind
  <2>2. channels'[conn'[c].fd] = NoConn
    BY <2>1, Releases
  <2> QED
    BY <1>2, <1>8, <2>1, <2>2, GoneNow
<1> QED
  BY <1>7, <1>8
(* What a step leaves found, if whoever it releases has its channel.       *)
LEMMA ReachedOn ==
    ASSUME LifeInv, FoundInv, ~ShutByOthers, Reached, Kind,
           \A c \in Conn : ReleaseInLoop(c) /\ ~Freed(c) =>
              conn[c].status # "DISCONNECTED" \/ channels[conn[c].fd] = NoConn
    PROVE  Reached'
<1> SUFFICES ASSUME NEW c \in Conn, conn'[c].status \in Up PROVE channels'[conn'[c].fd] = c
  BY DEF Reached
<1>1. BodyOK
  BY Bodied
<1>2. CASE Quiet
  BY <1>2 DEF Quiet, Reached
<1>3. ASSUME NEW h, Served(h) PROVE channels'[conn'[c].fd] = c
  <2>1. /\ h.c \in Conn /\ Sound(h)
        /\ h.k.fd = conn[h.c].fd /\ conn[h.c].fd \in Fd
        /\ conn'[h.c] = h.k
        /\ \A d \in Conn \ {h.c} : conn'[d] = conn[d]
        /\ channels' = h.channels
    BY <1>3, ServedSound
  <2>2. /\ \A d \in Fd : h.channels[d] \in {channels[d], h.c}
        /\ conn[h.c].status \in Up \/ h.channels[h.k.fd] = h.c
    BY <1>3 DEF Served, Runs
  <2>3. CASE c = h.c
    <3>1. h.channels[h.k.fd] \in {channels[h.k.fd], h.c}
      BY <2>1, <2>2
    <3>2. conn[h.c].status \in Up => channels[h.k.fd] = h.c
      BY <2>1 DEF Reached
    <3> QED
      BY <2>1, <2>2, <2>3, <3>1, <3>2
  <2>4. CASE c # h.c
    <3>1. conn[c].fd \in Fd /\ conn[c].status \in Up /\ conn'[c].fd = conn[c].fd
      BY <1>1, <2>1, <2>4 DEF LifeInv, LifeOK, Born, BodyOK, Object, Up
    <3>2. conn[c].fd # h.k.fd
      BY <2>1, <2>4, <3>1 DEF FoundInv, OwnerOK, Sound, Placed, Up
    <3>3. h.channels[conn[c].fd] = channels[conn[c].fd]
      BY <2>1, <3>1, <3>2 DEF Sound, Placed
    <3> QED
      BY <2>1, <3>1, <3>3 DEF Reached
  <2> QED
    BY <2>3, <2>4
<1>4. ASSUME NEW d \in Conn, ReleaseInLoop(d), ~Freed(d) PROVE channels'[conn'[c].fd] = c
  <2>1. /\ conn[d].fd \in Fd /\ conn'[d].status = "DISCONNECTED"
        /\ \A e \in Conn \ {d} : conn'[e] = conn[e]
        /\ \A fd \in Fd \ {conn[d].fd} : channels'[fd] = channels[fd]
    BY <1>4, Releases
  <2>2. c # d /\ conn'[c] = conn[c]
    BY <2>1 DEF Up
  <2>3. conn[c].fd \in Fd /\ channels[conn[c].fd] = c
    BY <1>1, <2>2 DEF LifeInv, LifeOK, Born, BodyOK, Object, Up, Reached
  <2>4. conn[c].fd # conn[d].fd
    <3>1. conn[d].status # "DISCONNECTED" \/ channels[conn[d].fd] = NoConn
      BY <1>4
    <3> QED
      BY <2>1, <2>2, <2>3, <3>1, NoneAssumption DEF FoundInv, OwnerOK, Up
  <2> QED
    BY <2>1, <2>2, <2>3, <2>4
<1>5. ASSUME NEW d \in Conn, NEW fd \in Fd, NewConnection(d, fd)
      PROVE  channels'[conn'[c].fd] = c
  <2>1. /\ conn'[d].status = "CONNECTING"
        /\ \A e \in Conn \ {d} : conn'[e] = conn[e]
        /\ channels' = channels
    BY <1>5, Arrives DEF epollVars
  <2> QED
    BY <2>1 DEF Reached, Up
<1> QED
  BY <1>2, <1>3, <1>4, <1>5 DEF Kind

LEMMA ReleasesGrow == LifeInv /\ FoundInv /\ ~ShutByOthers /\ Kind /\ OneRelease' => OneRelease
<1> SUFFICES ASSUME LifeInv, FoundInv, ~ShutByOthers, Kind, OneRelease', NEW c \in Conn
             PROVE  conn[c].releases <= 1
  BY DEF OneRelease
<1>1. conn'[c].releases <= 1
  BY DEF OneRelease
<1>2. CASE Quiet
  BY <1>1, <1>2 DEF Quiet
<1>3. ASSUME NEW h, Served(h) PROVE conn[c].releases <= 1
  BY <1>1, <1>3, ServedSound
<1>4. ASSUME NEW d \in Conn, ReleaseInLoop(d), ~Freed(d) PROVE conn[c].releases <= 1
  <2>1. /\ conn[d].releases \in Nat /\ conn'[d].releases = conn[d].releases + 1
        /\ \A e \in Conn \ {d} : conn'[e] = conn[e]
    BY <1>4, Releases
  <2> QED
    BY <1>1, <2>1
<1>5. ASSUME NEW d \in Conn, NEW fd \in Fd, NewConnection(d, fd) PROVE conn[c].releases <= 1
  BY <1>1, <1>5, Arrives
<1> QED
  BY <1>2, <1>3, <1>4, <1>5 DEF Kind

LEMMA ReachStep ==
    LifeInv /\ FoundInv /\ GoneInv /\ ReachInv /\ [Next]_vars => ReachInv'
<1> SUFFICES ASSUME LifeInv, FoundInv, GoneInv, ReachInv, [Next]_vars,
                    ~ShutByOthers', NoLateRelease' \/ OneRelease'
             PROVE  Reached'
  BY DEF ReachInv
<1>1. program' = program /\ Kind
  BY ProgramKept, Kinds
<1>2. ~ShutByOthers /\ (NoLateRelease \/ OneRelease') /\ (NoLateRelease \/ OneRelease)
  BY <1>1, NoLateKept, ReleasesGrow DEF ShutByOthers, Calls
<1>3. ASSUME NEW c \in Conn, ReleaseInLoop(c), ~Freed(c), conn[c].status = "DISCONNECTED"
      PROVE  channels[conn[c].fd] = NoConn
  <2>1. CASE NoLateRelease
    <3>1. Task("Release", c) /\ Running
      BY <1>3 DEF ReleaseInLoop, Task
    <3>2. InBatch("Release", c)
      BY <3>1, Taken DEF InBatch
    <3> QED
      BY <1>3, <2>1, <3>1, <3>2 DEF GoneInv, Gone
  <2>2. CASE OneRelease'
    <3>1. conn[c].releases \in Nat /\ conn'[c].releases = conn[c].releases + 1
      BY <1>3, Releases
    <3>2. conn'[c].releases <= 1 /\ conn[c].releases > 0
      BY <1>2, <1>3, <2>2 DEF OneRelease, FoundInv, ReleasedOK
    <3> QED
      BY <3>1, <3>2
  <2> QED
    BY <1>2, <2>1, <2>2
<1> QED
  BY <1>1, <1>2, <1>3, ReachedOn DEF ReachInv

LEMMA ReachInit == Init => ReachInv /\ AcceptsHere /\ GoneInv
<1> SUFFICES ASSUME Init PROVE ReachInv /\ AcceptsHere /\ GoneInv
  OBVIOUS
<1>1. Reached /\ AcceptsHere
  BY DEF Init, Reached, Up, AcceptsHere, Idle
<1>2. \A c \in Conn : Gone(c)
  BY DEF Init, Gone
<1> QED
  BY <1>1, <1>2 DEF ReachInv, GoneInv

-----------------------------------------------------------------------------
(***************************************************************************)
(* The properties of ConnectionServer, for every value of the constants.   *)
(***************************************************************************)

KeptAlways ==
    /\ LifeInv /\ FoundInv /\ KeptInv /\ OwedInv /\ GraceInv
    /\ ArmInv /\ LateInv /\ NoDanglingTimer
    /\ NoSeconds /\ EstInv /\ EstablishedInTime
    /\ AcceptsHere /\ GoneInv /\ ReachInv

LEMMA AllKept == Safety => []KeptAlways
<1>1. Init => KeptAlways
  BY LifeInit, FoundInit, KeptInit, OwedInit, GraceInit, ArmInit, LateInit, DanglingInit,
     EstInit, ReachInit DEF KeptAlways
<1>2. KeptAlways /\ [Next]_vars => KeptAlways'
  <2> SUFFICES ASSUME KeptAlways, [Next]_vars PROVE KeptAlways'
    OBVIOUS
  <2>1. LifeInv' /\ FoundInv' /\ KeptInv' /\ OwedInv' /\ GraceInv'
    BY LifeStep, FoundStep, KeptStep, OwedStep, GraceStep DEF KeptAlways
  <2>2. ArmInv' /\ LateInv' /\ NoDanglingTimer'
    BY ArmStep, LateStep, DanglingStep DEF KeptAlways
  <2>3. NoSeconds' /\ EstInv' /\ EstablishedInTime'
    BY SecondsStep, EstStep, EstablishedInTimeStep DEF KeptAlways
  <2>4. AcceptsHere' /\ GoneInv' /\ ReachInv'
    BY AcceptsStep, GoneStep, ReachStep DEF KeptAlways
  <2> QED
    BY <2>1, <2>2, <2>3, <2>4 DEF KeptAlways
<1> QED
  BY <1>1, <1>2, PTL DEF Safety

(* Room to write in is waited for while there is output, in any program;   *)
(* and for nothing only by a connection whose release is queued, in any    *)
(* that does not send nothing and go on (server.hpp:894-899, 946-951,      *)
(* 976-986).                                                               *)
THEOREM OutputIsWatched == Safety => []WatchedWhileUnsent
<1>1. FoundInv /\ OwedInv => WatchedWhileUnsent
  BY DEF FoundInv, MaskOK, OwedInv, WatchedWhileUnsent, Up, Queued
<1> QED
  BY <1>1, AllKept, PTL DEF KeptAlways

(* No event reaches a channel that was released, or one of an earlier      *)
(* owner of the descriptor (server.hpp:430-492, 956-958).                  *)
THEOREM FoundIsNeverStale == Safety => []FoundIsAlive
<1>1. LifeInv /\ FoundInv /\ KeptInv => FoundIsAlive
  <2> SUFFICES ASSUME LifeInv, FoundInv, KeptInv, ~ShutByOthers,
                      NEW fd \in Fd, channels[fd] # NoConn
               PROVE  LET c == channels[fd]
                      IN  /\ file[fd] = c /\ conn[c].fd = fd
                          /\ conn[c].status # "DISCONNECTED" /\ ~Freed(c)
    BY DEF FoundIsAlive
  <2> DEFINE c == channels[fd]
  <2>1. c \in Conn
    BY Bodied DEF BodyOK
  <2>2. conn[c].fd = fd /\ conn[c].status \in Up
    BY DEF FoundInv, TablesOK
  <2>3. conn[c].status # "DISCONNECTED" /\ Born(c)
    BY <2>2, NoneAssumption DEF Up, Born
  <2>4. file[fd] = c
    BY <2>1, <2>2, <2>3 DEF FoundInv, OwnerOK
  <2>5. ~Freed(c)
    BY <2>1, <2>3 DEF KeptInv, Freed
  <2> QED
    BY <2>2, <2>3, <2>4, <2>5
<1> QED
  BY <1>1, AllKept, PTL DEF KeptAlways

(* An object is freed only after its release, which closed its descriptor, *)
(* and the map leaks none (server.hpp:954-968, 1097-1119).                 *)
THEOREM NothingLeaks == Safety => []FreedIsClosed
<1>1. FoundInv /\ KeptInv => FreedIsClosed
  <2> SUFFICES ASSUME FoundInv, KeptInv, ~ShutByOthers, NEW c \in Conn
               PROVE  /\ Freed(c) => conn[c].status = "DISCONNECTED" /\ ~Open(c)
                      /\ c \in connections /\ conn[c].status = "DISCONNECTED" =>
                            c \in ToSet(baseTasks)
    BY DEF FreedIsClosed
  <2>1. Freed(c) => conn[c].status = "DISCONNECTED"
    BY DEF KeptInv, Freed, Born
  <2>2. conn[c].status = "DISCONNECTED" => ~Open(c)
    BY DEF FoundInv, OwnerOK, Open
  <2> QED
    BY <2>1, <2>2 DEF KeptInv
<1> QED
  BY <1>1, AllKept, PTL DEF KeptAlways

(* The events of a connected one find it, with the mask its channel has,   *)
(* although Epoller::Remove goes by the descriptor: if nothing releases a  *)
(* connection in a later batch, or as long as none was released twice      *)
(* (server.hpp:479-487, 954-968).                                          *)
THEOREM ConnectedIsReached == Safety => []ConnectedIsFound
<1>1. LifeInv /\ FoundInv /\ ReachInv => ConnectedIsFound
  <2> SUFFICES ASSUME LifeInv, FoundInv, ReachInv, ~ShutByOthers, NoLateRelease \/ OneRelease,
                      NEW c \in Conn, conn[c].status \in Up
               PROVE  /\ channels[conn[c].fd] = c
                      /\ conn[c].fd \in registered
                      /\ interest[conn[c].fd] = conn[c].events
                      /\ "IN" \in conn[c].events
    BY DEF ConnectedIsFound, Up
  <2>1. channels[conn[c].fd] = c
    BY DEF ReachInv, Reached
  <2>2. conn[c].fd \in Fd
    BY Bodied DEF LifeInv, LifeOK, Born, BodyOK, Object, Up
  <2> QED
    BY <2>1, <2>2, NoneAssumption DEF FoundInv, TablesOK, MaskOK
<1> QED
  BY <1>1, AllKept, PTL DEF KeptAlways

(* The inactivity timer is what was asked for last, whatever refreshes,    *)
(* ticks, releases and cancellings of other threads come in between        *)
(* (server.hpp:919-939).                                                   *)
THEOREM TimersDoAsAsked == Safety => []TimersAsAsked
<1>1. LifeInv /\ ArmInv => TimersAsAsked
  BY ArmSettled
<1> QED
  BY <1>1, AllKept, PTL DEF KeptAlways

(* A connection that was brought to its end stays there (server.hpp:942,   *)
(* 956).                                                                   *)
THEOREM NeverGoesBack == Safety => StatusAdvances
<1> DEFINE Advances ==
       \A c \in Conn :
         /\ conn[c].status = "DISCONNECTING" =>
               conn'[c].status \in {"DISCONNECTING", "DISCONNECTED"}
         /\ conn[c].status = "DISCONNECTED" /\ ~ShutByOthers =>
               conn'[c].status = "DISCONNECTED"
<1>1. LifeInv /\ FoundInv /\ [Next]_vars => Advances
  <2> SUFFICES ASSUME LifeInv, FoundInv, [Next]_vars PROVE Advances
    OBVIOUS
  <2>1. Kind
    BY Kinds
  <2>2. CASE Quiet
    BY <2>2 DEF Quiet
  <2>3. ASSUME NEW h, Served(h) PROVE Advances
    <3>1. h \in HandlerState /\ h.c \in Conn /\ End(h) /\ BodyOK
      BY <2>3, Bodied DEF Served, Runs, HandlerState
    <3>2. conn'[h.c] = h.k /\ \A d \in Conn \ {h.c} : conn'[d] = conn[d]
      BY <3>1, Ended
    <3>3. conn[h.c].status = "DISCONNECTING" => h.k.status = "DISCONNECTING"
      BY <2>3 DEF Served, Runs
    <3>4. ~ShutByOthers => conn[h.c].status # "DISCONNECTED"
      BY <2>3, ServedSound
    <3> QED
      BY <3>1, <3>2, <3>3, <3>4
  <2>4. ASSUME NEW c \in Conn, ReleaseInLoop(c), ~Freed(c) PROVE Advances
    <3>1. /\ conn'[c].status = "DISCONNECTED"
          /\ \A d \in Conn \ {c} : conn'[d] = conn[d]
      BY <2>4, Releases
    <3> QED
      BY <3>1
  <2>5. ASSUME NEW c \in Conn, NEW fd \in Fd, NewConnection(c, fd) PROVE Advances
    BY <2>5, Arrives
  <2> QED
    BY <2>1, <2>2, <2>3, <2>4, <2>5 DEF Kind
<1>2. LifeInv /\ FoundInv /\ [Next]_vars => [Advances]_vars
  BY <1>1
<1> QED
  BY <1>2, AllKept, PTL DEF KeptAlways, Safety, StatusAdvances

(* A connection is released once, whichever rounds of events, silent       *)
(* shutdowns and Sends of other threads there are, as long as no message   *)
(* callback shuts down in silence twice, one call within the other         *)
(* (server.hpp:886-907, 941-968, 1023).                                    *)
THEOREM ReleasedAtMostOnce == Safety => []ReleasedOnce
<1>1. GraceInv => ReleasedOnce
  BY DEF GraceInv, Asking, ReleasedOnce
<1> QED
  BY <1>1, AllKept, PTL DEF KeptAlways

(* Its output is flushed before its descriptor is closed (server.hpp:894-  *)
(* 899, 946-951).                                                          *)
THEOREM FlushedFirst == Safety => []FlushedBeforeClose
<1>1. GraceInv => FlushedBeforeClose
  BY DEF GraceInv, Asking, FlushedBeforeClose
<1> QED
  BY <1>1, AllKept, PTL DEF KeptAlways

(* Each way to die needs its cause: an assertion that the acceptor is held *)
(* up, a dangling closure that a release comes late, and without timers,   *)
(* resets, calls of other threads and silent shutdowns within shutdowns    *)
(* there is none (server.hpp:856-939, 1107-1117).                          *)
THEOREM NothingDies == Safety => []NoFault
<1>1. EstablishedInTime /\ NoDanglingTimer /\ GraceInv => NoFault
  BY DEF GraceInv, Lives, NoFault
<1> QED
  BY <1>1, AllKept, PTL DEF KeptAlways
=============================================================================
