--------------------------- MODULE TcpServerProofs ---------------------------
(***************************************************************************)
(* What TLAPS proves of LoopThread and of TcpServer, for any number of     *)
(* workers, clients and starts: the hand-over and the dealing of loops are *)
(* right in one life of the process, and in a server that crashes and is   *)
(* started again; and its base loop never waits in accept.                 *)
(***************************************************************************)
EXTENDS TcpServer, FiniteSets, FiniteSetTheorems, TLAPS

USE BoundAssumption

-----------------------------------------------------------------------------
(* Create goes through the threads in order, Next through the loops. *)

Creating == {"launch", "construct", "check", "lock", "predicate", "wait", "waiting"}

CreatedInOrder ==
    /\ pc \in Creating   => made < thread_count
    /\ pc = "configure"  => made = 0
    /\ pc = "serve"      => made = thread_count
    /\ \A i \in Thread : i < made => i \in loop

InTurn ==
    /\ pc # "serve" => next_loop = 0 /\ \A i \in Thread : ahead[i] = 0
    /\ pc = "serve" /\ thread_count > 0 =>
          /\ next_loop < thread_count
          /\ \A i \in 0..(thread_count - 1) : ahead[i] = IF i < next_loop THEN 1 ELSE 0

PoolInv == TypeOK /\ CreatedInOrder /\ InTurn

(* One more connection keeps every loop within one of the others, and      *)
(* starts a new round after the last loop.                                 *)
LEMMA DealtInTurn ==
    ASSUME TypeOK, InTurn, pc = "serve", thread_count > 0
    PROVE  /\ Dealt(next_loop) \in [Thread -> Nat]
           /\ (next_loop + 1) % thread_count =
                 IF next_loop + 1 = thread_count THEN 0 ELSE next_loop + 1
           /\ \A i \in 0..(thread_count - 1) :
                 Dealt(next_loop)[i] =
                    IF i < (next_loop + 1) % thread_count THEN 1 ELSE 0
<1> DEFINE given == [ahead EXCEPT ![next_loop] = @ + 1]
<1> USE DEF TypeOK, InTurn, Thread
<1>1. next_loop \in 0..(thread_count - 1) /\ next_loop \in Thread
  OBVIOUS
<1>2. /\ given \in [Thread -> Nat]
      /\ \A i \in 0..(thread_count - 1) : given[i] = IF i <= next_loop THEN 1 ELSE 0
  BY <1>1
<1>3. Dealt(next_loop) = IF \A j \in 0..(thread_count - 1) : given[j] > 0
                         THEN [j \in Thread |-> IF j < thread_count THEN given[j] - 1
                                                                    ELSE given[j]]
                         ELSE given
  BY DEF Dealt
<1> HIDE DEF given
<1>4. CASE next_loop + 1 = thread_count
  <2>1. \A j \in 0..(thread_count - 1) : given[j] = 1
    BY <1>1, <1>2, <1>4
  <2>2. Dealt(next_loop) = [j \in Thread |-> IF j < thread_count THEN given[j] - 1
                                                                 ELSE given[j]]
    BY <2>1, <1>3
  <2>3. (next_loop + 1) % thread_count = 0
    BY <1>4
  <2>4. \A j \in Thread : (IF j < thread_count THEN given[j] - 1 ELSE given[j]) \in Nat
    BY <1>2, <2>1
  <2>5. Dealt(next_loop) \in [Thread -> Nat]
    BY <2>2, <2>4
  <2>6. \A i \in 0..(thread_count - 1) : Dealt(next_loop)[i] = 0
    BY <2>1, <2>2
  <2> QED
    BY <2>3, <2>5, <2>6, <1>4
<1>5. CASE next_loop + 1 # thread_count
  <2>1. next_loop + 1 \in 0..(thread_count - 1) /\ ~(given[next_loop + 1] > 0)
    BY <1>1, <1>2, <1>5
  <2>2. Dealt(next_loop) = given
    BY <2>1, <1>3
  <2>3. (next_loop + 1) % thread_count = next_loop + 1
    BY <2>1
  <2> QED
    BY <1>1, <1>2, <2>2, <2>3, <1>5
<1> QED
  BY <1>4, <1>5

LEMMA PoolInit == Init => PoolInv
  BY DEF Init, PoolInv, TypeOK, CreatedInOrder, InTurn, Thread, Creating

LEMMA PoolStep == PoolInv /\ [Next]_vars => PoolInv'
<1> SUFFICES ASSUME PoolInv, [Next]_vars PROVE PoolInv'
  OBVIOUS
<1> USE DEF PoolInv
<1>1. CASE NextLoop
  <2>1. Dealt(next_loop) \in [Thread -> Nat]
    BY <1>1, DealtInTurn DEF NextLoop
  <2>2. next_loop' = IF next_loop + 1 = thread_count THEN 0 ELSE next_loop + 1
    BY <1>1, DealtInTurn DEF NextLoop
  <2>3. \A i \in 0..(thread_count - 1) : ahead'[i] = IF i < next_loop' THEN 1 ELSE 0
    BY <1>1, DealtInTurn DEF NextLoop
  <2>4. TypeOK'
    BY <1>1, <2>1, <2>2 DEF NextLoop, TypeOK, InTurn, Thread
  <2>5. CreatedInOrder'
    BY <1>1 DEF NextLoop, CreatedInOrder
  <2>6. InTurn'
    BY <1>1, <2>2, <2>3 DEF NextLoop, InTurn, TypeOK
  <2> QED
    BY <2>4, <2>5, <2>6
<1>2. ASSUME NEW count \in 0..MaxThreads, SetCount(count) PROVE PoolInv'
  BY <1>2 DEF SetCount, TypeOK, CreatedInOrder, InTurn, Thread, Creating
<1>3. CASE Start
  BY <1>3 DEF Start, TypeOK, CreatedInOrder, InTurn, Thread, Creating
<1>4. CASE Launch \/ Construct
  BY <1>4 DEF Launch, Construct, TypeOK, CreatedInOrder, InTurn, Thread, Creating
<1>5. CASE CheckLoop \/ Predicate
  <2> USE DEF TypeOK, CreatedInOrder, InTurn, Thread, Creating
  <2>1. CASE made \in loop
    <3>1. /\ Returned
          /\ mutex' \in [Thread -> {"raw", "free", "base", "entry"}]
          /\ UNCHANGED <<thread_count, thread, loop, next_loop, overtook, ahead>>
          /\ pc \in Creating
      BY <1>5, <2>1 DEF CheckLoop, Predicate
    <3>2. CASE made + 1 < thread_count
      BY <2>1, <3>1, <3>2 DEF Returned
    <3>3. CASE made + 1 = thread_count
      BY <2>1, <3>1, <3>3 DEF Returned
    <3> QED
      BY <3>1, <3>2, <3>3
  <2>2. CASE made \notin loop
    BY <1>5, <2>2 DEF CheckLoop, Predicate
  <2> QED
    BY <2>1, <2>2
<1>6. CASE LockLoop \/ Wait \/ WakeSpuriously
  BY <1>6 DEF LockLoop, Wait, WakeSpuriously, TypeOK, CreatedInOrder, InTurn, Thread, Creating
<1>7. ASSUME NEW i \in Thread, ThreadEntry(i) PROVE PoolInv'
  <2> USE DEF TypeOK, CreatedInOrder, InTurn, Creating
  <2>1. CASE Lock(i) \/ SleepOnRawMutex(i)
    BY <2>1 DEF Lock, SleepOnRawMutex
  <2>2. CASE Assign(i) \/ Unlock(i)
    BY <2>2 DEF Assign, Unlock
  <2>3. CASE NotifyAll(i)
    BY <2>3 DEF NotifyAll
  <2> QED
    BY <1>7, <2>1, <2>2, <2>3 DEF ThreadEntry
<1>8. CASE UNCHANGED vars
  BY <1>8 DEF vars, TypeOK, CreatedInOrder, InTurn
<1> QED
  BY <1>1, <1>2, <1>3, <1>4, <1>5, <1>6, <1>7, <1>8
     DEF Next, Base, GetLoop, NextIsBase, Loop

LEMMA PoolCorrect == Spec => []PoolInv
  BY PoolInit, PoolStep, PTL DEF Spec

(* The variables of the pool and its threads keep their types. *)
THEOREM TypeCorrect == Spec => []TypeOK
  BY PoolCorrect, PTL DEF PoolInv

(* LoopThreadPool::Next deals connections to existing loops, in turn. *)
THEOREM DealingCorrect == Spec => []DealtEvenly
<1>1. PoolInv => DealtEvenly
  BY DEF PoolInv, TypeOK, CreatedInOrder, InTurn, DealtEvenly, Thread
<1> QED
  BY <1>1, PoolCorrect, PTL

-----------------------------------------------------------------------------
(* The hand-over of a loop by a thread that does not overtake the           *)
(* construction of its mutex: who is where says who holds the mutex, and    *)
(* _loop is set by the thread that is past its assignment.                  *)

Unborn(i) == i > made \/ (i = made /\ pc \in {"configure", "launch", "serve"})

MutexTellsWho ==
    \A i \in Thread \ overtook :
       /\ mutex[i] = "raw"   <=> Unborn(i) \/ (i = made /\ pc = "construct")
       /\ mutex[i] = "entry" <=> InEntry(i)
       /\ mutex[i] = "base"  <=> i = made /\ InGetLoop

ThreadTellsLoop ==
    \A i \in Thread \ overtook :
       /\ thread[i] = "none" <=> Unborn(i)
       /\ thread[i] # "asleep"
       /\ i \in loop <=> thread[i] \in {"notify", "unlock", "start"}

HandOverInv == /\ MutexTellsWho
               /\ ThreadTellsLoop
               /\ pc = "wait" /\ made \notin overtook => thread[made] = "lock"
               /\ NoLostNotification

LEMMA HandOverInit == Init => HandOverInv
  BY DEF Init, HandOverInv, MutexTellsWho, ThreadTellsLoop, NoLostNotification,
         Unborn, InEntry, InGetLoop, Thread

LEMMA HandOverStep ==
    PoolInv /\ HandOverInv /\ [Next]_vars => HandOverInv'
<1> SUFFICES ASSUME PoolInv, HandOverInv, [Next]_vars PROVE HandOverInv'
  OBVIOUS
<1> USE DEF PoolInv, TypeOK, CreatedInOrder, HandOverInv, MutexTellsWho, ThreadTellsLoop,
            NoLostNotification, Unborn, InEntry, InGetLoop, Thread, Creating
<1>1. CASE NextLoop
  BY <1>1 DEF NextLoop
<1>2. ASSUME NEW count \in 0..MaxThreads, SetCount(count) PROVE HandOverInv'
  BY <1>2 DEF SetCount
<1>3. CASE Start
  BY <1>3 DEF Start
<1>4. CASE Launch
  BY <1>4 DEF Launch
<1>5. CASE Construct
  BY <1>5 DEF Construct
<1>6. CASE CheckLoop
  BY <1>6 DEF CheckLoop, Returned
<1>7. CASE LockLoop
  BY <1>7 DEF LockLoop
<1>8. CASE Predicate
  BY <1>8 DEF Predicate, Returned
<1>9. CASE Wait \/ WakeSpuriously
  BY <1>9 DEF Wait, WakeSpuriously
<1>10. ASSUME NEW i \in Thread, ThreadEntry(i) PROVE HandOverInv'
  <2>1. CASE Lock(i)
    BY <2>1 DEF Lock
  <2>5. CASE SleepOnRawMutex(i)
    BY <2>5 DEF SleepOnRawMutex
  <2>2. CASE Assign(i)
    BY <2>2 DEF Assign
  <2>3. CASE NotifyAll(i)
    BY <2>3 DEF NotifyAll
  <2>4. CASE Unlock(i)
    BY <2>4 DEF Unlock
  <2> QED
    BY <1>10, <2>1, <2>2, <2>3, <2>4, <2>5 DEF ThreadEntry
<1>11. CASE UNCHANGED vars
  BY <1>11 DEF vars
<1> QED
  BY <1>1, <1>2, <1>3, <1>4, <1>5, <1>6, <1>7, <1>8, <1>9, <1>10, <1>11
     DEF Next, Base, GetLoop, NextIsBase, Loop

(* ThreadEntry and GetLoop exclude each other, unless the thread overtakes *)
(* its constructor ...                                                     *)
THEOREM ExclusionCorrect == Spec => []MutualExclusion
<1>1. PoolInv /\ HandOverInv => MutualExclusion
  <2> SUFFICES ASSUME PoolInv, HandOverInv, InGetLoop, made \notin overtook
               PROVE  ~InEntry(made)
    BY DEF MutualExclusion
  <2>1. made \in Thread
    BY DEF PoolInv, TypeOK, CreatedInOrder, InGetLoop, Creating, Thread
  <2> QED
    BY <2>1 DEF HandOverInv, MutexTellsWho
<1> QED
  BY <1>1, PoolCorrect, HandOverInit, HandOverStep, PTL DEF Spec

(* ... and GetLoop never sleeps on a loop that was announced already. *)
THEOREM HandOverCorrect == Spec => []NoLostNotification
  BY PoolCorrect, HandOverInit, HandOverStep, PTL DEF Spec, HandOverInv

-----------------------------------------------------------------------------
(* The pool in the server: it makes a step of its own, or none, or all of  *)
(* it goes with the process.                                               *)

LEMMA PoolOrCrash == [ServerNext]_serverVars => [Next]_vars \/ Init'
<1> SUFFICES ASSUME [ServerNext]_serverVars PROVE [Next]_vars \/ Init'
  OBVIOUS
<1>1. CASE UNCHANGED serverVars
  BY <1>1 DEF serverVars, poolVars
<1>2. CASE Crash
  BY <1>2 DEF Crash, Init
<1>3. CASE \/ \E listens \in BOOLEAN : Construction(listens)
           \/ Poll
           \/ \E c \in Client : Release(c) \/ ClientStep(c)
  BY <1>3 DEF Construction, Poll, Release, ClientStep, poolVars
<1>4. CASE NewConnection
  BY <1>4 DEF NewConnection, poolVars, Next, Base
<1>5. CASE \E count \in 0..MaxThreads : Configure(count)
  BY <1>5 DEF Configure, Next, Base
<1>6. CASE StartServer \/ Create \/ Woken
  BY <1>6 DEF StartServer, Create, Woken, Next, Base
<1>7. CASE \E i \in Thread : Worker(i)
  BY <1>7 DEF Worker, Next
<1> QED
  BY <1>1, <1>2, <1>3, <1>4, <1>5, <1>6, <1>7 DEF ServerNext

ServerPoolInv == PoolInv /\ HandOverInv

LEMMA ServerPoolStep ==
    ServerPoolInv /\ [ServerNext]_serverVars => ServerPoolInv'
<1>1. Init => ServerPoolInv
  BY PoolInit, HandOverInit DEF ServerPoolInv
<1>2. Init' => ServerPoolInv'
  BY <1>1, PTL
<1> QED
  BY <1>2, PoolOrCrash, PoolStep, HandOverStep DEF ServerPoolInv

LEMMA ServerPoolCorrect == ServerSpec => []ServerPoolInv
<1>1. ServerInit => ServerPoolInv
  BY PoolInit, HandOverInit DEF ServerInit, ServerPoolInv
<1> QED
  BY <1>1, ServerPoolStep, PTL DEF ServerSpec

(* In every life of the process connections are dealt to loops that exist, *)
(* in turn (server.hpp:806-814).                                           *)
THEOREM ServerDealsEvenly == ServerSpec => []DealtEvenly
<1>1. ServerPoolInv => DealtEvenly
  BY BoundAssumption DEF ServerPoolInv, PoolInv, TypeOK, CreatedInOrder, InTurn, DealtEvenly, Thread
<1> QED
  BY <1>1, ServerPoolCorrect, PTL

(* In every life of the process GetLoop never sleeps on a loop that was    *)
(* announced already (server.hpp:754-775).                                 *)
THEOREM ServerLosesNoNotification == ServerSpec => []NoLostNotification
<1>1. ServerPoolInv => NoLostNotification
  BY DEF ServerPoolInv, HandOverInv
<1> QED
  BY <1>1, ServerPoolCorrect, PTL

-----------------------------------------------------------------------------
(* The listening socket.  A waiting client is in the queue, once; the      *)
(* descriptors that are held are counted; and while the base loop may get  *)
(* to accept its socket does not block.                                    *)

ListenInv ==
    /\ A!TypeOK
    /\ queue \in Seq(Client)
    /\ IsFiniteSet(A!Held)
    /\ server # "blocked"
    /\ server \in {"wait", "accept"} => socket.nonblock

LEMMA EmptyQueue ==
    /\ <<>> \in Seq(Client)
    /\ A!IsInjective(<<>>)
    /\ A!ToSet(<<>>) = {}
    /\ Len(<<>>) = 0
  BY DEF A!IsInjective, A!ToSet

LEMMA Appended ==
    ASSUME NEW q \in Seq(Client), NEW c \in Client,
           A!IsInjective(q), c \notin A!ToSet(q)
    PROVE  /\ Append(q, c) \in Seq(Client)
           /\ A!IsInjective(Append(q, c))
           /\ A!ToSet(Append(q, c)) = A!ToSet(q) \cup {c}
           /\ Len(Append(q, c)) = Len(q) + 1
<1> DEFINE r == Append(q, c)
<1>1. /\ r \in Seq(Client)
      /\ Len(r) = Len(q) + 1
      /\ \A j \in DOMAIN q : j \in DOMAIN r /\ r[j] = q[j]
      /\ r[Len(q) + 1] = c
      /\ DOMAIN r = DOMAIN q \cup {Len(q) + 1}
  OBVIOUS
<1> HIDE DEF r
<1>2. A!IsInjective(r)
  BY <1>1 DEF A!IsInjective, A!ToSet
<1>3. A!ToSet(r) = A!ToSet(q) \cup {c}
  BY <1>1 DEF A!ToSet
<1> QED
  BY <1>1, <1>2, <1>3 DEF r

LEMMA Removed ==
    ASSUME NEW q \in Seq(Client), A!IsInjective(q), NEW i \in DOMAIN q
    PROVE  /\ A!RemoveAt(q, i) \in Seq(Client)
           /\ A!IsInjective(A!RemoveAt(q, i))
           /\ A!ToSet(A!RemoveAt(q, i)) = A!ToSet(q) \ {q[i]}
           /\ Len(A!RemoveAt(q, i)) = Len(q) - 1
<1> DEFINE r == A!RemoveAt(q, i)
<1>1. /\ r \in Seq(Client)
      /\ Len(r) = Len(q) - 1
      /\ \A j \in 1 .. Len(q) - 1 : r[j] = IF j < i THEN q[j] ELSE q[j + 1]
  <2> DEFINE front == SubSeq(q, 1, i - 1)
             back  == SubSeq(q, i + 1, Len(q))
  <2>1. i \in 1 .. Len(q)
    OBVIOUS
  <2>2. /\ front \in Seq(Client) /\ Len(front) = i - 1
        /\ \A j \in 1 .. i - 1 : front[j] = q[j]
    BY <2>1
  <2>3. /\ back \in Seq(Client) /\ Len(back) = Len(q) - i
        /\ \A j \in 1 .. Len(q) - i : back[j] = q[i + j]
    BY <2>1
  <2>4. r = front \o back
    BY DEF A!RemoveAt
  <2> HIDE DEF front, back, r
  <2>5. r \in Seq(Client) /\ Len(r) = Len(q) - 1
    BY <2>1, <2>2, <2>3, <2>4
  <2>6. ASSUME NEW j \in 1 .. Len(q) - 1
        PROVE  r[j] = IF j <= i - 1 THEN front[j] ELSE back[j - (i - 1)]
    <3>1. front \in Seq(Client) /\ back \in Seq(Client)
      BY <2>2, <2>3
    <3>2. \A k \in 1 .. Len(front) + Len(back) :
              (front \o back)[k] = IF k <= Len(front) THEN front[k] ELSE back[k - Len(front)]
      BY ONLY <3>1
    <3>3. j \in 1 .. Len(front) + Len(back) /\ Len(front) = i - 1
      BY <2>1, <2>2, <2>3
    <3> QED
      BY <2>4, <3>2, <3>3
  <2>7. ASSUME NEW j \in 1 .. Len(q) - 1 PROVE r[j] = IF j < i THEN q[j] ELSE q[j + 1]
    <3>1. CASE j < i
      BY <2>1, <2>2, <2>6, <3>1
    <3>2. CASE ~(j < i)
      <4>1. j - (i - 1) \in 1 .. Len(q) - i /\ i + (j - (i - 1)) = j + 1 /\ ~(j <= i - 1)
        BY <2>1, <3>2
      <4> QED
        BY <2>3, <2>6, <3>2, <4>1
    <3> QED
      BY <3>1, <3>2
  <2> QED
    BY <2>5, <2>7
<1> HIDE DEF r
<1>2. A!IsInjective(r)
  <2> SUFFICES ASSUME NEW a \in 1 .. Len(q) - 1, NEW b \in 1 .. Len(q) - 1, r[a] = r[b]
               PROVE  a = b
    BY <1>1 DEF A!IsInjective
  <2> DEFINE from(j) == IF j < i THEN j ELSE j + 1
  <2>1. from(a) \in DOMAIN q /\ from(b) \in DOMAIN q
    OBVIOUS
  <2>2. q[from(a)] = q[from(b)]
    BY <1>1
  <2>3. from(a) = from(b)
    BY <2>1, <2>2 DEF A!IsInjective
  <2> QED
    BY <2>3
<1>3. A!ToSet(r) \subseteq A!ToSet(q) \ {q[i]}
  BY <1>1 DEF A!IsInjective, A!ToSet
<1>4. ASSUME NEW j \in DOMAIN q, j # i PROVE q[j] \in A!ToSet(r)
  <2>1. CASE j < i
    BY <1>1, <2>1 DEF A!ToSet
  <2>2. CASE j > i
    <3>1. j - 1 \in DOMAIN r /\ r[j - 1] = q[j]
      BY <1>1, <2>2
    <3> QED
      BY <3>1 DEF A!ToSet
  <2> QED
    BY <1>4, <2>1, <2>2
<1>5. A!ToSet(q) \ {q[i]} \subseteq A!ToSet(r)
  BY <1>4 DEF A!ToSet
<1> QED
  BY <1>1, <1>2, <1>3, <1>5 DEF r

LEMMA Shortened ==
    ASSUME NEW q \in Seq(Client), A!IsInjective(q), q # <<>>
    PROVE  /\ Tail(q) \in Seq(Client)
           /\ A!IsInjective(Tail(q))
           /\ A!ToSet(Tail(q)) = A!ToSet(q) \ {Head(q)}
           /\ Len(Tail(q)) = Len(q) - 1
           /\ Head(q) \in A!ToSet(q)
<1>1. /\ Tail(q) \in Seq(Client)
      /\ Len(Tail(q)) = Len(q) - 1
      /\ \A j \in 1 .. Len(q) - 1 : Tail(q)[j] = q[j + 1]
      /\ Head(q) = q[1] /\ 1 \in DOMAIN q
  OBVIOUS
<1>2. A!IsInjective(Tail(q))
  BY <1>1 DEF A!IsInjective
<1>3. A!ToSet(Tail(q)) \subseteq A!ToSet(q) \ {Head(q)}
  BY <1>1 DEF A!IsInjective, A!ToSet
<1>4. ASSUME NEW j \in DOMAIN q, j # 1 PROVE q[j] \in A!ToSet(Tail(q))
  <2>1. j - 1 \in DOMAIN Tail(q) /\ Tail(q)[j - 1] = q[j]
    BY <1>1, <1>4
  <2> QED
    BY <2>1 DEF A!ToSet
<1>5. A!ToSet(q) \ {Head(q)} \subseteq A!ToSet(Tail(q))
  BY <1>1, <1>4 DEF A!ToSet
<1> QED
  BY <1>1, <1>2, <1>3, <1>5 DEF A!ToSet

(* The instance has its own copy of the operator.                          *)
LEMMA SameCount == \A S : A!Cardinality(S) = Cardinality(S)
  BY DEF Cardinality, A!Cardinality

ClientStates == {"new", "queued", "open", "left", "time_wait", "done"}

LEMMA ListenInit == ServerInit => ListenInv
<1> SUFFICES ASSUME ServerInit PROVE ListenInv
  OBVIOUS
<1> USE DEF ServerInit, A!Init
<1>1. A!Held = {} /\ {c \in Client : client[c] = "queued"} = {}
  BY DEF A!Held
<1>2. IsFiniteSet(A!Held) /\ Cardinality(A!Held) = 0
  BY <1>1, FS_EmptySet
<1>3. A!ToSet(queue) = {c \in Client : client[c] = "queued"}
  BY <1>1, EmptyQueue
<1>4. /\ client \in [Client -> ClientStates]
      /\ DOMAIN socket = {"nonblock", "bound", "reuse", "listening"}
      /\ starts \in 0 .. MaxStarts
      /\ A!IsInjective(queue) /\ Len(queue) <= Backlog
  BY EmptyQueue, ServerAssumption DEF A!NoSocket, ClientStates
<1>5. A!TypeOK
  BY <1>2, <1>3, <1>4, SameCount, ServerAssumption DEF A!TypeOK, ClientStates, ServerInit, A!Init
<1> QED
  BY <1>2, <1>5, EmptyQueue DEF ListenInv

(* When one client changes, and holds no descriptor that it did not hold   *)
(* before, no more do.                                                     *)
LEMMA NotMoreHeld ==
    ASSUME ListenInv, NEW c \in Client, NEW what \in ClientStates,
           what \in {"open", "left"} => c \in A!Held,
           A!Becomes(c, what)
    PROVE  /\ client' \in [Client -> ClientStates]
           /\ \A d \in Client : client'[d] = IF d = c THEN what ELSE client[d]
           /\ IsFiniteSet(A!Held')
           /\ Cardinality(A!Held') <= Descriptors
<1>1. client \in [Client -> ClientStates]
  BY DEF ListenInv, A!TypeOK, ClientStates
<1>2. /\ client' \in [Client -> ClientStates]
      /\ \A d \in Client : client'[d] = IF d = c THEN what ELSE client[d]
  BY <1>1 DEF A!Becomes
<1>3. A!Held' \subseteq A!Held
  BY <1>2 DEF A!Held
<1>4. IsFiniteSet(A!Held') /\ Cardinality(A!Held') <= Cardinality(A!Held)
  BY <1>3, FS_Subset DEF ListenInv
<1>5. Cardinality(A!Held') \in Nat /\ Cardinality(A!Held) \in Nat
  BY <1>4, FS_CardinalityType DEF ListenInv
<1>6. Cardinality(A!Held) <= Descriptors
  BY SameCount DEF ListenInv, A!TypeOK
<1> QED
  BY <1>2, <1>4, <1>5, <1>6, ServerAssumption

(* What is left to show when the client and the queue have changed.        *)
LEMMA StillListening ==
    ASSUME ListenInv,
           queue' \in Seq(Client), A!IsInjective(queue'), Len(queue') <= Backlog,
           client' \in [Client -> ClientStates],
           A!ToSet(queue') = {c \in Client : client'[c] = "queued"},
           IsFiniteSet(A!Held'), Cardinality(A!Held') <= Descriptors,
           server' \in {"down", "aborted", "wait", "accept"},
           server' \in {"wait", "accept"} => socket'.nonblock,
           DOMAIN socket' = {"nonblock", "bound", "reuse", "listening"},
           starts' \in 0 .. MaxStarts
    PROVE  ListenInv'
<1>1. A!Cardinality(A!Held') = Cardinality(A!Held')
  BY SameCount
<1>2. A!TypeOK'
  BY <1>1 DEF A!TypeOK, ClientStates
<1> QED
  BY <1>2 DEF ListenInv

LEMMA ListenStep == ListenInv /\ [ServerNext]_serverVars => ListenInv'
<1> SUFFICES ASSUME ListenInv, [ServerNext]_serverVars PROVE ListenInv'
  OBVIOUS
<1> USE ServerAssumption
<1>0. /\ client \in [Client -> ClientStates]
      /\ queue \in Seq(Client) /\ A!IsInjective(queue) /\ Len(queue) <= Backlog
      /\ A!ToSet(queue) = {c \in Client : client[c] = "queued"}
      /\ IsFiniteSet(A!Held) /\ Cardinality(A!Held) <= Descriptors
      /\ DOMAIN socket = {"nonblock", "bound", "reuse", "listening"}
      /\ starts \in 0 .. MaxStarts
      /\ server \in {"down", "aborted", "wait", "accept"}
      /\ server \in {"wait", "accept"} => socket.nonblock
  BY SameCount DEF ListenInv, A!TypeOK, ClientStates
<1>1. CASE UNCHANGED listenVars
  <2>1. A!Held' = A!Held
    BY <1>1 DEF listenVars, A!Held
  <2> QED
    BY <1>0, <1>1, <2>1, StillListening DEF listenVars
<1>2. ASSUME NEW listens \in BOOLEAN, Construction(listens) PROVE ListenInv'
  <2> DEFINE s == A!BuildServer(listens)
  <2>1. UNCHANGED <<queue, client>> /\ A!Held' = A!Held
    BY <1>2 DEF Construction, A!Start, A!Held
  <2>2. CASE s.listening
    <3>1. server' = "wait" /\ socket' = s /\ starts' = starts + 1 /\ starts < MaxStarts
      BY <1>2, <2>2 DEF Construction, A!Start
    <3>2. s.nonblock /\ DOMAIN s = {"nonblock", "bound", "reuse", "listening"}
      BY <2>2 DEF A!BuildServer, A!Bind, A!Create, A!SetNoBlock,
                  A!NoSocket, A!Listen, A!ReuseAddress
    <3>3. starts' \in 0 .. MaxStarts
      BY <1>0, <3>1
    <3> QED
      BY <1>0, <2>1, <3>1, <3>2, <3>3, StillListening
  <2>3. CASE ~s.listening
    <3>1. server' = "aborted" /\ UNCHANGED <<socket, starts>>
      BY <1>2, <2>3 DEF Construction, A!Start
    <3> QED
      BY <1>0, <2>1, <3>1, StillListening
  <2> QED
    BY <2>2, <2>3
<1>3. CASE Crash
  <2>1. server' = "down" /\ queue' = <<>> /\ socket' = A!NoSocket /\ starts' = starts
    BY <1>3 DEF Crash, A!Crash
  <2>2. client' = [c \in Client |-> CASE client[c] = "open"   -> "time_wait"
                                      [] client[c] = "left"   -> "done"
                                      [] client[c] = "queued" -> "new"
                                      [] OTHER                -> client[c]]
    BY <1>3 DEF Crash, A!Crash
  <2>3. \A c \in Client : client'[c] \in {"new", "time_wait", "done"}
    BY <1>0, <2>2 DEF ClientStates
  <2>4. client' \in [Client -> ClientStates]
    BY <2>2, <2>3 DEF ClientStates
  <2>5. A!Held' = {} /\ {c \in Client : client'[c] = "queued"} = {}
    BY <2>3 DEF A!Held
  <2>6. IsFiniteSet(A!Held') /\ Cardinality(A!Held') = 0
    BY <2>5, FS_EmptySet
  <2>7. Cardinality(A!Held') <= Descriptors /\ Len(queue') <= Backlog
    BY <2>1, <2>6, EmptyQueue
  <2>8. A!ToSet(queue') = {c \in Client : client'[c] = "queued"} /\ A!IsInjective(queue')
    BY <2>1, <2>5, EmptyQueue
  <2>9. DOMAIN socket' = {"nonblock", "bound", "reuse", "listening"}
    BY <2>1 DEF A!NoSocket
  <2> QED
    BY <1>0, <2>1, <2>4, <2>6, <2>7, <2>8, <2>9, EmptyQueue, StillListening
<1>4. CASE Poll
  <2>1. /\ server = "wait" /\ server' = "accept"
        /\ UNCHANGED <<socket, queue, client, starts>> /\ A!Held' = A!Held
    BY <1>4 DEF Poll, A!Wait, A!Held
  <2> QED
    BY <1>0, <2>1, StillListening
<1>5. CASE NewConnection
  <2>1. /\ UNCHANGED <<socket, starts>> /\ server = "accept" /\ socket.nonblock
        /\ server' = "wait"
    BY <1>0, <1>5 DEF NewConnection, A!Accept, A!MayAccept
  <2>2. CASE UNCHANGED <<queue, client>>
    <3>1. A!Held' = A!Held
      BY <2>2 DEF A!Held
    <3> QED
      BY <1>0, <2>1, <2>2, <3>1, StillListening
  <2>3. CASE /\ queue # <<>> /\ ~A!Exhausted
             /\ queue' = Tail(queue) /\ A!Becomes(Head(queue), "open")
    <3>1. /\ queue' \in Seq(Client)
          /\ A!IsInjective(queue')
          /\ A!ToSet(queue') = A!ToSet(queue) \ {Head(queue)}
          /\ Len(queue') = Len(queue) - 1
          /\ Head(queue) \in A!ToSet(queue)
      BY <1>0, <2>3, Shortened
    <3>2. Head(queue) \in Client /\ client[Head(queue)] = "queued"
      BY <1>0, <3>1
    <3>3. /\ client' \in [Client -> ClientStates]
          /\ \A d \in Client : client'[d] = IF d = Head(queue) THEN "open" ELSE client[d]
      BY <1>0, <2>3, <3>2 DEF A!Becomes, ClientStates
    <3>4. A!Held' = A!Held \cup {Head(queue)} /\ Head(queue) \notin A!Held
      BY <3>2, <3>3 DEF A!Held
    <3>5. IsFiniteSet(A!Held') /\ Cardinality(A!Held') = Cardinality(A!Held) + 1
      BY <1>0, <3>4, FS_AddElement
    <3>6. Cardinality(A!Held) \in Nat /\ ~(Cardinality(A!Held) >= Descriptors)
      BY <1>0, <2>3, SameCount, FS_CardinalityType DEF A!Exhausted
    <3>7. A!ToSet(queue') = {c \in Client : client'[c] = "queued"}
      BY <1>0, <3>1, <3>2, <3>3
    <3>8. Len(queue') <= Backlog
      BY <1>0, <3>1
    <3>9. Cardinality(A!Held') <= Descriptors
      BY <3>5, <3>6
    <3> QED
      BY <1>0, <2>1, <3>1, <3>3, <3>5, <3>7, <3>8, <3>9, StillListening
  <2> QED
    BY <1>5, <2>2, <2>3 DEF NewConnection, A!Accept
<1>6. ASSUME NEW c \in Client, Release(c) \/ ClientStep(c) PROVE ListenInv'
  <2>1. UNCHANGED <<server, socket, starts>>
    BY <1>6 DEF Release, ClientStep, A!Connect, A!Break, A!Leave, A!Close, A!Expire
  <2>2. CASE A!Connect(c)
    <3>1. client[c] = "new" /\ Len(queue) < Backlog /\ queue' = Append(queue, c)
      BY <2>2 DEF A!Connect
    <3>2. c \notin A!ToSet(queue) /\ A!Becomes(c, "queued") /\ "queued" \in ClientStates
      BY <1>0, <2>2, <3>1 DEF A!Connect, ClientStates
    <3>3. /\ queue' \in Seq(Client) /\ A!IsInjective(queue')
          /\ A!ToSet(queue') = A!ToSet(queue) \cup {c}
          /\ Len(queue') = Len(queue) + 1
      BY <1>0, <3>1, <3>2, Appended
    <3>4. /\ client' \in [Client -> ClientStates]
          /\ \A d \in Client : client'[d] = IF d = c THEN "queued" ELSE client[d]
          /\ IsFiniteSet(A!Held') /\ Cardinality(A!Held') <= Descriptors
      BY <3>2, NotMoreHeld
    <3>5. A!ToSet(queue') = {d \in Client : client'[d] = "queued"}
      BY <1>0, <3>3, <3>4
    <3>6. Len(queue') <= Backlog
      BY <1>0, <3>1, <3>3
    <3> QED
      BY <1>0, <2>1, <3>3, <3>4, <3>5, <3>6, StillListening
  <2>3. CASE A!Break(c)
    <3>1. PICK i \in DOMAIN queue : queue[i] = c /\ queue' = A!RemoveAt(queue, i)
      BY <2>3 DEF A!Break
    <3>2. /\ queue' \in Seq(Client) /\ A!IsInjective(queue')
          /\ A!ToSet(queue') = A!ToSet(queue) \ {c}
          /\ Len(queue') = Len(queue) - 1
      BY <1>0, <3>1, Removed
    <3>3. A!Becomes(c, "done") /\ "done" \in ClientStates
      BY <2>3 DEF A!Break, ClientStates
    <3>4. /\ client' \in [Client -> ClientStates]
          /\ \A d \in Client : client'[d] = IF d = c THEN "done" ELSE client[d]
          /\ IsFiniteSet(A!Held') /\ Cardinality(A!Held') <= Descriptors
      BY <3>3, NotMoreHeld
    <3>5. A!ToSet(queue') = {d \in Client : client'[d] = "queued"}
      BY <1>0, <3>2, <3>4
    <3>6. Len(queue') <= Backlog
      BY <1>0, <3>2
    <3> QED
      BY <1>0, <2>1, <3>2, <3>4, <3>5, <3>6, StillListening
  <2>4. CASE A!Leave(c) \/ A!Close(c) \/ A!Expire(c)
    <3>1. PICK what \in {"left", "done", "time_wait"} :
             A!Becomes(c, what) /\ (what = "left" => client[c] = "open")
      BY <2>4 DEF A!Leave, A!Close, A!Expire
    <3>2. /\ queue' = queue /\ client[c] # "queued" /\ what \in ClientStates
          /\ what \in {"open", "left"} => c \in A!Held
      BY <2>4, <3>1 DEF A!Leave, A!Close, A!Expire, A!Held, ClientStates
    <3>3. /\ client' \in [Client -> ClientStates]
          /\ \A d \in Client : client'[d] = IF d = c THEN what ELSE client[d]
          /\ IsFiniteSet(A!Held') /\ Cardinality(A!Held') <= Descriptors
      BY <3>1, <3>2, NotMoreHeld
    <3>4. A!ToSet(queue') = {d \in Client : client'[d] = "queued"}
      BY <1>0, <3>1, <3>2, <3>3
    <3> QED
      BY <1>0, <2>1, <3>2, <3>3, <3>4, StillListening
  <2> QED
    BY <1>6, <2>2, <2>3, <2>4 DEF Release, ClientStep
<1> QED
  BY <1>1, <1>2, <1>3, <1>4, <1>5, <1>6
     DEF ServerNext, serverVars, listenVars, Configure, StartServer, Create, Woken, Worker

(* The base loop never waits in accept, and the queue has each waiting     *)
(* client once (server.hpp:130-133, 1060-1069).                            *)
THEOREM ServerNeverBlocks == ServerSpec => []NeverBlocks
<1>1. ListenInv => NeverBlocks
  BY DEF ListenInv, NeverBlocks
<1> QED
  BY <1>1, ListenInit, ListenStep, PTL DEF ServerSpec
=============================================================================
