----------------------------- MODULE LoopThread -----------------------------
(***************************************************************************)
(* LoopThread and LoopThreadPool of source/server.hpp: TcpServer::Start    *)
(* creates the workers one after the other, takes the EventLoop of each    *)
(* from its thread, and then deals connections to the loops in turn.       *)
(*                                                                         *)
(* The members of a LoopThread are constructed in the order of their       *)
(* declaration: _loop, _thread, _mutex, _cond.  The thread runs as soon as *)
(* _thread is constructed, so that it may be in its critical section       *)
(* before, or while, the mutex is constructed.  Locking memory that is not *)
(* a mutex yet is undefined: the thread takes the lock or sleeps on it for *)
(* ever, and the constructor leaves the mutex free in either case.         *)
(* Nothing is said of a thread that did so (`overtook').                   *)
(*                                                                         *)
(* TcpServer composes this with the listening socket and the clients; what *)
(* must happen in the end is said there.                                   *)
(***************************************************************************)
EXTENDS Integers

CONSTANTS MaxThreads   \* bound of the model: what SetCount may be given

ASSUME BoundAssumption == MaxThreads \in Nat

VARIABLES pc,            \* where the base thread is
          thread_count,  \* _thread_count
          made,          \* how many LoopThreads Create is done with
          thread,        \* where each new thread is in ThreadEntry
          loop,          \* the LoopThreads whose _loop is not null
          mutex,         \* their _mutex: not constructed, free, or who holds it
          next_loop,     \* _next_loop
          overtook,      \* history: the threads that were at their lock before their
                         \* _mutex was constructed
          ahead          \* history: how many more connections a loop was given
                         \* than the one with the fewest

vars == <<pc, thread_count, made, thread, loop, mutex, next_loop, overtook, ahead>>

Thread == 0..(MaxThreads - 1)

TypeOK == /\ pc \in {"configure", "launch", "construct", "check", "lock",
                     "predicate", "wait", "waiting", "serve"}
          /\ thread_count \in 0..MaxThreads
          /\ made \in 0..MaxThreads
          /\ thread \in [Thread -> {"none", "lock", "asleep", "assign", "notify",
                                    "unlock", "start"}]
          /\ loop \in SUBSET Thread
          /\ mutex \in [Thread -> {"raw", "free", "base", "entry"}]
          /\ next_loop \in Thread \cup {0}
          /\ overtook \in SUBSET Thread
          /\ ahead \in [Thread -> Nat]

Init == /\ pc = "configure"
        /\ thread_count = 0
        /\ made = 0
        /\ thread = [i \in Thread |-> "none"]
        /\ loop = {}
        /\ mutex = [i \in Thread |-> "raw"]
        /\ next_loop = 0
        /\ overtook = {}
        /\ ahead = [i \in Thread |-> 0]

-----------------------------------------------------------------------------
(* The base thread: SetCount, then Start, which never returns. *)

SetCount(count) ==
    /\ pc = "configure"
    /\ count > 0
    /\ thread_count' = count
    /\ UNCHANGED <<pc, made, thread, loop, mutex, next_loop, overtook, ahead>>

(* TcpServer::Start: Create, if there is anything to create. *)
Start ==
    /\ pc = "configure"
    /\ pc' = IF thread_count > 0 THEN "launch" ELSE "serve"
    /\ UNCHANGED <<thread_count, made, thread, loop, mutex, next_loop, overtook, ahead>>

(* The constructor of LoopThread as far as _thread ... *)
Launch ==
    /\ pc = "launch"
    /\ thread' = [thread EXCEPT ![made] = "lock"]
    /\ pc' = "construct"
    /\ UNCHANGED <<thread_count, made, loop, mutex, next_loop, overtook, ahead>>

(* ... and its last two members, _mutex and _cond. *)
Construct ==
    /\ pc = "construct"
    /\ mutex' = [mutex EXCEPT ![made] = "free"]
    /\ pc' = "check"
    /\ UNCHANGED <<thread_count, made, thread, loop, next_loop, overtook, ahead>>

(* GetLoop has returned: Create goes on with the next thread, or is done. *)
Returned ==
    /\ made' = made + 1
    /\ pc' = IF made + 1 < thread_count THEN "launch" ELSE "serve"

(* GetLoop reads _loop without the lock ... *)
CheckLoop ==
    /\ pc = "check"
    /\ IF made \in loop THEN Returned ELSE pc' = "lock" /\ made' = made
    /\ UNCHANGED <<thread_count, thread, loop, mutex, next_loop, overtook, ahead>>

\* (Mutant) GetLoop waits without the lock.
LockLoopAtOnce ==
    /\ pc = "lock"
    /\ pc' = "predicate"
    /\ UNCHANGED <<thread_count, made, thread, loop, mutex, next_loop, overtook, ahead>>

(* ... and again with it, before it waits and whenever it was woken. *)
LockLoop ==
    /\ pc = "lock"
    /\ mutex[made] = "free"
    /\ mutex' = [mutex EXCEPT ![made] = "base"]
    /\ pc' = "predicate"
    /\ UNCHANGED <<thread_count, made, thread, loop, next_loop, overtook, ahead>>

Predicate ==
    /\ pc = "predicate"
    /\ IF made \in loop
       THEN /\ Returned
            /\ mutex' = [mutex EXCEPT ![made] = "free"]
       ELSE /\ pc' = "wait"
            /\ UNCHANGED <<made, mutex>>
    /\ UNCHANGED <<thread_count, thread, loop, next_loop, overtook, ahead>>

(* The condition variable: from here on a notification reaches the waiter. *)
Wait ==
    /\ pc = "wait"
    /\ mutex' = [mutex EXCEPT ![made] = "free"]
    /\ pc' = "waiting"
    /\ UNCHANGED <<thread_count, made, thread, loop, next_loop, overtook, ahead>>

(* A waiter may be woken for no reason. *)
WakeSpuriously ==
    /\ pc = "waiting"
    /\ pc' = "lock"
    /\ UNCHANGED <<thread_count, made, thread, loop, mutex, next_loop, overtook, ahead>>

-----------------------------------------------------------------------------
(* A new thread: its EventLoop is on its stack, ThreadEntry publishes it. *)

Lock(i) ==
    /\ thread[i] = "lock"
    /\ mutex[i] \in {"free", "raw"}
    /\ mutex' = [mutex EXCEPT ![i] = "entry"]
    /\ thread' = [thread EXCEPT ![i] = "assign"]
    /\ overtook' = IF mutex[i] = "raw" THEN overtook \cup {i} ELSE overtook
    /\ UNCHANGED <<pc, thread_count, made, loop, next_loop, ahead>>

SleepOnRawMutex(i) ==
    /\ thread[i] = "lock"
    /\ mutex[i] = "raw"
    /\ thread' = [thread EXCEPT ![i] = "asleep"]
    /\ overtook' = overtook \cup {i}
    /\ UNCHANGED <<pc, thread_count, made, loop, mutex, next_loop, ahead>>

Assign(i) ==
    /\ thread[i] = "assign"
    /\ loop' = loop \cup {i}
    /\ thread' = [thread EXCEPT ![i] = "notify"]
    /\ UNCHANGED <<pc, thread_count, made, mutex, next_loop, overtook, ahead>>

NotifyAll(i) ==
    /\ thread[i] = "notify"
    /\ thread' = [thread EXCEPT ![i] = "unlock"]
    /\ pc' = IF pc = "waiting" /\ made = i THEN "lock" ELSE pc
    /\ UNCHANGED <<thread_count, made, loop, mutex, next_loop, overtook, ahead>>

Unlock(i) ==
    /\ thread[i] = "unlock"
    /\ mutex' = [mutex EXCEPT ![i] = "free"]
    /\ thread' = [thread EXCEPT ![i] = "start"]
    /\ UNCHANGED <<pc, thread_count, made, loop, next_loop, overtook, ahead>>

(* EventLoop::Start does not return. *)
Loop(i) == thread[i] = "start" /\ UNCHANGED vars

ThreadEntry(i) == Lock(i) \/ SleepOnRawMutex(i) \/ Assign(i) \/ NotifyAll(i) \/ Unlock(i)

-----------------------------------------------------------------------------
(* LoopThreadPool::Next, for each new connection. *)

\* ahead, after loop i was given one more.
Dealt(i) ==
    LET given == [ahead EXCEPT ![i] = @ + 1]
    IN  IF \A j \in 0..(thread_count - 1) : given[j] > 0
        THEN [j \in Thread |-> IF j < thread_count THEN given[j] - 1 ELSE given[j]]
        ELSE given

\* (Mutant) The index wraps one loop too early.
NextWrappedEarly ==
    /\ pc = "serve"
    /\ thread_count > 0
    /\ ahead' = Dealt(next_loop)
    /\ next_loop' = IF thread_count = 1 THEN 0 ELSE (next_loop + 1) % (thread_count - 1)
    /\ UNCHANGED <<pc, thread_count, made, thread, loop, mutex, overtook>>

(* Without workers it returns the base loop and nothing changes. *)
NextLoop ==
    /\ pc = "serve"
    /\ thread_count > 0
    /\ ahead' = Dealt(next_loop)
    /\ next_loop' = (next_loop + 1) % thread_count
    /\ UNCHANGED <<pc, thread_count, made, thread, loop, mutex, overtook>>

NextIsBase ==
    /\ pc = "serve"
    /\ thread_count = 0
    /\ UNCHANGED vars

GetLoop == CheckLoop \/ LockLoop \/ Predicate \/ Wait

Base == \/ \E count \in 0..MaxThreads : SetCount(count)
        \/ Start \/ Launch \/ Construct \/ GetLoop \/ WakeSpuriously
        \/ NextLoop \/ NextIsBase

Next == Base \/ \E i \in Thread : ThreadEntry(i) \/ Loop(i)

Spec == Init /\ [][Next]_vars

-----------------------------------------------------------------------------
(* GetLoop and ThreadEntry are never both between lock and unlock, if the  *)
(* thread found its mutex constructed.                                     *)
InEntry(i) == thread[i] \in {"assign", "notify", "unlock"}
InGetLoop  == pc \in {"predicate", "wait"}

MutualExclusion == InGetLoop /\ made \notin overtook => ~InEntry(made)

(* Nor does the base thread sleep on a loop that was announced already:    *)
(* the notification of ThreadEntry is still to come.                       *)
NoLostNotification ==
    pc = "waiting" /\ made \notin overtook => thread[made] \in {"lock", "assign", "notify"}

(* Whatever the race at start-up, Next deals only loops that exist, and no *)
(* two loops differ by more than one connection.                           *)
DealtEvenly ==
    pc = "serve" /\ thread_count > 0 =>
        /\ next_loop < thread_count
        /\ \A i \in 0..(thread_count - 1) : i \in loop /\ ahead[i] \in {0, 1}
=============================================================================
