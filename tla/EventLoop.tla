----------------------------- MODULE EventLoop -----------------------------
(***************************************************************************)
(* One EventLoop of source/server.hpp: the vector of tasks other threads   *)
(* push on it, the eventfd that wakes it, and the loop of Start, which     *)
(* waits in epoll_wait, handles the events it got, and runs the tasks that *)
(* had been pushed by the time it swapped the vector out.                  *)
(*                                                                         *)
(* A step is what another thread can observe as one: the critical section  *)
(* of PushTask, the write to the eventfd that follows it OUTSIDE the lock, *)
(* the return of epoll_wait, one channel's handler, the swap, and the      *)
(* beginning and the end of a task.  Handlers and tasks are arbitrary code *)
(* that may push tasks; what those of a connection do is in Connection.    *)
(***************************************************************************)
EXTENDS Integers, Sequences, FiniteSets

CONSTANTS Thread,     \* the threads of the process
          Loop,       \* the one that runs EventLoop::Start
          Task,       \* the closures that can be pushed
          NoTask,     \* the loop is not executing a task
          Channel,    \* channels registered with the loop, but for the eventfd's
          EventCh,    \* _event_ch, the channel of the eventfd
          NoChannel,  \* no handler is being executed
          MaxEvents,  \* Epoller::eventnum, how many events one epoll_wait returns
          MaxQueue    \* bound of the model: tasks pushed between two swaps

ASSUME ThreadAssumption  == Loop \in Thread
ASSUME TaskAssumption    == NoTask \notin Task
ASSUME ChannelAssumption == /\ EventCh \notin Channel
                            /\ NoChannel \notin Channel \cup {EventCh}
ASSUME BoundAssumption   == MaxEvents \in Nat \ {0} /\ MaxQueue \in Nat

VARIABLES tasks,      \* _tasks, guarded by _mutex
          awaking,    \* threads between the push and the Awake of their PushTask
          signalled,  \* the eventfd's counter is not 0
          ready,      \* the channels epoll_wait would report, but for EventCh
          pc,         \* where the loop's thread is in Start
          actives,    \* the channels epoll_wait returned and Start has yet to handle
          handling,   \* the channel whose handler is being executed
          pending,    \* the batch RunTasks swapped out, without the current task
          current     \* the task being executed

vars == <<tasks, awaking, signalled, ready, pc, actives, handling, pending, current>>

TypeOK == /\ tasks \in Seq(Task)
          /\ awaking \in SUBSET Thread
          /\ signalled \in BOOLEAN
          /\ ready \in SUBSET Channel
          /\ pc \in {"monitor", "handle", "run"}
          /\ actives \in SUBSET (Channel \cup {EventCh})
          /\ handling \in Channel \cup {NoChannel}
          /\ pending \in Seq(Task)
          /\ current \in Task \cup {NoTask}

Init == /\ tasks = <<>>
        /\ awaking = {}
        /\ signalled = FALSE
        /\ ready = {}
        /\ pc = "monitor"
        /\ actives = {}
        /\ handling = NoChannel
        /\ pending = <<>>
        /\ current = NoTask

-----------------------------------------------------------------------------
(***************************************************************************)
(* PushTask.  The loop's own thread can be in it only inside a handler or  *)
(* a task; any other thread at any time.                                   *)
(***************************************************************************)

CanPush(th) == /\ th \notin awaking
               /\ th = Loop => handling # NoChannel \/ current # NoTask
               /\ Len(tasks) < MaxQueue

\* (Mutant) A loop thread that does not bother to wake itself.
PushTaskUnlessInLoop(th, t) ==
    /\ CanPush(th)
    /\ tasks' = Append(tasks, t)
    /\ awaking' = IF th = Loop THEN awaking ELSE awaking \cup {th}
    /\ UNCHANGED <<signalled, ready, pc, actives, handling, pending, current>>

PushTask(th, t) ==
    /\ CanPush(th)
    /\ tasks' = Append(tasks, t)
    /\ awaking' = awaking \cup {th}
    /\ UNCHANGED <<signalled, ready, pc, actives, handling, pending, current>>

(* Eventfd::Awake, the second half of PushTask.  The write is taken to     *)
(* succeed: an interrupted one on an eventfd that does not wait is not     *)
(* seen, and any other error aborts the process.                           *)
Awake(th) ==
    /\ th \in awaking
    /\ signalled' = TRUE
    /\ awaking' = awaking \ {th}
    /\ UNCHANGED <<tasks, ready, pc, actives, handling, pending, current>>

-----------------------------------------------------------------------------
(***************************************************************************)
(* The loop of Start.  Its thread does nothing else until a PushTask it is *)
(* in has returned.                                                        *)
(***************************************************************************)

LoopIsFree == Loop \notin awaking

Reportable == ready \cup (IF signalled THEN {EventCh} ELSE {})

(* epoll_wait returns: everything that is ready if it fits, else MaxEvents *)
(* of it.                                                                  *)
Monitor ==
    /\ pc = "monitor" /\ LoopIsFree
    /\ Reportable # {}
    /\ IF Cardinality(Reportable) <= MaxEvents
       THEN actives' = Reportable
       ELSE \E some \in SUBSET Reportable :
               /\ Cardinality(some) = MaxEvents
               /\ actives' = some
    /\ pc' = "handle"
    /\ UNCHANGED <<tasks, awaking, signalled, ready, handling, pending, current>>

(* A signal interrupts epoll_wait: n < 0, and Start goes on with no event. *)
MonitorInterrupted ==
    /\ pc = "monitor" /\ LoopIsFree
    /\ actives' = {}
    /\ pc' = "handle"
    /\ UNCHANGED <<tasks, awaking, signalled, ready, handling, pending, current>>

(* The handler of _event_ch: Eventfd::Read resets the counter to 0. *)
ReadEventfd ==
    /\ pc = "handle" /\ LoopIsFree
    /\ handling = NoChannel
    /\ EventCh \in actives
    /\ signalled' = FALSE
    /\ actives' = actives \ {EventCh}
    /\ UNCHANGED <<tasks, awaking, ready, pc, handling, pending, current>>

BeginHandler(ch) ==
    /\ pc = "handle" /\ LoopIsFree
    /\ handling = NoChannel
    /\ ch \in actives \ {EventCh}
    /\ handling' = ch
    /\ actives' = actives \ {ch}
    /\ UNCHANGED <<tasks, awaking, signalled, ready, pc, pending, current>>

(* Events are level triggered: a channel its handler did not drain is      *)
(* reported again.                                                         *)
EndHandler ==
    /\ handling # NoChannel /\ LoopIsFree
    /\ handling' = NoChannel
    /\ ready' \in {ready, ready \ {handling}}
    /\ UNCHANGED <<tasks, awaking, signalled, pc, actives, pending, current>>

\* (Mutant) The batch is copied, and the vector is not emptied.
SwapCopies ==
    /\ pc = "handle" /\ LoopIsFree
    /\ handling = NoChannel /\ actives = {}
    /\ pending' = tasks
    /\ pc' = "run"
    /\ UNCHANGED <<tasks, awaking, signalled, ready, actives, handling, current>>

(* RunTasks takes the tasks pushed so far, in one critical section. *)
SwapTasks ==
    /\ pc = "handle" /\ LoopIsFree
    /\ handling = NoChannel /\ actives = {}
    /\ pending' = tasks
    /\ tasks' = <<>>
    /\ pc' = "run"
    /\ UNCHANGED <<awaking, signalled, ready, actives, handling, current>>

BeginTask ==
    /\ pc = "run" /\ LoopIsFree
    /\ current = NoTask
    /\ pending # <<>>
    /\ current' = Head(pending)
    /\ pending' = Tail(pending)
    /\ UNCHANGED <<tasks, awaking, signalled, ready, pc, actives, handling>>

EndTask ==
    /\ current # NoTask /\ LoopIsFree
    /\ current' = NoTask
    /\ UNCHANGED <<tasks, awaking, signalled, ready, pc, actives, handling, pending>>

\* (Mutant) RunTasks drains the vector instead of one batch of it.
EndBatchWhenDrained ==
    /\ pc = "run" /\ LoopIsFree
    /\ current = NoTask
    /\ pending = <<>>
    /\ pending' = tasks
    /\ tasks' = <<>>
    /\ pc' = IF tasks = <<>> THEN "monitor" ELSE "run"
    /\ UNCHANGED <<awaking, signalled, ready, actives, handling, current>>

(* The batch is done: back to epoll_wait, even if a task pushed others. *)
EndBatch ==
    /\ pc = "run" /\ LoopIsFree
    /\ current = NoTask
    /\ pending = <<>>
    /\ pc' = "monitor"
    /\ UNCHANGED <<tasks, awaking, signalled, ready, actives, handling, pending, current>>

(* External: bytes, a connection request or a timer expiry reach an fd. *)
BecomesReady(ch) ==
    /\ ch \notin ready
    /\ ready' = ready \cup {ch}
    /\ UNCHANGED <<tasks, awaking, signalled, pc, actives, handling, pending, current>>

-----------------------------------------------------------------------------
LoopStep == \/ Monitor
            \/ ReadEventfd
            \/ \E ch \in Channel : BeginHandler(ch)
            \/ EndHandler
            \/ SwapTasks
            \/ BeginTask
            \/ EndTask
            \/ EndBatch

Next == \/ LoopStep
        \/ MonitorInterrupted
        \/ \E th \in Thread, t \in Task : PushTask(th, t)
        \/ \E th \in Thread : Awake(th)
        \/ \E ch \in Channel : BecomesReady(ch)

(***************************************************************************)
(* The loop's thread and a thread inside PushTask are scheduled, and the   *)
(* handlers and tasks return.  Nothing obliges a thread to push, an fd to  *)
(* become ready or a signal to arrive.                                     *)
(***************************************************************************)
Fairness == /\ WF_vars(LoopStep)
            /\ \A th \in Thread : WF_vars(Awake(th))

Safety == Init /\ [][Next]_vars

Spec == Safety /\ Fairness

-----------------------------------------------------------------------------
(* NoLostWakeup: the loop is never on its way to block in epoll_wait with  *)
(* a task in the vector unless the eventfd is signalled or a thread is     *)
(* about to signal it.  The push and the write to the eventfd are two      *)
(* steps, and so are the read of the eventfd and the swap: the property is *)
(* that no order of the four strands a task.                               *)
NoLostWakeup ==
    tasks # <<>> /\ pc \in {"monitor", "run"} => signalled \/ awaking # {}

(* The loop as a TaskQueue: the batch in progress, then the vector. *)
TQ == INSTANCE TaskQueue WITH queue <- pending \o tasks

(* RunsInOrder: batches, interruptions and pushes from within tasks do not *)
(* lose, repeat or reorder a task, and every task pushed is executed.      *)
RunsInOrder == TQ!Spec

(* KeepsPolling: the loop always gets back to epoll_wait, although tasks   *)
(* may push tasks for ever: RunTasks runs one batch and what is pushed     *)
(* meanwhile waits for the next, so I/O is not starved by tasks.           *)
KeepsPolling == []<>(pc = "monitor")
=============================================================================
