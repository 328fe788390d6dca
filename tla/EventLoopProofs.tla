-------------------------- MODULE EventLoopProofs --------------------------
(***************************************************************************)
(* What TLAPS proves of EventLoop, for any set of threads, of tasks and of *)
(* channels and any bounds: its type invariant, that no wakeup is lost,    *)
(* and that it implements the safety part of TaskQueue.                    *)
(***************************************************************************)
EXTENDS EventLoop, TLAPS

(* A batch exists only while the loop is in RunTasks, and a handler runs   *)
(* only while it goes through the events.  It is what makes SwapTasks lose *)
(* nothing: the batch it overwrites is over.                               *)
PhaseOK == /\ pc # "run" => pending = <<>> /\ current = NoTask
           /\ handling # NoChannel => pc = "handle"

USE DEF LoopIsFree

-----------------------------------------------------------------------------
(* The state variables keep their types: the vector and the batch are      *)
(* sequences of tasks and the loop executes a task or none.                *)
THEOREM TypeCorrect == Spec => []TypeOK
<1>1. Init => TypeOK
  <2> SUFFICES ASSUME Init
               PROVE  TypeOK
    OBVIOUS
  <2>1. tasks \in Seq(Task) /\ pending \in Seq(Task)
    BY DEF Init
  <2> QED
    BY <2>1, Zenon DEF Init, TypeOK
<1>2. TypeOK /\ [Next]_vars => TypeOK'
  <2> SUFFICES ASSUME TypeOK, [Next]_vars
               PROVE  TypeOK'
    OBVIOUS
  <2> USE DEF TypeOK
  <2>1. CASE Monitor
    BY <2>1 DEF Monitor, Reportable
  <2>2. CASE ReadEventfd
    BY <2>2 DEF ReadEventfd
  <2>3. ASSUME NEW ch \in Channel, BeginHandler(ch)
        PROVE  TypeOK'
    BY <2>3 DEF BeginHandler
  <2>4. CASE EndHandler
    BY <2>4 DEF EndHandler
  <2>5. CASE SwapTasks
    BY <2>5 DEF SwapTasks
  <2>6. CASE BeginTask
    BY <2>6 DEF BeginTask
  <2>7. CASE EndTask
    BY <2>7 DEF EndTask
  <2>8. CASE EndBatch
    BY <2>8 DEF EndBatch
  <2>9. CASE MonitorInterrupted
    BY <2>9 DEF MonitorInterrupted
  <2>10. ASSUME NEW th \in Thread, NEW t \in Task, PushTask(th, t)
         PROVE  TypeOK'
    BY <2>10 DEF PushTask
  <2>11. ASSUME NEW th \in Thread, Awake(th)
         PROVE  TypeOK'
    BY <2>11 DEF Awake
  <2>12. ASSUME NEW ch \in Channel, BecomesReady(ch)
         PROVE  TypeOK'
    BY <2>12 DEF BecomesReady
  <2>13. CASE UNCHANGED vars
    BY <2>13 DEF vars
  <2> QED
    BY <2>1, <2>2, <2>3, <2>4, <2>5, <2>6, <2>7, <2>8, <2>9, <2>10, <2>11,
       <2>12, <2>13 DEF Next, LoopStep
<1> QED
  BY <1>1, <1>2, PTL DEF Spec, Safety

-----------------------------------------------------------------------------
(* The batch and the handler in progress belong to their phase of Start.   *)
THEOREM PhaseCorrect == Spec => []PhaseOK
<1>1. Init => PhaseOK
  BY DEF Init, PhaseOK
<1>2. PhaseOK /\ [Next]_vars => PhaseOK'
  <2> SUFFICES ASSUME PhaseOK, [Next]_vars
               PROVE  PhaseOK'
    OBVIOUS
  <2> USE DEF PhaseOK
  <2>1. CASE LoopStep
    BY <2>1 DEF LoopStep, Monitor, ReadEventfd, BeginHandler, EndHandler,
                SwapTasks, BeginTask, EndTask, EndBatch
  <2>2. CASE MonitorInterrupted
    BY <2>2 DEF MonitorInterrupted
  <2>3. ASSUME NEW th \in Thread, NEW t \in Task, PushTask(th, t)
        PROVE  PhaseOK'
    BY <2>3 DEF PushTask
  <2>4. ASSUME NEW th \in Thread, Awake(th)
        PROVE  PhaseOK'
    BY <2>4 DEF Awake
  <2>5. ASSUME NEW ch \in Channel, BecomesReady(ch)
        PROVE  PhaseOK'
    BY <2>5 DEF BecomesReady
  <2>6. CASE UNCHANGED vars
    BY <2>6 DEF vars
  <2> QED
    BY <2>1, <2>2, <2>3, <2>4, <2>5, <2>6 DEF Next
<1> QED
  BY <1>1, <1>2, PTL DEF Spec, Safety

-----------------------------------------------------------------------------
(* No order of the pushes, the writes and the reads of the eventfd and the *)
(* swaps leaves a task in the vector of a loop that is about to block with *)
(* nobody to wake it.  The invariant is inductive by itself because the    *)
(* eventfd is read only in the "handle" phase, which the swap ends.        *)
THEOREM WakeupCorrect == Spec => []NoLostWakeup
<1>1. Init => NoLostWakeup
  BY DEF Init, NoLostWakeup
<1>2. NoLostWakeup /\ [Next]_vars => NoLostWakeup'
  <2> SUFFICES ASSUME NoLostWakeup, [Next]_vars
               PROVE  NoLostWakeup'
    OBVIOUS
  <2> USE DEF NoLostWakeup
  <2>1. CASE LoopStep
    BY <2>1 DEF LoopStep, Monitor, ReadEventfd, BeginHandler, EndHandler,
                SwapTasks, BeginTask, EndTask, EndBatch
  <2>2. CASE MonitorInterrupted
    BY <2>2 DEF MonitorInterrupted
  <2>3. ASSUME NEW th \in Thread, NEW t \in Task, PushTask(th, t)
        PROVE  NoLostWakeup'
    BY <2>3 DEF PushTask
  <2>4. ASSUME NEW th \in Thread, Awake(th)
        PROVE  NoLostWakeup'
    BY <2>4 DEF Awake
  <2>5. ASSUME NEW ch \in Channel, BecomesReady(ch)
        PROVE  NoLostWakeup'
    BY <2>5 DEF BecomesReady
  <2>6. CASE UNCHANGED vars
    BY <2>6 DEF vars
  <2> QED
    BY <2>1, <2>2, <2>3, <2>4, <2>5, <2>6 DEF Next
<1> QED
  BY <1>1, <1>2, PTL DEF Spec, Safety

-----------------------------------------------------------------------------
(* The two facts about sequences the refinement rests on: appending to the *)
(* vector appends to the whole queue, and the head of the batch, when      *)
(* there is one, is the head of the whole queue.                           *)
LEMMA AppendToSuffix ==
    ASSUME NEW S, NEW p \in Seq(S), NEW q \in Seq(S), NEW e \in S
    PROVE  p \o Append(q, e) = Append(p \o q, e)
  OBVIOUS

LEMMA HeadOfPrefix ==
    ASSUME NEW S, NEW p \in Seq(S), NEW q \in Seq(S), p # <<>>
    PROVE  /\ p \o q # <<>>
           /\ Head(p \o q) = Head(p)
           /\ Tail(p \o q) = Tail(p) \o q
  OBVIOUS

(* The loop implements the queue of tasks: a push is a Post, the beginning *)
(* and the end of a task are a Start and a Finish, and everything else,    *)
(* the swap included, leaves the queue as it was.                          *)
THEOREM LoopIsTaskQueue == Spec => TQ!Safety
<1>1. Init => TQ!Init
  BY DEF Init, TQ!Init
<1>2. TypeOK /\ PhaseOK /\ [Next]_vars => [TQ!Next]_(TQ!vars)
  <2> SUFFICES ASSUME TypeOK, PhaseOK, [Next]_vars
               PROVE  [TQ!Next]_(TQ!vars)
    OBVIOUS
  <2> USE DEF TypeOK, TQ!vars
  <2>1. CASE Monitor
    BY <2>1 DEF Monitor
  <2>2. CASE ReadEventfd
    BY <2>2 DEF ReadEventfd
  <2>3. ASSUME NEW ch \in Channel, BeginHandler(ch)
        PROVE  UNCHANGED TQ!vars
    BY <2>3 DEF BeginHandler
  <2>4. CASE EndHandler
    BY <2>4 DEF EndHandler
  <2>5. CASE SwapTasks
    <3>1. pending = <<>>
      BY <2>5 DEF SwapTasks, PhaseOK
    <3>2. pending' \o tasks' = pending \o tasks
      BY <2>5, <3>1 DEF SwapTasks
    <3> QED
      BY <2>5, <3>2 DEF SwapTasks
  <2>6. CASE BeginTask
    <3>1. /\ pending \o tasks # <<>>
          /\ current' = Head(pending \o tasks)
          /\ pending' \o tasks' = Tail(pending \o tasks)
      BY <2>6, HeadOfPrefix DEF BeginTask
    <3>2. TQ!Start
      BY <2>6, <3>1 DEF BeginTask, TQ!Start
    <3> QED
      BY <3>2 DEF TQ!Next
  <2>7. CASE EndTask
    <3>1. TQ!Finish
      BY <2>7 DEF EndTask, TQ!Finish
    <3> QED
      BY <3>1 DEF TQ!Next
  <2>8. CASE EndBatch
    BY <2>8 DEF EndBatch
  <2>9. CASE MonitorInterrupted
    BY <2>9 DEF MonitorInterrupted
  <2>10. ASSUME NEW th \in Thread, NEW t \in Task, PushTask(th, t)
         PROVE  TQ!Next
    <3>1. pending' \o tasks' = Append(pending \o tasks, t)
      BY <2>10, AppendToSuffix DEF PushTask
    <3>2. TQ!Post
      BY <2>10, <3>1 DEF PushTask, TQ!Post
    <3> QED
      BY <3>2 DEF TQ!Next
  <2>11. ASSUME NEW th \in Thread, Awake(th)
         PROVE  UNCHANGED TQ!vars
    BY <2>11 DEF Awake
  <2>12. ASSUME NEW ch \in Channel, BecomesReady(ch)
         PROVE  UNCHANGED TQ!vars
    BY <2>12 DEF BecomesReady
  <2>13. CASE UNCHANGED vars
    BY <2>13 DEF vars
  <2> QED
    BY <2>1, <2>2, <2>3, <2>4, <2>5, <2>6, <2>7, <2>8, <2>9, <2>10, <2>11,
       <2>12, <2>13 DEF Next, LoopStep
<1>3. Spec => []TypeOK /\ []PhaseOK
  BY TypeCorrect, PhaseCorrect
<1> QED
  BY <1>1, <1>2, <1>3, PTL DEF Spec, Safety, TQ!Safety
=============================================================================
