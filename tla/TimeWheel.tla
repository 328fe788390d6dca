----------------------------- MODULE TimeWheel -----------------------------
(***************************************************************************)
(* The TimeWheel of an EventLoop (source/server.hpp), with its TimerTasks  *)
(* and its timerfd.  A timer is a TimerTask owned by shared pointers in    *)
(* the slots of the wheel and found through a weak pointer in _tasks; a    *)
(* refresh drops one more pointer into a later slot, and the closure runs  *)
(* in the destructor, when the hand clears the last slot that has one.     *)
(*                                                                         *)
(* All of it runs in the loop's thread: Tick as the handler of the         *)
(* timerfd's channel, the other operations as tasks (AddInLoop, ... push   *)
(* them), so none of them interleaves with the increments of one Tick.     *)
(* TimeWheel::RemoveInLoop has no caller and is not modelled.              *)
(***************************************************************************)
EXTENDS Integers, FiniteSets, FiniteSetsExt

CONSTANTS Id,        \* timer ids; a connection uses its own id
          Capacity,  \* _capacity, 60 in the code
          Timeout,   \* the timeouts, in ticks, timers are added with
          MaxLate    \* bound of the model: expirations the loop may be behind by

ASSUME CapacityAssumption == Capacity \in Nat \ {0}

(* Nothing in Add checks it: a timeout of 0 waits for a whole revolution,  *)
(* and one beyond Capacity loses its whole revolutions.                    *)
ASSUME TimeoutAssumption == Timeout \subseteq 1 .. Capacity

ASSUME BoundAssumption == MaxLate \in Nat

VARIABLES tick,      \* _tick, the hand
          clock,     \* _clock: the ids with a pointer in each slot
          entries,   \* the keys of _tasks
          timeout,   \* TimerTask::_timeout, 0 where there is no TimerTask
          valid,     \* TimerTask::_isValid, FALSE where there is none
          late,      \* the timerfd's count: expirations not yet read
          due,       \* increments the Tick in progress has left to do
          fired      \* the ids whose closure the last step executed

vars == <<tick, clock, entries, timeout, valid, late, due, fired>>

Slot == 0 .. Capacity - 1

TypeOK == /\ tick \in Slot
          /\ clock \in [Slot -> SUBSET Id]
          /\ entries \in SUBSET Id
          /\ timeout \in [Id -> {0} \cup Timeout]
          /\ valid \in [Id -> BOOLEAN]
          /\ late \in 0 .. MaxLate
          /\ due \in 0 .. MaxLate
          /\ fired \in SUBSET Id

Init == /\ tick = 0
        /\ clock = [s \in Slot |-> {}]
        /\ entries = {}
        /\ timeout = [id \in Id |-> 0]
        /\ valid = [id \in Id |-> FALSE]
        /\ late = 0
        /\ due = 0
        /\ fired = {}

-----------------------------------------------------------------------------
SlotsOf(id) == {s \in Slot : id \in clock[s]}

\* (Mutant) The slot is one short of the delay.
InsertEarly(id, delay) ==
    clock' = [clock EXCEPT ![(tick + delay - 1) % Capacity] = @ \cup {id}]

(* _clock[(_tick + delay) % _capacity].push_back(sp) *)
Insert(id, delay) ==
    clock' = [clock EXCEPT ![(tick + delay) % Capacity] = @ \cup {id}]

(* The loop's thread runs a task: it is not in the middle of a Tick. *)
InTask == due = 0

(* Add does nothing for an id that has an entry, cancelled or not. *)
Add(id, t) ==
    /\ InTask
    /\ fired' = {}
    /\ IF id \in entries
       THEN UNCHANGED <<clock, entries, timeout, valid>>
       ELSE /\ Insert(id, t)
            /\ entries' = entries \cup {id}
            /\ timeout' = [timeout EXCEPT ![id] = t]
            /\ valid' = [valid EXCEPT ![id] = TRUE]
    /\ UNCHANGED <<tick, late, due>>

Update(id) ==
    /\ InTask
    /\ fired' = {}
    /\ IF id \in entries THEN Insert(id, timeout[id]) ELSE UNCHANGED clock
    /\ UNCHANGED <<tick, entries, timeout, valid, late, due>>

Cancel(id) ==
    /\ InTask
    /\ fired' = {}
    /\ valid' = [valid EXCEPT ![id] = FALSE]
    /\ UNCHANGED <<tick, clock, entries, timeout, late, due>>

(* The timerfd expires once more: a second has passed. *)
Expire ==
    /\ late < MaxLate
    /\ late' = late + 1
    /\ fired' = {}
    /\ UNCHANGED <<tick, clock, entries, timeout, valid, due>>

(* Tick reads the count of expirations, which resets it ... *)
Tick ==
    /\ InTask
    /\ late > 0
    /\ due' = late
    /\ late' = 0
    /\ fired' = {}
    /\ UNCHANGED <<tick, clock, entries, timeout, valid>>

\* (Mutant) ~TimerTask erases no entry (_remove was not set).
ForgetRemove ==
    LET next  == (tick + 1) % Capacity
        dying == {id \in clock[next] : SlotsOf(id) = {next}}
    IN  /\ due > 0
        /\ due' = due - 1
        /\ tick' = next
        /\ clock' = [clock EXCEPT ![next] = {}]
        /\ fired' = {id \in dying : valid[id]}
        /\ timeout' = [id \in Id |-> IF id \in dying THEN 0 ELSE timeout[id]]
        /\ valid' = [id \in Id |-> id \notin dying /\ valid[id]]
        /\ UNCHANGED <<entries, late>>

(* ... and increments the hand as many times: the slot it reaches is       *)
(* cleared, and the TimerTasks whose last pointer was there are destroyed, *)
(* which runs the closures of the valid ones and erases their entries.     *)
Increment ==
    LET next  == (tick + 1) % Capacity
        dying == {id \in clock[next] : SlotsOf(id) = {next}}
    IN  /\ due > 0
        /\ due' = due - 1
        /\ tick' = next
        /\ clock' = [clock EXCEPT ![next] = {}]
        /\ fired' = {id \in dying : valid[id]}
        /\ entries' = entries \ dying
        /\ timeout' = [id \in Id |-> IF id \in dying THEN 0 ELSE timeout[id]]
        /\ valid' = [id \in Id |-> id \notin dying /\ valid[id]]
        /\ UNCHANGED late

-----------------------------------------------------------------------------
Next == \/ \E id \in Id, t \in Timeout : Add(id, t)
        \/ \E id \in Id : Update(id)
        \/ \E id \in Id : Cancel(id)
        \/ Expire
        \/ Tick
        \/ Increment

(* Time passes, and the loop's thread gets to the timerfd and through Tick. *)
Fairness == WF_vars(Expire) /\ WF_vars(Tick) /\ WF_vars(Increment)

Safety == Init /\ [][Next]_vars

Spec == Safety /\ Fairness

-----------------------------------------------------------------------------
(* EntriesAreAlive: an id has an entry in _tasks exactly while some slot   *)
(* owns its TimerTask.  Update dereferences the weak pointer it finds      *)
(* without looking whether it is empty, and Add and HasTimer take the      *)
(* presence of an entry for the presence of a timer.                       *)
EntriesAreAlive == \A id \in Id : id \in entries <=> SlotsOf(id) # {}

(* Ticks until the hand clears slot s: a full turn for the slot it is on. *)
TicksTo(s) == ((s - tick - 1) % Capacity) + 1

Left(id) == IF SlotsOf(id) = {} THEN 0 ELSE Max({TicksTo(s) : s \in SlotsOf(id)})

(* The wheel as a set of independent countdowns. *)
T == INSTANCE Timers WITH left <- [id \in Id |-> Left(id)]

(* CountsDown: with any mixture of additions, refreshes, cancellations and *)
(* late ticks, a timer fires exactly `timeout' ticks after its last        *)
(* refresh, once, and not at all if it was cancelled: neither the pointers *)
(* earlier refreshes left in other slots nor the wrapping of the ring can  *)
(* make it fire early or late.                                             *)
CountsDown == T!Safety

(* TimersEnd: a timer that is not refreshed for ever is done in the end,   *)
(* so its id can be used again.                                            *)
TimersEnd ==
    \A id \in Id : \/ []<><<Update(id)>>_vars
                   \/ (id \in entries) ~> (id \notin entries)
=============================================================================
