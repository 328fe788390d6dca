------------------------------- MODULE Timers -------------------------------
(***************************************************************************)
(* What a TimeWheel promises: every timer counts down, on its own, from    *)
(* its timeout to nothing; refreshing it starts the count again; when it   *)
(* reaches nothing its closure is executed, exactly once, unless it was    *)
(* cancelled.  A cancelled timer still counts down, and occupies its id    *)
(* until it is done.  TimeWheel.tla implements it with one moving hand and *)
(* a ring of slots.                                                        *)
(***************************************************************************)
EXTENDS Integers

CONSTANTS Id,        \* timer ids
          Timeout    \* the timeouts timers are added with

VARIABLES left,      \* ticks before the timer is done, 0 if there is no timer
          timeout,   \* what a refresh resets it to
          valid,     \* the timer is not cancelled
          fired      \* the ids whose closure the last step executed

vars == <<left, timeout, valid, fired>>

Init == /\ left = [id \in Id |-> 0]
        /\ timeout = [id \in Id |-> 0]
        /\ valid = [id \in Id |-> FALSE]
        /\ fired = {}

Add(id, t) == /\ left[id] = 0
              /\ left' = [left EXCEPT ![id] = t]
              /\ timeout' = [timeout EXCEPT ![id] = t]
              /\ valid' = [valid EXCEPT ![id] = TRUE]
              /\ fired' = {}

Refresh(id) == /\ left[id] > 0
               /\ left' = [left EXCEPT ![id] = timeout[id]]
               /\ fired' = {}
               /\ UNCHANGED <<timeout, valid>>

Cancel(id) == /\ left[id] > 0
              /\ valid' = [valid EXCEPT ![id] = FALSE]
              /\ fired' = {}
              /\ UNCHANGED <<left, timeout>>

Elapse == /\ left' = [id \in Id |-> IF left[id] = 0 THEN 0 ELSE left[id] - 1]
          /\ fired' = {id \in Id : left[id] = 1 /\ valid[id]}
          /\ timeout' = [id \in Id |-> IF left[id] <= 1 THEN 0 ELSE timeout[id]]
          /\ valid' = [id \in Id |-> left[id] > 1 /\ valid[id]]

(* Time is read, or an operation finds nothing to do. *)
Idle == fired' = {} /\ UNCHANGED <<left, timeout, valid>>

Next == \/ \E id \in Id, t \in Timeout : Add(id, t)
        \/ \E id \in Id : Refresh(id) \/ Cancel(id)
        \/ Elapse
        \/ Idle

Safety == Init /\ [][Next]_vars
=============================================================================
