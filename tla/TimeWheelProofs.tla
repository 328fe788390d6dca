-------------------------- MODULE TimeWheelProofs --------------------------
(***************************************************************************)
(* What TLAPS proves of TimeWheel, for any capacity, any set of timers and *)
(* any timeouts within the capacity: its type invariant, that an entry of  *)
(* _tasks never outlives its TimerTask, and that the ring of slots         *)
(* implements the independent countdowns of Timers.                        *)
(***************************************************************************)
EXTENDS TimeWheel, TLAPS

USE CapacityAssumption, TimeoutAssumption, BoundAssumption

-----------------------------------------------------------------------------
(* The arithmetic of the ring. *)

LEMMA SlotIsSlot ==
    ASSUME tick \in Slot, NEW delay \in Nat
    PROVE  (tick + delay) % Capacity \in Slot
  BY DEF Slot

LEMMA TimeoutIsNat == \A t \in {0} \cup Timeout : t \in Nat
  OBVIOUS

(* The ticks to a slot, without the remainder: a slot ahead of the hand is *)
(* reached in this revolution, one at or behind it in the next.            *)
LEMMA TicksToIs ==
    ASSUME tick \in Slot, NEW s \in Slot
    PROVE  TicksTo(s) = IF s > tick THEN s - tick ELSE s - tick + Capacity
<1>1. CASE s > tick
  BY <1>1 DEF Slot, TicksTo
<1>2. CASE s <= tick
  BY <1>2 DEF Slot, TicksTo
<1> QED
  BY <1>1, <1>2 DEF Slot

(* The slot Insert chooses is the one the hand reaches `delay' ticks later. *)
LEMMA InsertedSlot ==
    ASSUME tick \in Slot, NEW delay \in 1 .. Capacity
    PROVE  TicksTo((tick + delay) % Capacity) = delay
<1> DEFINE s == (tick + delay) % Capacity
<1>1. CASE tick + delay < Capacity
  <2>1. s = tick + delay
    BY <1>1 DEF Slot
  <2> QED
    BY <2>1, <1>1, TicksToIs, SlotIsSlot DEF Slot
<1>2. CASE tick + delay >= Capacity
  <2>1. s = tick + delay - Capacity
    BY <1>2 DEF Slot
  <2> QED
    BY <2>1, <1>2, TicksToIs, SlotIsSlot DEF Slot
<1> QED
  BY <1>1, <1>2 DEF Slot

(* When the hand moves, every slot but the one it reaches is a tick closer. *)
LEMMA HandMoves ==
    ASSUME tick \in Slot, tick' = (tick + 1) % Capacity, NEW s \in Slot
    PROVE  /\ tick' \in Slot
           /\ TicksTo(s) = 1 <=> s = tick'
           /\ s # tick' => TicksTo(s)' = TicksTo(s) - 1
<1>1. tick' \in Slot
  BY SlotIsSlot DEF Slot
<1>2. TicksTo(s)' = IF s > tick' THEN s - tick' ELSE s - tick' + Capacity
  <2>1. CASE s > tick'
    BY <1>1, <2>1 DEF Slot, TicksTo
  <2>2. CASE s <= tick'
    BY <1>1, <2>2 DEF Slot, TicksTo
  <2> QED
    BY <1>1, <2>1, <2>2 DEF Slot
<1>3. tick' = IF tick + 1 = Capacity THEN 0 ELSE tick + 1
  BY DEF Slot
<1> QED
  BY <1>1, <1>2, <1>3, TicksToIs DEF Slot

-----------------------------------------------------------------------------
(* The wheel keeps its types: the hand stays on the ring and the slots own *)
(* timers only.                                                            *)
THEOREM TypeCorrect == Spec => []TypeOK
<1>1. Init => TypeOK
  <2> SUFFICES ASSUME Init
               PROVE  TypeOK
    OBVIOUS
  <2>1. tick \in Slot /\ late \in 0 .. MaxLate /\ due \in 0 .. MaxLate
    BY DEF Init, Slot
  <2>2. timeout \in [Id -> {0} \cup Timeout] /\ clock \in [Slot -> SUBSET Id]
    BY DEF Init
  <2> QED
    BY <2>1, <2>2, Zenon DEF Init, TypeOK
<1>2. TypeOK /\ [Next]_vars => TypeOK'
  <2> SUFFICES ASSUME TypeOK, [Next]_vars
               PROVE  TypeOK'
    OBVIOUS
  <2> USE DEF TypeOK
  <2>1. ASSUME NEW id \in Id, NEW t \in Timeout, Add(id, t)
        PROVE  TypeOK'
    <3>1. (tick + t) % Capacity \in Slot
      BY SlotIsSlot, TimeoutIsNat
    <3>2. clock' \in [Slot -> SUBSET Id] /\ entries' \in SUBSET Id
      BY <2>1, <3>1 DEF Add, Insert
    <3>3. timeout' \in [Id -> {0} \cup Timeout] /\ valid' \in [Id -> BOOLEAN]
      BY <2>1 DEF Add
    <3>4. tick' = tick /\ late' = late /\ due' = due /\ fired' = {}
      BY <2>1, Zenon DEF Add
    <3> QED
      BY <3>2, <3>3, <3>4
  <2>2. ASSUME NEW id \in Id, Update(id)
        PROVE  TypeOK'
    <3>1. timeout[id] \in Nat
      BY TimeoutIsNat, Zenon
    <3>2. (tick + timeout[id]) % Capacity \in Slot
      BY <3>1, SlotIsSlot
    <3> QED
      BY <2>2, <3>2 DEF Update, Insert
  <2>3. ASSUME NEW id \in Id, Cancel(id)
        PROVE  TypeOK'
    BY <2>3 DEF Cancel
  <2>4. CASE Expire
    BY <2>4 DEF Expire
  <2>5. CASE Tick
    BY <2>5 DEF Tick
  <2>6. CASE Increment
    <3> DEFINE next  == (tick + 1) % Capacity
               dying == {id \in clock[next] : SlotsOf(id) = {next}}
    <3>1. next \in Slot
      BY SlotIsSlot
    <3> HIDE DEF next, dying
    <3>2. /\ tick' = next
          /\ clock' = [clock EXCEPT ![next] = {}]
          /\ fired' = {id \in dying : valid[id]}
          /\ entries' = entries \ dying
          /\ timeout' = [id \in Id |-> IF id \in dying THEN 0 ELSE timeout[id]]
          /\ valid' = [id \in Id |-> id \notin dying /\ valid[id]]
      BY <2>6, Zenon DEF Increment, next, dying
    <3>3. due' \in 0 .. MaxLate /\ late' \in 0 .. MaxLate
      BY <2>6 DEF Increment
    <3>4. dying \subseteq Id
      BY <3>1 DEF dying
    <3>5. valid' \in [Id -> BOOLEAN]
      BY <3>2, Zenon
    <3>6. clock' \in [Slot -> SUBSET Id] /\ timeout' \in [Id -> {0} \cup Timeout]
      BY <3>1, <3>2
    <3>7. entries' \in SUBSET Id /\ fired' \in SUBSET Id
      BY <3>2, <3>4, Zenon
    <3> QED
      BY <3>1, <3>2, <3>3, <3>5, <3>6, <3>7
  <2>7. CASE UNCHANGED vars
    BY <2>7 DEF vars
  <2> QED
    BY <2>1, <2>2, <2>3, <2>4, <2>5, <2>6, <2>7 DEF Next
<1> QED
  BY <1>1, <1>2, PTL DEF Spec, Safety

-----------------------------------------------------------------------------
(* What the two ways to write the ring do to the slots of a timer. *)

LEMMA InsertedSlots ==
    ASSUME TypeOK, NEW id \in Id, NEW delay \in Nat, Insert(id, delay)
    PROVE  /\ SlotsOf(id)' = SlotsOf(id) \cup {(tick + delay) % Capacity}
           /\ \A i \in Id \ {id} : SlotsOf(i)' = SlotsOf(i)
<1> DEFINE new == (tick + delay) % Capacity
<1>1. new \in Slot
  BY SlotIsSlot DEF TypeOK
<1>2. clock' = [clock EXCEPT ![new] = @ \cup {id}]
  BY DEF Insert
<1> HIDE DEF new
<1>3. \A s \in Slot : clock'[s] = IF s = new THEN clock[s] \cup {id} ELSE clock[s]
  BY <1>1, <1>2 DEF TypeOK
<1>4. SlotsOf(id)' = SlotsOf(id) \cup {new}
  BY <1>1, <1>3 DEF SlotsOf
<1>5. \A i \in Id \ {id} : SlotsOf(i)' = SlotsOf(i)
  BY <1>3 DEF SlotsOf
<1> QED
  BY <1>4, <1>5 DEF new

LEMMA ClearedSlot ==
    ASSUME TypeOK, Increment, NEW id \in Id
    PROVE  /\ SlotsOf(id)' = SlotsOf(id) \ {tick'}
           /\ tick' \in Slot
           /\ id \in entries' <=> id \in entries /\ SlotsOf(id) # {tick'}
           /\ timeout'[id] = IF SlotsOf(id) = {tick'} THEN 0 ELSE timeout[id]
           /\ valid'[id] = (SlotsOf(id) # {tick'} /\ valid[id])
           /\ id \in fired' <=> SlotsOf(id) = {tick'} /\ valid[id]
<1> DEFINE next  == (tick + 1) % Capacity
           dying == {i \in clock[next] : SlotsOf(i) = {next}}
<1>1. next \in Slot
  BY SlotIsSlot DEF TypeOK
<1> HIDE DEF next, dying
<1>2. /\ tick' = next
      /\ clock' = [clock EXCEPT ![next] = {}]
      /\ fired' = {i \in dying : valid[i]}
      /\ entries' = entries \ dying
      /\ timeout' = [i \in Id |-> IF i \in dying THEN 0 ELSE timeout[i]]
      /\ valid' = [i \in Id |-> i \notin dying /\ valid[i]]
  BY Zenon DEF Increment, next, dying
<1>3. id \in dying <=> SlotsOf(id) = {next}
  BY <1>1 DEF dying, SlotsOf
<1>4. SlotsOf(id)' = SlotsOf(id) \ {next}
  BY <1>1, <1>2 DEF SlotsOf, TypeOK
<1> QED
  BY <1>1, <1>2, <1>3, <1>4, Zenon

-----------------------------------------------------------------------------
(* An entry of _tasks and the slots that own its TimerTask come and go     *)
(* together, so the weak pointer Update finds is never empty.              *)
THEOREM EntriesCorrect == Spec => []EntriesAreAlive
<1>1. Init => EntriesAreAlive
  BY DEF Init, EntriesAreAlive, SlotsOf
<1>2. TypeOK /\ EntriesAreAlive /\ [Next]_vars => EntriesAreAlive'
  <2> SUFFICES ASSUME TypeOK, EntriesAreAlive, [Next]_vars
               PROVE  EntriesAreAlive'
    OBVIOUS
  <2> USE DEF EntriesAreAlive
  <2>1. ASSUME NEW id \in Id, NEW t \in Timeout, Add(id, t)
        PROVE  EntriesAreAlive'
    <3>1. CASE id \in entries
      BY <2>1, <3>1 DEF Add, SlotsOf
    <3>2. CASE id \notin entries
      <4>1. Insert(id, t) /\ entries' = entries \cup {id}
        BY <2>1, <3>2 DEF Add
      <4> QED
        BY <4>1, InsertedSlots, TimeoutIsNat
    <3> QED
      BY <3>1, <3>2
  <2>2. ASSUME NEW id \in Id, Update(id)
        PROVE  EntriesAreAlive'
    <3>1. CASE id \in entries
      <4>1. Insert(id, timeout[id]) /\ entries' = entries
        BY <2>2, <3>1 DEF Update
      <4>2. timeout[id] \in Nat
        BY TimeoutIsNat, Zenon DEF TypeOK
      <4> QED
        BY <3>1, <4>1, <4>2, InsertedSlots
    <3>2. CASE id \notin entries
      BY <2>2, <3>2 DEF Update, SlotsOf
    <3> QED
      BY <3>1, <3>2
  <2>3. ASSUME NEW id \in Id, Cancel(id)
        PROVE  EntriesAreAlive'
    BY <2>3 DEF Cancel, SlotsOf
  <2>4. CASE Expire
    BY <2>4 DEF Expire, SlotsOf
  <2>5. CASE Tick
    BY <2>5 DEF Tick, SlotsOf
  <2>6. CASE Increment
    BY <2>6, ClearedSlot
  <2>7. CASE UNCHANGED vars
    BY <2>7 DEF vars, SlotsOf
  <2> QED
    BY <2>1, <2>2, <2>3, <2>4, <2>5, <2>6, <2>7 DEF Next
<1> QED
  BY <1>1, <1>2, TypeCorrect, PTL DEF Spec, Safety

-----------------------------------------------------------------------------
(* Slot s is the last one the hand clears of those that own the timer.     *)
Last(id, s) == s \in SlotsOf(id) /\ \A u \in SlotsOf(id) : TicksTo(u) <= TicksTo(s)

(* What the countdown of a timer rests on: it has a last slot, which the   *)
(* hand reaches within the timeout, so that the slot a refresh adds is     *)
(* never before it; and a timer that is done keeps nothing.                *)
Within(id) ==
    IF id \in entries
    THEN /\ timeout[id] \in Timeout
         /\ \E s \in Slot : Last(id, s) /\ TicksTo(s) <= timeout[id]
    ELSE SlotsOf(id) = {} /\ timeout[id] = 0 /\ ~valid[id]

LastWithinTimeout == \A id \in Id : Within(id)

LEMMA MaxIs ==
    ASSUME NEW M \in SUBSET Int, NEW m \in M, \A x \in M : x <= m
    PROVE  Max(M) = m
<1>1. \E x \in M : \A y \in M : x >= y
  OBVIOUS
<1>2. Max(M) \in M /\ \A y \in M : Max(M) >= y
  BY <1>1 DEF Max
<1>3. Max(M) \in Int /\ m \in Int /\ Max(M) >= m /\ Max(M) <= m
  BY <1>2
<1> QED
  BY <1>3

LEMMA TicksToIsInt == tick \in Slot => \A s \in Slot : TicksTo(s) \in 1 .. Capacity
<1> SUFFICES ASSUME tick \in Slot, NEW s \in Slot
             PROVE  TicksTo(s) \in 1 .. Capacity
  OBVIOUS
<1> QED
  BY TicksToIs DEF Slot

(* The countdown of a timer is the ticks to its last slot. *)
LeftIsToLast ==
    tick \in Slot => /\ \A id \in Id, s \in Slot : Last(id, s) => Left(id) = TicksTo(s)
                     /\ \A id \in Id : SlotsOf(id) = {} => Left(id) = 0

LEMMA LeftIs == LeftIsToLast
<1> SUFFICES ASSUME tick \in Slot
             PROVE  /\ \A id \in Id, s \in Slot : Last(id, s) => Left(id) = TicksTo(s)
                    /\ \A id \in Id : SlotsOf(id) = {} => Left(id) = 0
  BY DEF LeftIsToLast
<1>1. ASSUME NEW id \in Id, NEW s \in Slot, Last(id, s)
      PROVE  Left(id) = TicksTo(s)
  <2> DEFINE M == {TicksTo(u) : u \in SlotsOf(id)}
  <2>1. SlotsOf(id) \subseteq Slot /\ s \in SlotsOf(id)
    BY <1>1 DEF SlotsOf, Last
  <2>2. M \in SUBSET Int
    BY <2>1, TicksToIsInt
  <2>3. TicksTo(s) \in M /\ \A x \in M : x <= TicksTo(s)
    BY <1>1, <2>1 DEF Last
  <2> HIDE DEF M
  <2>4. Max(M) = TicksTo(s)
    BY <2>2, <2>3, MaxIs
  <2> QED
    BY <2>1, <2>4, Zenon DEF Left, M
<1>2. ASSUME NEW id \in Id, SlotsOf(id) = {}
      PROVE  Left(id) = 0
  BY <1>2 DEF Left
<1> QED
  BY <1>1, <1>2

(* A pointer dropped no earlier than the others makes the countdown the    *)
(* delay it was dropped with, and leaves the other timers alone.           *)
LEMMA InsertedLast ==
    ASSUME TypeOK, NEW id \in Id, NEW delay \in 1 .. Capacity,
           Insert(id, delay), tick' = tick,
           \A u \in SlotsOf(id) : TicksTo(u) <= delay
    PROVE  /\ \E s \in Slot : Last(id, s)' /\ TicksTo(s)' = delay
           /\ Left(id)' = delay
           /\ \A i \in Id \ {id} : Left(i)' = Left(i)
<1>1. PICK new \in Slot : new = (tick + delay) % Capacity /\ TicksTo(new) = delay
  BY SlotIsSlot, InsertedSlot DEF TypeOK
<1>2. /\ SlotsOf(id)' = SlotsOf(id) \cup {new}
      /\ \A i \in Id \ {id} : SlotsOf(i)' = SlotsOf(i)
  BY <1>1, InsertedSlots
<1>3. \A s \in Slot : TicksTo(s)' = TicksTo(s)
  BY DEF TicksTo
<1>4. \A u \in SlotsOf(id) : u \in Slot
  BY DEF SlotsOf
<1>5. Last(id, new)' /\ TicksTo(new)' = delay
  <2>1. TicksTo(new)' = delay /\ new \in SlotsOf(id)'
    BY <1>1, <1>2, <1>3
  <2>2. ASSUME NEW u \in SlotsOf(id)'
        PROVE  TicksTo(u)' <= delay
    <3>1. u = new \/ u \in SlotsOf(id)
      BY <1>1, <1>2, <2>2
    <3> QED
      BY <1>1, <1>3, <1>4, <2>1, <3>1
  <2> QED
    BY <2>1, <2>2 DEF Last
<1>6. Left(id)' = delay
  <2>1. tick' \in Slot
    BY DEF TypeOK
  <2>2. LeftIsToLast'
    BY LeftIs, PTL
  <2> QED
    BY <1>1, <1>5, <2>1, <2>2 DEF LeftIsToLast
<1>7. \A i \in Id \ {id} : Left(i)' = Left(i)
  BY <1>2 DEF Left, TicksTo
<1> QED
  BY <1>1, <1>5, <1>6, <1>7

(* A tick takes one from every countdown, and ends those that were at one. *)
LEMMA CountedDown ==
    ASSUME TypeOK, Increment, NEW id \in Id, NEW s \in Slot, Last(id, s)
    PROVE  /\ SlotsOf(id) = {tick'} <=> TicksTo(s) = 1
           /\ SlotsOf(id) # {tick'} => Last(id, s)' /\ TicksTo(s)' = TicksTo(s) - 1
           /\ Left(id)' = Left(id) - 1
<1>1. tick \in Slot /\ tick' = (tick + 1) % Capacity
  BY DEF TypeOK, Increment
<1>2. /\ SlotsOf(id)' = SlotsOf(id) \ {tick'}
      /\ tick' \in Slot
  BY ClearedSlot
<1>3. /\ SlotsOf(id) \subseteq Slot
      /\ s \in SlotsOf(id)
      /\ \A u \in SlotsOf(id) : TicksTo(u) <= TicksTo(s)
  BY DEF SlotsOf, Last
<1>4. \A u \in Slot : /\ TicksTo(u) \in 1 .. Capacity
                      /\ TicksTo(u) = 1 <=> u = tick'
                      /\ u # tick' => TicksTo(u)' = TicksTo(u) - 1
  BY <1>1, HandMoves, TicksToIsInt
<1>5. SlotsOf(id) = {tick'} <=> TicksTo(s) = 1
  <2>1. ASSUME TicksTo(s) = 1, NEW u \in SlotsOf(id)
        PROVE  u = tick'
    BY <1>3, <1>4, <2>1
  <2> QED
    BY <1>3, <1>4, <2>1
<1>6. ASSUME TicksTo(s) # 1
      PROVE  Last(id, s)' /\ TicksTo(s)' = TicksTo(s) - 1
  <2>1. s # tick' /\ TicksTo(s)' = TicksTo(s) - 1
    BY <1>4, <1>6
  <2>2. ASSUME NEW u \in SlotsOf(id)'
        PROVE  TicksTo(u)' <= TicksTo(s)'
    BY <1>2, <1>3, <1>4, <2>1, <2>2
  <2> QED
    BY <1>2, <1>3, <2>1, <2>2 DEF Last
<1>7. Left(id) = TicksTo(s)
  BY <1>1, LeftIs DEF LeftIsToLast
<1>8. LeftIsToLast'
  BY LeftIs, PTL
<1>9. CASE TicksTo(s) = 1
  <2>1. SlotsOf(id)' = {}
    BY <1>2, <1>5, <1>9
  <2> QED
    BY <1>2, <1>5, <1>7, <1>8, <1>9, <2>1 DEF LeftIsToLast
<1>10. CASE TicksTo(s) # 1
  BY <1>2, <1>5, <1>6, <1>7, <1>8, <1>10 DEF LeftIsToLast
<1> QED
  BY <1>9, <1>10

-----------------------------------------------------------------------------
LEMMA UntouchedTimer ==
    ASSUME NEW id \in Id, Within(id), clock' = clock, tick' = tick,
           id \in entries' <=> id \in entries, timeout'[id] = timeout[id],
           valid'[id] => valid[id]
    PROVE  Within(id)' /\ Left(id)' = Left(id)
  BY DEF Within, Last, SlotsOf, TicksTo, Left

(* Every refresh puts the timer at its full timeout again. *)
LEMMA RefreshedTimer ==
    ASSUME TypeOK, LastWithinTimeout, NEW id \in Id, id \in entries, Update(id)
    PROVE  /\ timeout[id] \in 1 .. Capacity
           /\ Insert(id, timeout[id]) /\ tick' = tick
           /\ \A u \in SlotsOf(id) : TicksTo(u) <= timeout[id]
<1>1. Insert(id, timeout[id]) /\ tick' = tick
  BY DEF Update
<1>2. PICK s \in Slot : Last(id, s) /\ TicksTo(s) <= timeout[id]
  BY DEF LastWithinTimeout, Within
<1>3. timeout[id] \in 1 .. Capacity
  BY DEF LastWithinTimeout, Within
<1>4. ASSUME NEW u \in SlotsOf(id)
      PROVE  TicksTo(u) <= timeout[id]
  <2>1. u \in Slot /\ TicksTo(u) <= TicksTo(s)
    BY <1>2, <1>4 DEF Last, SlotsOf
  <2>2. TicksTo(u) \in Int /\ TicksTo(s) \in Int
    BY <2>1, TicksToIsInt DEF TypeOK
  <2> QED
    BY <1>2, <1>3, <2>1, <2>2
<1> QED
  BY <1>1, <1>3, <1>4

LEMMA InsertedTimer ==
    ASSUME TypeOK, LastWithinTimeout, NEW id \in Id, NEW delay \in Timeout,
           Insert(id, delay), tick' = tick,
           \A u \in SlotsOf(id) : TicksTo(u) <= delay,
           id \in entries', timeout'[id] = delay,
           \A i \in Id \ {id} : /\ i \in entries' <=> i \in entries
                                /\ timeout'[i] = timeout[i]
                                /\ valid'[i] = valid[i]
    PROVE  /\ LastWithinTimeout'
           /\ Left(id)' = delay
           /\ \A i \in Id \ {id} : Left(i)' = Left(i)
<1>0. delay \in 1 .. Capacity
  OBVIOUS
<1>1. /\ \E s \in Slot : Last(id, s)' /\ TicksTo(s)' = delay
      /\ Left(id)' = delay
      /\ \A i \in Id \ {id} : Left(i)' = Left(i)
  BY <1>0, InsertedLast
<1>2. Within(id)'
  BY <1>0, <1>1 DEF Within
<1>3. ASSUME NEW i \in Id \ {id}
      PROVE  Within(i)'
  <2>1. SlotsOf(i)' = SlotsOf(i)
    BY <1>0, InsertedSlots
  <2>2. \A s : TicksTo(s)' = TicksTo(s)
    BY DEF TicksTo
  <2>3. \A s \in Slot : Last(i, s)' <=> Last(i, s)
    BY <2>1, <2>2 DEF Last
  <2>4. Within(i)
    BY DEF LastWithinTimeout
  <2> QED
    BY <2>1, <2>2, <2>3, <2>4 DEF Within
<1> QED
  BY <1>1, <1>2, <1>3 DEF LastWithinTimeout

(* After an increment every countdown is one less, and a timer whose last  *)
(* pointer was cleared is done.                                            *)
LEMMA TickedTimer ==
    ASSUME TypeOK, LastWithinTimeout, Increment, NEW id \in Id
    PROVE  /\ Within(id)'
           /\ Left(id) \in Nat
           /\ Left(id)' = IF Left(id) = 0 THEN 0 ELSE Left(id) - 1
           /\ id \in fired' <=> Left(id) = 1 /\ valid[id]
           /\ timeout'[id] = IF Left(id) <= 1 THEN 0 ELSE timeout[id]
           /\ valid'[id] <=> Left(id) > 1 /\ valid[id]
<1>1. /\ SlotsOf(id)' = SlotsOf(id) \ {tick'}
      /\ id \in entries' <=> id \in entries /\ SlotsOf(id) # {tick'}
      /\ timeout'[id] = IF SlotsOf(id) = {tick'} THEN 0 ELSE timeout[id]
      /\ valid'[id] <=> SlotsOf(id) # {tick'} /\ valid[id]
      /\ id \in fired' <=> SlotsOf(id) = {tick'} /\ valid[id]
  BY ClearedSlot
<1>2. Within(id) /\ tick \in Slot /\ tick' \in Slot
  BY ClearedSlot DEF LastWithinTimeout, TypeOK
<1>3. CASE id \in entries
  <2>1. PICK s \in Slot : Last(id, s) /\ TicksTo(s) <= timeout[id]
    BY <1>2, <1>3 DEF Within
  <2>2. /\ SlotsOf(id) = {tick'} <=> TicksTo(s) = 1
        /\ SlotsOf(id) # {tick'} => Last(id, s)' /\ TicksTo(s)' = TicksTo(s) - 1
        /\ Left(id)' = Left(id) - 1
    BY <2>1, CountedDown
  <2>3. Left(id) = TicksTo(s) /\ TicksTo(s) \in 1 .. Capacity
    BY <1>2, <2>1, LeftIs, TicksToIsInt DEF LeftIsToLast
  <2>4. timeout[id] \in Timeout
    BY <1>2, <1>3 DEF Within
  <2>5. CASE SlotsOf(id) = {tick'}
    BY <1>1, <2>2, <2>3, <2>5 DEF Within
  <2>6. CASE SlotsOf(id) # {tick'}
    <3>1. id \in entries' /\ timeout'[id] = timeout[id] /\ (valid'[id] <=> valid[id])
      BY <1>1, <1>3, <2>6
    <3>2. Last(id, s)' /\ TicksTo(s)' <= timeout'[id]
      <4>1. timeout[id] \in 1 .. Capacity
        BY <2>4
      <4> QED
        BY <2>1, <2>2, <2>3, <2>6, <3>1, <4>1
    <3>3. Within(id)'
      BY <2>4, <3>1, <3>2 DEF Within
    <3> QED
      BY <1>1, <2>2, <2>3, <2>6, <3>1, <3>3
  <2> QED
    BY <2>5, <2>6
<1>4. CASE id \notin entries
  <2>1. SlotsOf(id) = {} /\ timeout[id] = 0 /\ ~valid[id]
    BY <1>2, <1>4 DEF Within
  <2>2. SlotsOf(id)' = {}
    BY <1>1, <2>1
  <2>3. LeftIsToLast'
    BY LeftIs, PTL
  <2>4. Left(id) = 0 /\ Left(id)' = 0
    BY <1>2, <2>1, <2>2, <2>3, LeftIs DEF LeftIsToLast
  <2> QED
    BY <1>1, <1>4, <2>1, <2>2, <2>4 DEF Within
<1> QED
  BY <1>3, <1>4

-----------------------------------------------------------------------------
(* Every operation keeps the last slot of every timer within its timeout.  *)
THEOREM LastCorrect == Spec => []LastWithinTimeout
<1>1. Init => LastWithinTimeout
  BY DEF Init, LastWithinTimeout, Within, SlotsOf
<1>2. TypeOK /\ EntriesAreAlive /\ LastWithinTimeout /\ [Next]_vars => LastWithinTimeout'
  <2> SUFFICES ASSUME TypeOK, EntriesAreAlive, LastWithinTimeout, [Next]_vars
               PROVE  LastWithinTimeout'
    OBVIOUS
  <2>1. ASSUME NEW id \in Id, NEW t \in Timeout, Add(id, t)
        PROVE  LastWithinTimeout'
    <3>1. CASE id \in entries
      BY <2>1, <3>1, UntouchedTimer DEF Add, LastWithinTimeout
    <3>2. CASE id \notin entries
      <4>1. SlotsOf(id) = {}
        BY <3>2 DEF EntriesAreAlive
      <4>2. /\ Insert(id, t) /\ tick' = tick /\ entries' = entries \cup {id}
            /\ timeout' = [timeout EXCEPT ![id] = t]
            /\ valid' = [valid EXCEPT ![id] = TRUE]
        BY <2>1, <3>2 DEF Add
      <4> QED
        BY <4>1, <4>2, InsertedTimer DEF TypeOK
    <3> QED
      BY <3>1, <3>2
  <2>2. ASSUME NEW id \in Id, Update(id)
        PROVE  LastWithinTimeout'
    <3>1. CASE id \in entries
      <4>1. /\ Insert(id, timeout[id]) /\ tick' = tick
            /\ \A u \in SlotsOf(id) : TicksTo(u) <= timeout[id]
        BY <2>2, <3>1, RefreshedTimer
      <4>2. timeout[id] \in Timeout
        BY <3>1 DEF LastWithinTimeout, Within
      <4>3. UNCHANGED <<entries, timeout, valid>>
        BY <2>2 DEF Update
      <4> QED
        BY <3>1, <4>1, <4>2, <4>3, InsertedTimer
    <3>2. CASE id \notin entries
      BY <2>2, <3>2, UntouchedTimer DEF Update, LastWithinTimeout
    <3> QED
      BY <3>1, <3>2
  <2>3. ASSUME NEW id \in Id, Cancel(id)
        PROVE  LastWithinTimeout'
    <3>1. \A i \in Id : valid'[i] => valid[i]
      BY <2>3, Zenon DEF Cancel, TypeOK
    <3> QED
      BY <2>3, <3>1, UntouchedTimer DEF Cancel, LastWithinTimeout
  <2>4. CASE Expire
    BY <2>4, UntouchedTimer DEF Expire, LastWithinTimeout
  <2>5. CASE Tick
    BY <2>5, UntouchedTimer DEF Tick, LastWithinTimeout
  <2>6. CASE Increment
    BY <2>6, TickedTimer DEF LastWithinTimeout
  <2>7. CASE UNCHANGED vars
    BY <2>7, UntouchedTimer DEF vars, LastWithinTimeout
  <2> QED
    BY <2>1, <2>2, <2>3, <2>4, <2>5, <2>6, <2>7 DEF Next
<1> QED
  BY <1>1, <1>2, TypeCorrect, EntriesCorrect, PTL DEF Spec, Safety

-----------------------------------------------------------------------------
(* The ring of slots implements the independent countdowns: whatever the   *)
(* capacity, the timeouts and the lateness of the loop, a timer fires      *)
(* exactly `timeout' increments after its last refresh.                    *)
THEOREM WheelIsTimers == Spec => CountsDown
<1>1. Init => T!Init
  <2> SUFFICES ASSUME Init
               PROVE  T!Init
    OBVIOUS
  <2>1. \A id \in Id : Left(id) = 0
    BY DEF Init, SlotsOf, Left
  <2> QED
    BY <2>1 DEF Init, T!Init
<1>2. TypeOK /\ TypeOK' /\ EntriesAreAlive /\ LastWithinTimeout /\ [Next]_vars
      => [T!Next]_T!vars
  <2> SUFFICES ASSUME TypeOK, TypeOK', EntriesAreAlive, LastWithinTimeout, [Next]_vars
               PROVE  T!Next \/ UNCHANGED T!vars
    BY DEF T!vars
  <2> DEFINE left == [id \in Id |-> Left(id)]
  <2>0. \A i \in Id : LeftIsToLast /\ Within(i)
    BY LeftIs DEF LastWithinTimeout
  <2>1. ASSUME NEW id \in Id, NEW t \in Timeout, Add(id, t)
        PROVE  T!Next
    <3>1. CASE id \in entries
      <4>1. \A i \in Id : Left(i)' = Left(i)
        BY <2>0, <2>1, <3>1, UntouchedTimer DEF Add
      <4>2. left' = left
        BY <4>1
      <4>3. T!Idle
        BY <2>1, <3>1, <4>2 DEF Add, T!Idle
      <4> QED
        BY <4>3 DEF T!Next
    <3>2. CASE id \notin entries
      <4>1. SlotsOf(id) = {} /\ Left(id) = 0
        BY <2>0, <3>2 DEF EntriesAreAlive, TypeOK, LeftIsToLast
      <4>2. /\ Insert(id, t) /\ tick' = tick /\ entries' = entries \cup {id}
            /\ timeout' = [timeout EXCEPT ![id] = t]
            /\ valid' = [valid EXCEPT ![id] = TRUE]
            /\ fired' = {}
        BY <2>1, <3>2 DEF Add
      <4>3. Left(id)' = t /\ \A i \in Id \ {id} : Left(i)' = Left(i)
        BY <4>1, <4>2, InsertedTimer DEF TypeOK
      <4>4. left' = [left EXCEPT ![id] = t]
        BY <4>3
      <4>5. T!Add(id, t)
        BY <4>1, <4>2, <4>4 DEF T!Add
      <4> QED
        BY <4>5 DEF T!Next
    <3> QED
      BY <3>1, <3>2
  <2>2. ASSUME NEW id \in Id, Update(id)
        PROVE  T!Next
    <3>0. fired' = {} /\ UNCHANGED <<entries, timeout, valid>>
      BY <2>2 DEF Update
    <3>1. CASE id \in entries
      <4>1. /\ timeout[id] \in 1 .. Capacity
            /\ Insert(id, timeout[id]) /\ tick' = tick
            /\ \A u \in SlotsOf(id) : TicksTo(u) <= timeout[id]
        BY <2>2, <3>1, RefreshedTimer
      <4>2. timeout[id] \in Timeout
        BY <2>0, <3>1 DEF Within
      <4>3. Left(id)' = timeout[id] /\ \A i \in Id \ {id} : Left(i)' = Left(i)
        BY <3>0, <3>1, <4>1, <4>2, InsertedTimer
      <4>4. left' = [left EXCEPT ![id] = timeout[id]]
        BY <4>3
      <4>5. Left(id) > 0
        BY <2>0, <3>1, TicksToIsInt DEF TypeOK, LeftIsToLast, Within
      <4>6. T!Refresh(id)
        BY <3>0, <4>4, <4>5 DEF T!Refresh
      <4> QED
        BY <4>6 DEF T!Next
    <3>2. CASE id \notin entries
      <4>1. \A i \in Id : Left(i)' = Left(i)
        BY <2>0, <2>2, <3>2, UntouchedTimer DEF Update
      <4>2. left' = left
        BY <4>1
      <4>3. T!Idle
        BY <3>0, <4>2 DEF T!Idle
      <4> QED
        BY <4>3 DEF T!Next
    <3> QED
      BY <3>1, <3>2
  <2>3. ASSUME NEW id \in Id, Cancel(id)
        PROVE  T!Next
    <3>0. /\ fired' = {} /\ UNCHANGED timeout
          /\ valid' = [valid EXCEPT ![id] = FALSE]
      BY <2>3 DEF Cancel
    <3>1. left' = left
      BY <2>3 DEF Cancel, Left, SlotsOf, TicksTo
    <3>2. CASE id \in entries
      <4>1. Left(id) > 0
        BY <2>0, <3>2, TicksToIsInt DEF TypeOK, LeftIsToLast, Within
      <4>2. T!Cancel(id)
        BY <3>0, <3>1, <4>1 DEF T!Cancel
      <4> QED
        BY <4>2 DEF T!Next
    <3>3. CASE id \notin entries
      <4>1. valid[id] = FALSE
        BY <2>0, <3>3, Zenon DEF TypeOK, Within
      <4>2. valid' = valid
        BY <3>0, <4>1 DEF TypeOK
      <4>3. T!Idle
        BY <3>0, <3>1, <4>2 DEF T!Idle
      <4> QED
        BY <4>3 DEF T!Next
    <3> QED
      BY <3>2, <3>3
  <2>4. CASE Expire \/ Tick
    <3>1. left' = left
      BY <2>4 DEF Expire, Tick, Left, SlotsOf, TicksTo
    <3>2. T!Idle
      BY <2>4, <3>1 DEF Expire, Tick, T!Idle
    <3> QED
      BY <3>2 DEF T!Next
  <2>5. CASE Increment
    <3>1. \A id \in Id :
              /\ Left(id) \in Nat
              /\ Left(id)' = IF Left(id) = 0 THEN 0 ELSE Left(id) - 1
              /\ id \in fired' <=> Left(id) = 1 /\ valid[id]
              /\ timeout'[id] = IF Left(id) <= 1 THEN 0 ELSE timeout[id]
              /\ valid'[id] <=> Left(id) > 1 /\ valid[id]
      BY <2>5, TickedTimer
    <3>2. left' = [id \in Id |-> IF left[id] = 0 THEN 0 ELSE left[id] - 1]
      BY <3>1
    <3>3. fired' = {id \in Id : left[id] = 1 /\ valid[id]}
      BY <3>1 DEF TypeOK
    <3>4. timeout' = [id \in Id |-> IF left[id] <= 1 THEN 0 ELSE timeout[id]]
      BY <3>1 DEF TypeOK
    <3>5. valid' = [id \in Id |-> left[id] > 1 /\ valid[id]]
      <4>1. \A id \in Id : valid'[id] = (left[id] > 1 /\ valid[id])
        BY <3>1 DEF TypeOK
      <4> HIDE DEF left
      <4> QED
        BY <4>1, Zenon DEF TypeOK
    <3>6. T!Elapse
      BY <3>2, <3>3, <3>4, <3>5, Zenon DEF T!Elapse
    <3> QED
      BY <3>6 DEF T!Next
  <2>6. CASE UNCHANGED vars
    BY <2>6 DEF vars, T!vars, Left, SlotsOf, TicksTo
  <2> QED
    BY <2>1, <2>2, <2>3, <2>4, <2>5, <2>6 DEF Next
<1> QED
  BY <1>1, <1>2, TypeCorrect, EntriesCorrect, LastCorrect, PTL
     DEF Spec, Safety, CountsDown, T!Safety
=============================================================================
