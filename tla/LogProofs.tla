----------------------------- MODULE LogProofs ------------------------------
(***************************************************************************)
(* For any number of threads, messages and sinks: as long as no sink was   *)
(* destroyed in use, every line is whole; and each thread's messages are   *)
(* in order.                                                               *)
(***************************************************************************)
EXTENDS Log, TLAPS

(* All who are writing write to the current sink ... *)
OneSink == /\ kind[log] \in Place
           /\ Running => \A t \in Thread : Writing(t) => to[t] = log

Holds(t) == pc[t] \in {"open", "text", "newline", "unlock"}

(* ... of which one at a time holds the mutex.                             *)
OneHolder == Running => \A t \in Thread : Holds(t) => mutex[log] = t

(* A line without its newline is the last, and that of the thread which is *)
(* about to write it.                                                      *)
Half(p) == Len(out[p]) % 2 = 1

HalfIsMine ==
    \A p \in Place :
        /\ Half(p) => \E t \in Thread : pc[t] = "newline" /\ place[t] = p
        /\ \A t \in Thread : pc[t] = "newline" /\ place[t] = p =>
              /\ Half(p)
              /\ out[p][Len(out[p])].by = t
              /\ out[p][Len(out[p])].number = number[t]

LogInv == TypeOK /\ OneSink /\ OneHolder /\ HalfIsMine /\ LinesAreWhole

-----------------------------------------------------------------------------
LEMMA InitInv == Init => LogInv
<1> SUFFICES ASSUME Init
             PROVE  LogInv
  OBVIOUS
<1> USE BoundAssumption DEF Init, Sink, Place
<1>1. TypeOK
  <2>1. lost \in [Thread -> BOOLEAN] /\ fault \in BOOLEAN
    OBVIOUS
  <2>2. /\ pc \in [Thread -> {"idle", "made", "lock", "open", "text", "newline", "unlock"}]
        /\ place \in [Thread -> Place]
        /\ kind \in [Sink -> Place \cup {"none", "freed"}]
        /\ mutex \in [Sink -> Thread \cup {Free}]
    OBVIOUS
  <2>3. /\ number \in [Thread -> 0..MaxMessages]
        /\ to \in [Thread -> Sink]
        /\ log \in Sink
        /\ out \in [Place -> Seq(Pieces)]
    OBVIOUS
  <2> QED
    BY <2>1, <2>2, <2>3 DEF TypeOK
<1>2. OneSink /\ OneHolder
  BY DEF OneSink, OneHolder, Holds, Writing
<1>3. HalfIsMine /\ LinesAreWhole
  <2>1. \A p \in Place : out[p] = <<>> /\ Len(out[p]) = 0 /\ DOMAIN out[p] = {}
    OBVIOUS
  <2> QED
    BY <2>1 DEF HalfIsMine, Half, LinesAreWhole
<1> QED
  BY <1>1, <1>2, <1>3 DEF LogInv

(* Two threads do not hold the mutex of the current sink. *)
LEMMA Exclusion ==
  ASSUME LogInv, Running, NEW t \in Thread, NEW u \in Thread, Holds(t), Holds(u)
  PROVE  t = u
  BY DEF LogInv, OneHolder

(* Even and odd. *)
LEMMA Parity ==
  ASSUME NEW n \in Nat
  PROVE  /\ n % 2 \in {0, 1}
         /\ n % 2 = 0 <=> (n + 1) % 2 = 1
         /\ n % 2 = 1 <=> (n + 1) % 2 = 0
         /\ n % 2 = 1 => n >= 1
<1>1. n % 2 \in {0, 1} /\ (n + 1) % 2 \in {0, 1}
  OBVIOUS
<1>2. n % 2 = 0 => (n + 1) % 2 = 1
  OBVIOUS
<1>3. n % 2 = 1 => (n + 1) % 2 = 0
  OBVIOUS
<1>4. n = 0 => n % 2 = 0
  OBVIOUS
<1> QED
  BY <1>1, <1>2, <1>3, <1>4

(* What Append does to a sequence of pieces. *)
LEMMA AppendPiece ==
  ASSUME NEW s \in Seq(Pieces), NEW x \in Pieces
  PROVE  /\ Append(s, x) \in Seq(Pieces)
         /\ Len(Append(s, x)) = Len(s) + 1
         /\ Append(s, x)[Len(s) + 1] = x
         /\ \A k \in 1..Len(s) : Append(s, x)[k] = s[k]
         /\ Len(s) \in Nat
  OBVIOUS

-----------------------------------------------------------------------------
(* Steps that write nothing, and disturb nobody who writes. *)
LEMMA SilentKeepsLines ==
  ASSUME LogInv, out' = out,
         \A t \in Thread : /\ pc[t] = "newline" <=> pc'[t] = "newline"
                           /\ pc[t] = "newline" => place'[t] = place[t]
                           /\ pc[t] = "newline" => number'[t] = number[t]
  PROVE  HalfIsMine' /\ LinesAreWhole'
<1>1. LinesAreWhole'
  BY DEF LogInv, LinesAreWhole
<1>2. ASSUME NEW p \in Place, Half(p)'
      PROVE  \E t \in Thread : pc'[t] = "newline" /\ place'[t] = p
  <2>1. Half(p)
    BY <1>2 DEF Half
  <2>2. PICK t \in Thread : pc[t] = "newline" /\ place[t] = p
    BY <2>1 DEF LogInv, HalfIsMine
  <2> QED
    BY <2>2
<1>3. ASSUME NEW p \in Place, NEW t \in Thread, pc'[t] = "newline", place'[t] = p
      PROVE  /\ Half(p)'
             /\ out'[p][Len(out'[p])].by = t
             /\ out'[p][Len(out'[p])].number = number'[t]
  <2>1. pc[t] = "newline" /\ place[t] = p /\ number'[t] = number[t]
    BY <1>3
  <2>2. /\ Half(p)
        /\ out[p][Len(out[p])].by = t
        /\ out[p][Len(out[p])].number = number[t]
    BY <2>1 DEF LogInv, HalfIsMine
  <2> QED
    BY <2>1, <2>2 DEF Half
<1> QED
  BY <1>1, <1>2, <1>3 DEF HalfIsMine

LEMMA BeginKeeps ==
  ASSUME LogInv, NEW t \in Thread, Begin(t)
  PROVE  LogInv'
<1> USE DEF LogInv, Running, Begin, Goes
<1>1. TypeOK'
  BY BoundAssumption DEF TypeOK
<1>2. \A u \in Thread : pc'[u] = IF u = t THEN "made" ELSE pc[u]
  BY DEF TypeOK
<1>3. OneSink' /\ OneHolder'
  BY <1>2 DEF OneSink, OneHolder, Writing, Holds
<1>4. \A u \in Thread : u # t => number'[u] = number[u]
  BY DEF TypeOK
<1> QED
  BY <1>1, <1>2, <1>3, <1>4, SilentKeepsLines

LEMMA EndKeeps ==
  ASSUME LogInv, NEW t \in Thread, End(t)
  PROVE  LogInv'
<1> USE DEF LogInv, Running, End, Goes
<1>1. TypeOK'
  BY DEF TypeOK
<1>2. \A u \in Thread : /\ pc'[u] = IF u = t THEN "lock" ELSE pc[u]
                        /\ to'[u] = IF u = t THEN log ELSE to[u]
  BY DEF TypeOK
<1>3. OneSink' /\ OneHolder'
  BY <1>2 DEF OneSink, OneHolder, Writing, Holds
<1> QED
  BY <1>1, <1>2, <1>3, SilentKeepsLines

LEMMA LockKeeps ==
  ASSUME LogInv, NEW t \in Thread, Lock(t)
  PROVE  LogInv'
<1> USE DEF LogInv, Running, Lock, Goes
<1>1. TypeOK'
  BY DEF TypeOK
<1>2. \A u \in Thread : pc'[u] = IF u = t THEN "open" ELSE pc[u]
  BY DEF TypeOK
<1>3. OneSink'
  BY <1>2 DEF OneSink, Writing
<1>4. to[t] = log /\ mutex[log] = Free /\ mutex'[log] = t
  BY DEF OneSink, Writing, TypeOK
<1>5. \A u \in Thread : ~Holds(u)
  BY <1>4, ThreadAssumption DEF OneHolder
<1>6. OneHolder'
  BY <1>2, <1>4, <1>5 DEF OneHolder, Holds
<1> QED
  BY <1>1, <1>2, <1>3, <1>6, SilentKeepsLines

LEMMA OpenKeeps ==
  ASSUME LogInv, NEW t \in Thread, Open(t)
  PROVE  LogInv'
<1> USE DEF LogInv, Running, Open, Goes
<1>1. to[t] = log /\ kind[to[t]] \in Place
  BY DEF OneSink, Writing
<1>2. TypeOK'
  <2>1. PICK opened \in BOOLEAN :
          /\ lost' = [lost EXCEPT ![t] = ~opened]
          /\ place' = [place EXCEPT ![t] = IF opened THEN kind[to[t]] ELSE "console"]
    OBVIOUS
  <2> QED
    BY <1>1, <2>1 DEF TypeOK, Place
<1>3. \A u \in Thread : /\ pc'[u] = IF u = t THEN "text" ELSE pc[u]
                        /\ u # t => place'[u] = place[u]
  BY DEF TypeOK
<1>4. OneSink' /\ OneHolder'
  BY <1>3 DEF OneSink, OneHolder, Writing, Holds
<1> QED
  BY <1>2, <1>3, <1>4, SilentKeepsLines

LEMMA UnlockKeeps ==
  ASSUME LogInv, NEW t \in Thread, Unlock(t)
  PROVE  LogInv'
<1> USE DEF LogInv, Running, Unlock, Goes
<1>1. TypeOK'
  BY DEF TypeOK
<1>2. \A u \in Thread : pc'[u] = IF u = t THEN "idle" ELSE pc[u]
  BY DEF TypeOK
<1>3. OneSink'
  BY <1>2 DEF OneSink, Writing
<1>4. \A u \in Thread : Holds(u) => u = t
  BY Exclusion DEF Holds
<1>5. OneHolder'
  BY <1>2, <1>4 DEF OneHolder, Holds
<1> QED
  BY <1>1, <1>2, <1>3, <1>5, SilentKeepsLines

LEMMA SwitchKeeps ==
  ASSUME LogInv, NEW p \in Place, Switch(p)
  PROVE  LogInv'
<1> USE DEF LogInv, Running, Switch
<1>1. log + 1 \in Sink /\ log' = log + 1
  BY BoundAssumption DEF TypeOK, Sink
<1>2. TypeOK'
  BY <1>1 DEF TypeOK, Place
<1>3. kind'[log'] = p
  BY <1>1 DEF TypeOK, Sink
<1>4. OneSink' /\ OneHolder'
  BY <1>3 DEF OneSink, OneHolder, Writing, Holds
<1> QED
  BY <1>2, <1>4, SilentKeepsLines

-----------------------------------------------------------------------------
(* A piece is appended in one place by the only thread that is past its    *)
(* lock; what the thread does next tells whether the line is whole.        *)
LEMMA WritesOne ==
  ASSUME LogInv, NEW t \in Thread, NEW what \in {"message", "error", "newline"},
         Writes(t, what)
  PROVE  /\ place[t] \in Place
         /\ out' \in [Place -> Seq(Pieces)]
         /\ \A p \in Place : p # place[t] => out'[p] = out[p]
         /\ LET s == out[place[t]]
                r == out'[place[t]]
            IN  /\ Len(s) \in Nat
                /\ Len(r) = Len(s) + 1
                /\ r[Len(s) + 1] = Piece(t, number[t], what)
                /\ \A k \in 1..Len(s) : r[k] = s[k]
<1>1. place[t] \in Place /\ out \in [Place -> Seq(Pieces)]
  BY DEF LogInv, TypeOK
<1>2. Piece(t, number[t], what) \in Pieces
  BY DEF LogInv, TypeOK, Piece, Pieces
<1>3. out[place[t]] \in Seq(Pieces)
  BY <1>1
<1>4. /\ out'[place[t]] = Append(out[place[t]], Piece(t, number[t], what))
      /\ \A p \in Place : p # place[t] => out'[p] = out[p]
  BY <1>1 DEF Writes
<1>5. out' \in [Place -> Seq(Pieces)]
  BY <1>1, <1>2, <1>3, AppendPiece DEF Writes
<1> QED
  BY <1>1, <1>2, <1>3, <1>4, <1>5, AppendPiece

(* The lines stay whole when what is appended is an odd piece that is no   *)
(* newline, or an even one that is the newline of the piece before.        *)
LEMMA LinesExtend ==
  ASSUME LogInv, NEW p \in Place, NEW n \in Nat, n = Len(out[p]),
         out' \in [Place -> Seq(Pieces)],
         \A q \in Place : q # p => out'[q] = out[q],
         Len(out'[p]) = n + 1,
         \A k \in 1..n : out'[p][k] = out[p][k],
         IF (n + 1) % 2 = 1 THEN out'[p][n + 1].what # "newline"
         ELSE /\ out'[p][n + 1].what = "newline"
              /\ out'[p][n + 1].by = out[p][n].by
              /\ out'[p][n + 1].number = out[p][n].number
  PROVE  LinesAreWhole'
<1>1. DOMAIN out[p] = 1..n /\ DOMAIN out'[p] = 1..(n + 1)
  <2>1. out[p] \in Seq(Pieces) /\ out'[p] \in Seq(Pieces)
    BY DEF LogInv, TypeOK
  <2> QED
    BY <2>1
<1>2. n # 0 \/ (n + 1) % 2 = 1
  <2>1. n = 0 => n % 2 = 0
    OBVIOUS
  <2> QED
    BY <2>1, Parity
<1>3. ASSUME NEW q \in Place, NEW k \in DOMAIN out'[q]
      PROVE  IF k % 2 = 1 THEN out'[q][k].what # "newline"
             ELSE /\ out'[q][k].what = "newline"
                  /\ out'[q][k].by = out'[q][k - 1].by
                  /\ out'[q][k].number = out'[q][k - 1].number
  <2>1. CASE q # p
    BY <2>1, <1>3 DEF LogInv, LinesAreWhole
  <2>2. CASE q = p /\ k = n + 1
    <3>1. k - 1 = n /\ (n \in 1..n \/ n = 0)
      BY <2>2
    <3> QED
      BY <1>2, <2>2, <3>1
  <2>3. CASE q = p /\ k # n + 1
    <3>1. k \in 1..n
      BY <1>1, <1>3, <2>3
    <3>2. k % 2 = 1 \/ k - 1 \in 1..n
      <4>1. k = 1 => k % 2 = 1
        OBVIOUS
      <4> QED
        BY <3>1, <4>1
    <3>3. IF k % 2 = 1 THEN out[p][k].what # "newline"
          ELSE /\ out[p][k].what = "newline"
               /\ out[p][k].by = out[p][k - 1].by
               /\ out[p][k].number = out[p][k - 1].number
      BY <1>1, <3>1 DEF LogInv, LinesAreWhole
    <3> QED
      BY <2>3, <3>1, <3>2, <3>3
  <2> QED
    BY <2>1, <2>2, <2>3
<1> QED
  BY <1>3 DEF LinesAreWhole

LEMMA TextKeeps ==
  ASSUME LogInv, NEW t \in Thread, Text(t)
  PROVE  LogInv'
<1>0. PICK p \in Place, n \in Nat : p = place[t] /\ n = Len(out[p])
  BY DEF LogInv, TypeOK
<1>1. PICK what \in {"message", "error"} : Writes(t, what)
  BY DEF Text
<1>2. /\ p \in Place /\ n \in Nat
      /\ out' \in [Place -> Seq(Pieces)]
      /\ \A q \in Place : q # p => out'[q] = out[q]
      /\ Len(out'[p]) = n + 1
      /\ out'[p][n + 1] = Piece(t, number[t], what)
      /\ \A k \in 1..n : out'[p][k] = out[p][k]
  BY <1>0, <1>1, WritesOne
<1>3. /\ pc[t] = "text"
      /\ \A u \in Thread : pc'[u] = IF u = t THEN "newline" ELSE pc[u]
      /\ place' = place /\ number' = number /\ Running
  BY DEF Text, Goes, LogInv, TypeOK
<1>4. TypeOK'
  BY <1>2 DEF LogInv, TypeOK, Text, Goes
<1>5. OneSink' /\ OneHolder'
  BY <1>3 DEF LogInv, OneSink, OneHolder, Writing, Holds, Text, Goes, Running
<1>6. \A u \in Thread : u # t => pc[u] # "newline"
  BY <1>3, Exclusion DEF Holds
<1>7. \A q \in Place : ~Half(q)
  BY <1>3, <1>6 DEF LogInv, HalfIsMine
<1>8. n % 2 = 0 /\ (n + 1) % 2 = 1
  BY <1>0, <1>2, <1>7, Parity DEF Half
<1>9. HalfIsMine'
  <2>1. Half(p)' /\ \A q \in Place : q # p => ~Half(q)'
    BY <1>0, <1>2, <1>7, <1>8 DEF Half
  <2>2. \A u \in Thread : pc'[u] = "newline" => u = t
    BY <1>3, <1>6
  <2>3. out'[p][Len(out'[p])].by = t /\ out'[p][Len(out'[p])].number = number'[t]
    BY <1>2, <1>3 DEF Piece
  <2> QED
    BY <1>0, <1>2, <1>3, <2>1, <2>2, <2>3 DEF HalfIsMine
<1>10. LinesAreWhole'
  <2>1. out'[p][n + 1].what # "newline"
    BY <1>2 DEF Piece
  <2> QED
    <3>1. IF (n + 1) % 2 = 1 THEN out'[p][n + 1].what # "newline"
          ELSE /\ out'[p][n + 1].what = "newline"
               /\ out'[p][n + 1].by = out[p][n].by
               /\ out'[p][n + 1].number = out[p][n].number
      BY <1>8, <2>1
    <3> QED
      BY <1>0, <1>2, <3>1, LinesExtend
<1> QED
  BY <1>4, <1>5, <1>9, <1>10 DEF LogInv

LEMMA NewlineKeeps ==
  ASSUME LogInv, NEW t \in Thread, Newline(t)
  PROVE  LogInv'
<1>0. PICK p \in Place, n \in Nat : p = place[t] /\ n = Len(out[p])
  BY DEF LogInv, TypeOK
<1>1. Writes(t, "newline")
  BY DEF Newline
<1>2. /\ p \in Place /\ n \in Nat
      /\ out' \in [Place -> Seq(Pieces)]
      /\ \A q \in Place : q # p => out'[q] = out[q]
      /\ Len(out'[p]) = n + 1
      /\ out'[p][n + 1] = Piece(t, number[t], "newline")
      /\ \A k \in 1..n : out'[p][k] = out[p][k]
  BY <1>0, <1>1, WritesOne
<1>3. /\ pc[t] = "newline"
      /\ \A u \in Thread : pc'[u] = IF u = t THEN "unlock" ELSE pc[u]
      /\ place' = place /\ number' = number /\ Running
  BY DEF Newline, Goes, LogInv, TypeOK
<1>4. TypeOK'
  BY <1>2 DEF LogInv, TypeOK, Newline, Goes
<1>5. OneSink' /\ OneHolder'
  BY <1>3 DEF LogInv, OneSink, OneHolder, Writing, Holds, Newline, Goes, Running
<1>6. \A u \in Thread : u # t => pc[u] # "newline"
  BY <1>3, Exclusion DEF Holds
<1>7. /\ Half(p)
      /\ out[p][n].by = t
      /\ out[p][n].number = number[t]
      /\ \A q \in Place : q # p => ~Half(q)
  BY <1>0, <1>2, <1>3, <1>6 DEF LogInv, HalfIsMine
<1>8. n % 2 = 1 /\ (n + 1) % 2 = 0 /\ n \in 1..n
  <2>1. n % 2 = 1
    BY <1>0, <1>7 DEF Half
  <2>2. (n + 1) % 2 = 0 /\ n >= 1
    BY <2>1, Parity
  <2> QED
    BY <2>1, <2>2
<1>9. HalfIsMine'
  <2>1. \A q \in Place : ~Half(q)'
    <3>1. ASSUME NEW q \in Place
          PROVE  ~Half(q)'
      <4>1. CASE q = p
        BY <1>2, <1>8, <4>1 DEF Half
      <4>2. CASE q # p
        BY <1>2, <1>7, <4>2 DEF Half
      <4> QED
        BY <4>1, <4>2
    <3> QED
      BY <3>1
  <2>2. \A u \in Thread : pc'[u] # "newline"
    BY <1>3, <1>6
  <2> QED
    BY <2>1, <2>2 DEF HalfIsMine
<1>10. LinesAreWhole'
  <2>1. /\ out'[p][n + 1].what = "newline"
        /\ out'[p][n + 1].by = out[p][n].by
        /\ out'[p][n + 1].number = out[p][n].number
    BY <1>2, <1>7 DEF Piece
  <2> QED
    <3>1. IF (n + 1) % 2 = 1 THEN out'[p][n + 1].what # "newline"
          ELSE /\ out'[p][n + 1].what = "newline"
               /\ out'[p][n + 1].by = out[p][n].by
               /\ out'[p][n + 1].number = out[p][n].number
      BY <1>8, <2>1
    <3> QED
      BY <1>0, <1>2, <3>1, LinesExtend
<1> QED
  BY <1>4, <1>5, <1>9, <1>10 DEF LogInv

-----------------------------------------------------------------------------
LEMMA NextInv == LogInv /\ [Next]_vars => LogInv'
<1> SUFFICES ASSUME LogInv, [Next]_vars
             PROVE  LogInv'
  OBVIOUS
<1>1. CASE UNCHANGED vars
  BY <1>1 DEF vars, LogInv, TypeOK, OneSink, Writing, OneHolder, Holds, HalfIsMine, Half,
              LinesAreWhole, Running
<1>2. ASSUME NEW t \in Thread, Begin(t) \/ Log(t)
      PROVE  LogInv'
  BY <1>2, BeginKeeps, EndKeeps, LockKeeps, OpenKeeps, TextKeeps, NewlineKeeps, UnlockKeeps
     DEF Log
<1>3. ASSUME NEW p \in Place, Switch(p)
      PROVE  LogInv'
  BY <1>3, SwitchKeeps
<1> QED
  BY <1>1, <1>2, <1>3 DEF Next

(* The mutex of the sink keeps the lines of all threads apart              *)
(* (log.hpp:41-45, 71-83).                                                 *)
THEOREM LinesCorrect == Spec => [](TypeOK /\ LinesAreWhole)
<1>1. LogInv => TypeOK /\ LinesAreWhole
  BY DEF LogInv
<1> QED
  BY InitInv, NextInv, <1>1, PTL DEF Spec

-----------------------------------------------------------------------------
(* What is written of a thread's statements has the number of one that was *)
(* begun; and while its current message is not written, of an earlier one. *)
Unwritten(t) == pc[t] \in {"made", "lock", "open", "text"}

EarlierWritten ==
    \A t \in Thread, p \in Place : \A k \in DOMAIN out[p] : out[p][k].by = t =>
        /\ out[p][k].number <= number[t]
        /\ out[p][k].what # "newline" /\ Unwritten(t) => out[p][k].number < number[t]

OrderInv == OwnOrder /\ EarlierWritten

(* A piece that was written is a piece. *)
LEMMA WrittenIsPiece ==
  ASSUME TypeOK, NEW p \in Place, NEW k \in DOMAIN out[p]
  PROVE  out[p][k] \in Pieces /\ out[p][k].by \in Thread /\ out[p][k].number \in Nat
<1>1. out[p] \in Seq(Pieces)
  BY DEF TypeOK
<1>2. out[p][k] \in Pieces
  BY <1>1
<1> QED
  BY <1>2, BoundAssumption DEF Pieces

(* Steps that write nothing and after which nobody has a message unwritten *)
(* that had none, except for a new one.                                    *)
LEMMA SilentKeepsOrder ==
  ASSUME LogInv, OrderInv, out' = out,
         \A t \in Thread :
            /\ number'[t] \in Nat /\ number[t] \in Nat /\ number'[t] >= number[t]
            /\ Unwritten(t)' => Unwritten(t) \/ number'[t] > number[t]
  PROVE  OrderInv'
<1>1. OwnOrder'
  BY DEF OrderInv, OwnOrder
<1>2. ASSUME NEW t \in Thread, NEW p \in Place, NEW k \in DOMAIN out[p], out[p][k].by = t
      PROVE  /\ out[p][k].number <= number'[t]
             /\ out[p][k].what # "newline" /\ Unwritten(t)' => out[p][k].number < number'[t]
  <2>1. out[p][k].number \in Nat
    BY <1>2, WrittenIsPiece DEF LogInv
  <2>2. /\ out[p][k].number <= number[t]
        /\ out[p][k].what # "newline" /\ Unwritten(t) => out[p][k].number < number[t]
    BY <1>2 DEF OrderInv, EarlierWritten
  <2> QED
    BY <2>1, <2>2
<1>3. EarlierWritten'
  BY <1>2 DEF EarlierWritten
<1> QED
  BY <1>1, <1>3 DEF OrderInv

LEMMA WritingKeepsOrder ==
  ASSUME LogInv, OrderInv, NEW t \in Thread, NEW what \in {"message", "error", "newline"},
         Writes(t, what), UNCHANGED number,
         what # "newline" => Unwritten(t),
         \A u \in Thread : Unwritten(u)' => Unwritten(u) /\ u # t
  PROVE  OrderInv'
<1>0. PICK p \in Place, n \in Nat : p = place[t] /\ n = Len(out[p])
  BY DEF LogInv, TypeOK
<1>1. /\ out' \in [Place -> Seq(Pieces)]
      /\ \A q \in Place : q # p => out'[q] = out[q]
      /\ Len(out'[p]) = n + 1
      /\ out'[p][n + 1] = Piece(t, number[t], what)
      /\ \A k \in 1..n : out'[p][k] = out[p][k]
  BY <1>0, WritesOne
<1>2. DOMAIN out[p] = 1..n /\ DOMAIN out'[p] = 1..(n + 1)
  <2>1. out[p] \in Seq(Pieces) /\ out'[p] \in Seq(Pieces)
    BY <1>1 DEF LogInv, TypeOK
  <2> QED
    BY <1>0, <1>1, <2>1
<1>3. /\ out'[p][n + 1].by = t
      /\ out'[p][n + 1].number = number[t]
      /\ out'[p][n + 1].what = what
      /\ number[t] \in Nat
  BY <1>1, BoundAssumption DEF Piece, LogInv, TypeOK
<1>4. \A q \in Place : \A k \in DOMAIN out'[q] :
        (q = p /\ k = n + 1) \/ (k \in DOMAIN out[q] /\ out'[q][k] = out[q][k])
  <2> SUFFICES ASSUME NEW q \in Place, NEW k \in DOMAIN out'[q], ~(q = p /\ k = n + 1)
               PROVE  k \in DOMAIN out[q] /\ out'[q][k] = out[q][k]
    OBVIOUS
  <2>1. CASE q # p
    BY <2>1, <1>1
  <2>2. CASE q = p
    <3>1. k \in 1..n
      BY <2>2, <1>2
    <3> QED
      BY <2>2, <3>1, <1>1, <1>2
  <2> QED
    BY <2>1, <2>2
<1>5. EarlierWritten'
  <2> SUFFICES ASSUME NEW u \in Thread, NEW q \in Place, NEW k \in DOMAIN out'[q],
                      out'[q][k].by = u
               PROVE  /\ out'[q][k].number <= number'[u]
                      /\ out'[q][k].what # "newline" /\ Unwritten(u)' =>
                            out'[q][k].number < number'[u]
    BY DEF EarlierWritten
  <2>1. CASE q = p /\ k = n + 1
    BY <2>1, <1>3
  <2>2. CASE k \in DOMAIN out[q] /\ out'[q][k] = out[q][k]
    BY <2>2 DEF OrderInv, EarlierWritten
  <2> QED
    BY <1>4, <2>1, <2>2
<1>6. OwnOrder'
  <2> SUFFICES ASSUME NEW q \in Place, NEW j \in DOMAIN out'[q], NEW k \in DOMAIN out'[q],
                      j < k, out'[q][j].by = out'[q][k].by,
                      out'[q][j].what # "newline", out'[q][k].what # "newline"
               PROVE  out'[q][j].number < out'[q][k].number
    BY DEF OwnOrder
  <2>1. CASE q = p /\ k = n + 1
    <3>1. j \in DOMAIN out[q] /\ out'[q][j] = out[q][j]
      <4>1. j # n + 1
        BY <2>1, <1>2
      <4> QED
        BY <4>1, <1>4
    <3>2. Unwritten(t) /\ out[q][j].by = t
      BY <2>1, <3>1, <1>3
    <3> QED
      BY <2>1, <3>1, <3>2, <1>3 DEF OrderInv, EarlierWritten
  <2>2. CASE ~(q = p /\ k = n + 1)
    <3>1. k \in DOMAIN out[q] /\ out'[q][k] = out[q][k]
      BY <2>2, <1>4
    <3>2. j \in DOMAIN out[q] /\ out'[q][j] = out[q][j]
      <4>1. ~(q = p /\ j = n + 1)
        BY <2>2, <1>2
      <4> QED
        BY <4>1, <1>4
    <3> QED
      BY <3>1, <3>2 DEF OrderInv, OwnOrder
  <2> QED
    BY <2>1, <2>2
<1> QED
  BY <1>5, <1>6 DEF OrderInv

LEMMA InitOrder == Init => OrderInv
<1> SUFFICES ASSUME Init
             PROVE  OrderInv
  OBVIOUS
<1>1. \A p \in Place : DOMAIN out[p] = {}
  BY DEF Init
<1> QED
  BY <1>1 DEF OrderInv, OwnOrder, EarlierWritten

LEMMA NextOrder == LogInv /\ OrderInv /\ [Next]_vars => OrderInv'
<1> SUFFICES ASSUME LogInv, OrderInv, [Next]_vars
             PROVE  OrderInv'
  OBVIOUS
<1>0. \A u \in Thread : number[u] \in Nat
  BY BoundAssumption DEF LogInv, TypeOK
<1>1. CASE UNCHANGED vars
  BY <1>0, <1>1, SilentKeepsOrder DEF vars, Unwritten
<1>2. ASSUME NEW t \in Thread, Begin(t)
      PROVE  OrderInv'
  <2>1. \A u \in Thread :
          /\ number'[u] = IF u = t THEN number[t] + 1 ELSE number[u]
          /\ pc'[u] = IF u = t THEN "made" ELSE pc[u]
    BY <1>2 DEF Begin, Goes, LogInv, TypeOK
  <2>2. out' = out
    BY <1>2 DEF Begin
  <2>3. \A u \in Thread :
          /\ number'[u] \in Nat /\ number'[u] >= number[u]
          /\ u = t => number'[u] > number[u]
    BY <2>1, <1>0
  <2>4. \A u \in Thread : Unwritten(u)' => Unwritten(u) \/ u = t
    BY <2>1 DEF Unwritten
  <2> QED
    BY <2>2, <2>3, <2>4, <1>0, SilentKeepsOrder
<1>3. ASSUME NEW t \in Thread, End(t) \/ Lock(t) \/ Open(t) \/ Unlock(t)
      PROVE  OrderInv'
  <2>1. out' = out /\ number' = number
    BY <1>3 DEF End, Lock, Open, Unlock
  <2>2. \A u \in Thread : Unwritten(u)' => Unwritten(u)
    BY <1>3 DEF End, Lock, Open, Unlock, Goes, Unwritten, LogInv, TypeOK
  <2> QED
    BY <2>1, <2>2, <1>0, SilentKeepsOrder
<1>4. ASSUME NEW t \in Thread, Text(t)
      PROVE  OrderInv'
  <2>1. PICK what \in {"message", "error"} : Writes(t, what)
    BY <1>4 DEF Text
  <2>2. UNCHANGED number /\ Unwritten(t)
    BY <1>4 DEF Text, Goes, Unwritten
  <2>3. \A u \in Thread : Unwritten(u)' => Unwritten(u) /\ u # t
    BY <1>4 DEF Text, Goes, Unwritten, LogInv, TypeOK
  <2> QED
    BY <2>1, <2>2, <2>3, WritingKeepsOrder
<1>5. ASSUME NEW t \in Thread, Newline(t)
      PROVE  OrderInv'
  <2>1. Writes(t, "newline") /\ UNCHANGED number
    BY <1>5 DEF Newline
  <2>2. \A u \in Thread : Unwritten(u)' => Unwritten(u) /\ u # t
    BY <1>5 DEF Newline, Goes, Unwritten, LogInv, TypeOK
  <2> QED
    BY <2>1, <2>2, WritingKeepsOrder
<1>6. ASSUME NEW p \in Place, Switch(p)
      PROVE  OrderInv'
  BY <1>0, <1>6, SilentKeepsOrder DEF Switch, Unwritten
<1> QED
  BY <1>1, <1>2, <1>3, <1>4, <1>5, <1>6 DEF Next, Log

(* In one place, a thread's messages are in the order in which they were   *)
(* begun, each once (log.hpp:117, 137).                                    *)
THEOREM OrderCorrect == Spec => []OwnOrder
<1>1. OrderInv => OwnOrder
  BY DEF OrderInv
<1> QED
  BY InitInv, NextInv, InitOrder, NextOrder, <1>1, PTL DEF Spec
=============================================================================
