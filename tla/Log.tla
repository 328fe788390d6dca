-------------------------------- MODULE Log ---------------------------------
(***************************************************************************)
(* The logger of source/log.hpp, with the mutex and lockGuard of           *)
(* source/mutex.hpp: a statement LOG(level) << ... builds a message and,   *)
(* when it ends, gives it to the sink the logger points to at that moment; *)
(* each sink writes under a mutex of its own, to the console or to the     *)
(* file.  The sink of a message is reached through a bare pointer, and     *)
(* to_file and to_console destroy the one there was, whoever is using it.  *)
(* What happens then is undefined, and the model stops (`fault').          *)
(*                                                                         *)
(* A line is a message and its newline, which are written one after the    *)
(* other.  Time and level are part of the message.                         *)
(***************************************************************************)
EXTENDS Integers, Sequences

CONSTANTS Thread,
          MaxMessages,   \* bound of the model: messages of each thread
          MaxSinks       \* bound of the model: sinks there have been

ASSUME BoundAssumption == MaxMessages \in Nat /\ MaxSinks \in Nat \ {0}

Sink == 1..MaxSinks

Free == <<"free">>   \* nobody's mutex

ASSUME ThreadAssumption == Free \notin Thread

VARIABLES pc,       \* where each thread is in its statement
          number,   \* how many messages it has begun
          to,       \* the sink its message was given to
          place,    \* "console" or "file": where its line is written ...
          lost,     \* ... or the file could not be opened
          log,      \* _log: the current sink
          kind,     \* what the sinks made so far write to
          mutex,    \* _lock of each sink: who holds it
          out,      \* what has been written to the console and to the file
          fault     \* a sink was destroyed in use

vars == <<pc, number, to, place, lost, log, kind, mutex, out, fault>>

Place == {"console", "file"}

(* A message, or its newline, or a complaint that the file is not open. *)
Piece(t, n, what) == [by |-> t, number |-> n, what |-> what]

Pieces == [by : Thread, number : 0..MaxMessages, what : {"message", "error", "newline"}]

TypeOK == /\ pc \in [Thread -> {"idle", "made", "lock", "open", "text", "newline", "unlock"}]
          /\ number \in [Thread -> 0..MaxMessages]
          /\ to \in [Thread -> Sink]
          /\ place \in [Thread -> Place]
          /\ lost \in [Thread -> BOOLEAN]
          /\ log \in Sink
          /\ kind \in [Sink -> Place \cup {"none", "freed"}]
          /\ mutex \in [Sink -> Thread \cup {Free}]
          /\ out \in [Place -> Seq(Pieces)]
          /\ fault \in BOOLEAN

(* logger's constructor *)
Init == /\ pc = [t \in Thread |-> "idle"]
        /\ number = [t \in Thread |-> 0]
        /\ to = [t \in Thread |-> 1]
        /\ place = [t \in Thread |-> "console"]
        /\ lost = [t \in Thread |-> FALSE]
        /\ log = 1
        /\ kind = [s \in Sink |-> IF s = 1 THEN "console" ELSE "none"]
        /\ mutex = [s \in Sink |-> Free]
        /\ out = [p \in Place |-> <<>>]
        /\ fault = FALSE

Running == ~fault

Goes(t, from, next) == /\ Running
                       /\ pc[t] = from /\ pc' = [pc EXCEPT ![t] = next]
                       /\ UNCHANGED fault

-----------------------------------------------------------------------------
(* The constructor of logMessage, and the << that follow. *)
Begin(t) ==
    /\ number[t] < MaxMessages
    /\ Goes(t, "idle", "made")
    /\ number' = [number EXCEPT ![t] = @ + 1]
    /\ UNCHANGED <<to, place, lost, log, kind, mutex, out>>

(* Its destructor: _loger._log->fsync(_info). *)
End(t) ==
    /\ Goes(t, "made", "lock")
    /\ to' = [to EXCEPT ![t] = log]
    /\ UNCHANGED <<number, place, lost, log, kind, mutex, out>>

\* (Mutant) fsync does not lock.
LockNothing(t) ==
    /\ Goes(t, "lock", "open")
    /\ UNCHANGED <<number, to, place, lost, log, kind, mutex, out>>

Lock(t) ==
    /\ Goes(t, "lock", "open")
    /\ mutex[to[t]] = Free
    /\ mutex' = [mutex EXCEPT ![to[t]] = t]
    /\ UNCHANGED <<number, to, place, lost, log, kind, out>>

(* The file is opened for every message, and when it cannot be, the        *)
(* console is told and the message is lost.                                *)
Open(t) ==
    /\ Goes(t, "open", "text")
    /\ \E opened \in {TRUE} \cup {kind[to[t]] = "console"} :
          /\ lost' = [lost EXCEPT ![t] = ~opened]
          /\ place' = [place EXCEPT ![t] = IF opened THEN kind[to[t]] ELSE "console"]
    /\ UNCHANGED <<number, to, log, kind, mutex, out>>

Writes(t, what) == out' = [out EXCEPT ![place[t]] = Append(@, Piece(t, number[t], what))]

Text(t) ==
    /\ Goes(t, "text", "newline")
    /\ Writes(t, IF lost[t] THEN "error" ELSE "message")
    /\ UNCHANGED <<number, to, place, lost, log, kind, mutex>>

Newline(t) ==
    /\ Goes(t, "newline", "unlock")
    /\ Writes(t, "newline")
    /\ UNCHANGED <<number, to, place, lost, log, kind, mutex>>

\* (Mutant) fsync returns without unlocking when the file is not open.
UnlockUnlessLost(t) ==
    /\ Goes(t, "unlock", "idle")
    /\ mutex' = IF lost[t] THEN mutex ELSE [mutex EXCEPT ![to[t]] = Free]
    /\ UNCHANGED <<number, to, place, lost, log, kind, out>>

\* (Mutant) The logMessage that operator() returns is a copy, whose original
\* was destroyed as well.
UnlockAgain(t) ==
    /\ Goes(t, "unlock", "made") \/ Goes(t, "unlock", "idle")
    /\ mutex' = [mutex EXCEPT ![to[t]] = Free]
    /\ UNCHANGED <<number, to, place, lost, log, kind, out>>

(* The destructor of lockGuard. *)
Unlock(t) ==
    /\ Goes(t, "unlock", "idle")
    /\ mutex' = [mutex EXCEPT ![to[t]] = Free]
    /\ UNCHANGED <<number, to, place, lost, log, kind, out>>

Writing(t) == pc[t] \in {"lock", "open", "text", "newline", "unlock"}

(* to_file and to_console: a new sink; the one there was is destroyed,     *)
(* also under those that are writing to it.                                *)
Switch(p) ==
    /\ Running
    /\ log < MaxSinks
    /\ fault' = \E t \in Thread : Writing(t)
    /\ log' = log + 1
    /\ kind' = [kind EXCEPT ![log] = "freed", ![log + 1] = p]
    /\ UNCHANGED <<pc, number, to, place, lost, mutex, out>>

Log(t) == End(t) \/ Lock(t) \/ Open(t) \/ Text(t) \/ Newline(t) \/ Unlock(t)

Next == \/ \E t \in Thread : Begin(t) \/ Log(t)
        \/ \E p \in Place : Switch(p)

(* A statement that was begun goes on, and a lock that is free again and   *)
(* again is obtained.                                                      *)
Fairness == \A t \in Thread : WF_vars(Log(t)) /\ SF_vars(Lock(t))

Spec == Init /\ [][Next]_vars /\ Fairness

-----------------------------------------------------------------------------
(* On the console and in the file, every message is followed by its own    *)
(* newline: lines of several threads, also the complaint of one, are not   *)
(* mixed, nor are those of two sinks that were there one after the other,  *)
(* as long as none was destroyed in use (log.hpp:41-45, 71-83, 104-111).   *)
LinesAreWhole ==
    \A p \in Place : \A k \in DOMAIN out[p] :
        IF k % 2 = 1 THEN out[p][k].what # "newline"
        ELSE /\ out[p][k].what = "newline"
             /\ out[p][k].by = out[p][k - 1].by
             /\ out[p][k].number = out[p][k - 1].number

(* In one place, the messages of a thread are in the order in which they   *)
(* were begun, and none is written twice; those of several threads need    *)
(* not be, although their times are taken when they are begun              *)
(* (log.hpp:117, 137).                                                     *)
OwnOrder ==
    \A p \in Place : \A j, k \in DOMAIN out[p] :
        /\ j < k
        /\ out[p][j].by = out[p][k].by
        /\ out[p][j].what # "newline"
        /\ out[p][k].what # "newline"
        => out[p][j].number < out[p][k].number

(* A message is written whole or given up with a complaint, whatever the   *)
(* other threads log, unless a sink was destroyed in use (log.hpp:76-83).  *)
StatementsEnd == \A t \in Thread : pc[t] = "made" ~> pc[t] = "idle" \/ ~Running
=============================================================================
