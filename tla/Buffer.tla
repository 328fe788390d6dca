------------------------------- MODULE Buffer -------------------------------
(***************************************************************************)
(* Buffer (source/server.hpp): bytes wait between two indices of a vector, *)
(* which is compacted or grown when what is to be written does not fit.    *)
(*                                                                         *)
(* A connection has two.  HandleRead fills _in_buffer and the HTTP parser  *)
(* takes lines and pieces of bodies from it; SendInLoop fills _out_buffer  *)
(* and HandleWrite takes what the socket accepted.  Both are used in the   *)
(* loop's thread only.  Lengths are not negative here: the -1 that recv    *)
(* and send may return is in Connection.tla.  _buffer[i] of the code is    *)
(* buffer[i + 1].                                                          *)
(***************************************************************************)
EXTENDS Integers, Sequences

CONSTANTS Byte,
          Newline,
          Nul,          \* the byte 0, which resize fills new elements with
          DefaultSize,  \* DEFAULTSIZE, 1024 in the code
          MaxLength,    \* bound of the model: bytes written at a time
          MaxCapacity   \* bound of the model: elements of the vector

ASSUME ByteAssumption == Newline \in Byte /\ Nul \in Byte /\ Newline # Nul

ASSUME SizeAssumption == DefaultSize \in Nat \ {0}

ASSUME LengthAssumption == MaxLength \in Nat /\ MaxCapacity \in Nat

VARIABLES read_idx,   \* _read_idx
          write_idx,  \* _write_idx
          buffer,     \* _buffer
          aborted,    \* MoveWriteOffset called abort
          in,         \* the bytes given to the last operation
          out,        \* the bytes it returned
          peak        \* history: the most bytes there were ever to hold

vars == <<read_idx, write_idx, buffer, aborted, in, out, peak>>

Capacity == Len(buffer)

PostIdle == Capacity - write_idx

PreIdle == read_idx

ReadableSize == write_idx - read_idx

(* The ReadableSize bytes at GetReadPos. *)
Readable == SubSeq(buffer, read_idx + 1, write_idx)

TypeOK == /\ write_idx \in Nat
          /\ read_idx \in 0 .. write_idx
          /\ buffer \in Seq(Byte)
          /\ aborted \in BOOLEAN
          /\ in \in Seq(Byte)
          /\ out \in Seq(Byte)
          /\ peak \in Nat

Zeros(n) == [i \in 1 .. n |-> Nul]

Init == /\ read_idx = 0
        /\ write_idx = 0
        /\ buffer = Zeros(DefaultSize)
        /\ aborted = FALSE
        /\ in = <<>>
        /\ out = <<>>
        /\ peak = 0

-----------------------------------------------------------------------------
AsItIs == [read_idx |-> read_idx, write_idx |-> write_idx, buffer |-> buffer]

(* The unread bytes move to the front; what they leave behind stays.       *)
Compacted == [read_idx  |-> 0,
              write_idx |-> ReadableSize,
              buffer    |-> Readable \o SubSeq(buffer, ReadableSize + 1, Capacity)]

Resized(len) == [AsItIs EXCEPT !.buffer = buffer \o Zeros(2 * len)]

\* (Mutant) Room for exactly len bytes is enough.
EnsureWriteExactly(len) == IF PostIdle >= len THEN AsItIs
                           ELSE IF PreIdle + PostIdle >= len THEN Compacted
                           ELSE Resized(len)

\* (Mutant) The index of the first unread byte is not reset.
EnsureWriteUnmoved(len) == IF PostIdle > len THEN AsItIs
                           ELSE IF PreIdle + PostIdle > len
                           THEN [Compacted EXCEPT !.read_idx = read_idx]
                           ELSE Resized(len)

\* (Mutant) The vector grows whenever there is no room after the bytes.
EnsureWriteByGrowing(len) == IF PostIdle > len THEN AsItIs ELSE Resized(len)

EnsureWrite(len) == IF PostIdle > len THEN AsItIs
                    ELSE IF PreIdle + PostIdle > len THEN Compacted
                    ELSE Resized(len)

(* b with data copied to position n and after. *)
CopiedTo(b, n, data) ==
    SubSeq(b, 1, n) \o data \o SubSeq(b, n + Len(data) + 1, Len(b))

(* Write and then MoveWriteOffset, which aborts if no element would be     *)
(* left after the bytes.                                                   *)
WriteAndPush(data) ==
    LET len  == Len(data)
        room == EnsureWrite(len)
    IN  /\ Len(room.buffer) <= MaxCapacity
        /\ buffer' = CopiedTo(room.buffer, room.write_idx, data)
        /\ read_idx' = room.read_idx
        /\ IF len >= Len(room.buffer) - room.write_idx
           THEN aborted' = TRUE /\ write_idx' = room.write_idx
           ELSE aborted' = FALSE /\ write_idx' = room.write_idx + len
        /\ in' = data
        /\ out' = <<>>
        /\ peak' = IF ReadableSize + len > peak THEN ReadableSize + len ELSE peak

(* The caller uses the first len bytes at GetReadPos and moves the offset. *)
TakeFirst(len) == /\ in' = <<>>
                  /\ out' = SubSeq(buffer, read_idx + 1, read_idx + len)
                  /\ read_idx' = read_idx + len
                  /\ UNCHANGED <<write_idx, buffer, aborted, peak>>

(* ReadAndPop, and the users of MoveReadOffset: RecvBody, which takes what *)
(* there is of what it lacks, and HandleWrite, which drops what was sent.  *)
ReadAndPop(len) == TakeFirst(IF ReadableSize < len THEN ReadableSize ELSE len)

Newlines == {i \in read_idx + 1 .. write_idx : buffer[i] = Newline}

(* FindCRLF; memchr finds the first. *)
FirstNewline == CHOOSE i \in Newlines : \A j \in Newlines : i <= j

(* What is left of the line when GetLine returns it: it is copied to an    *)
(* array of char and comes back as a C string, which ends at the first 0.  *)
Text(last) == {n \in 0 .. last - read_idx :
                   \A i \in read_idx + 1 .. read_idx + n : buffer[i] # Nul}

LengthOfText(last) == CHOOSE n \in Text(last) : \A m \in Text(last) : m <= n

\* (Mutant) The newline stays in the buffer.
PopWithoutNewline ==
    IF Newlines = {} THEN TakeFirst(0) ELSE TakeFirst(FirstNewline - read_idx - 1)

(* GetLineAndPop returns nothing when there is no whole line, and pops the *)
(* length of what it returns.                                              *)
GetLineAndPop ==
    IF Newlines = {} THEN TakeFirst(0) ELSE TakeFirst(LengthOfText(FirstNewline))

-----------------------------------------------------------------------------
Next == /\ ~aborted
        /\ \/ \E len \in 0 .. MaxLength : \E data \in [1 .. len -> Byte] : WriteAndPush(data)
           \/ \E len \in 0 .. MaxLength : ReadAndPop(len)
           \/ GetLineAndPop

Spec == Init /\ [][Next]_vars

-----------------------------------------------------------------------------
(* NeverAborts: no sequence of writes and reads makes MoveWriteOffset      *)
(* abort the process: EnsureWrite always leaves the one element more than  *)
(* the bytes that MoveWriteOffset insists on, also for a write of nothing  *)
(* into a full vector.                                                     *)
NeverAborts == ~aborted /\ write_idx < Capacity

(* BoundedByPeak: compaction is used before growth, so the vector is never *)
(* larger than three times the most bytes that ever waited in it at once   *)
(* (or its initial size), however many bytes passed through.               *)
BoundedByPeak == Capacity <= DefaultSize \/ Capacity <= 3 * peak

Q == INSTANCE ByteQueue WITH queue <- Readable

(* IsByteQueue: whatever is moved by compaction or growth, bytes come out  *)
(* once, unchanged and in the order they were written.                     *)
IsByteQueue == Q!Spec

(* LineComesWhole: a line taken from bytes without a 0 goes up to and       *)
(* includes the first newline; nothing is taken when there is none.  The   *)
(* HTTP parser takes an empty result for "no line yet".                    *)
LineComesWhole ==
    [][GetLineAndPop /\ (\A i \in read_idx + 1 .. write_idx : buffer[i] # Nul)
       => IF Newlines = {} THEN out' = <<>>
          ELSE /\ out' # <<>>
               /\ out'[Len(out')] = Newline
               /\ \A i \in 1 .. Len(out') - 1 : out'[i] # Newline]_vars
=============================================================================
