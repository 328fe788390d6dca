----------------------------- MODULE ByteQueue -----------------------------
(***************************************************************************)
(* What a Buffer promises: a queue of bytes.  What was put in comes out    *)
(* once and in order, whatever the sizes of the pieces.  Buffer.tla        *)
(* implements it with two indices into a vector.                           *)
(***************************************************************************)
EXTENDS Sequences

VARIABLES queue,   \* the bytes put in and not yet taken
          in,      \* the bytes given to the last operation
          out      \* the bytes it returned

vars == <<queue, in, out>>

Init == queue = <<>> /\ in = <<>> /\ out = <<>>

Put == queue' = queue \o in' /\ out' = <<>>

Take == queue = out' \o queue' /\ in' = <<>>

Next == Put \/ Take

Spec == Init /\ [][Next]_vars
=============================================================================
