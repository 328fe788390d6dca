---------------------------- MODULE MCTimeWheel ----------------------------
(***************************************************************************)
(* TimeWheel for TLC: a ring of three slots, two timers, timeouts from one *)
(* tick to a whole revolution, and a loop that may be late by more than a  *)
(* revolution.                                                             *)
(***************************************************************************)
EXTENDS TimeWheel

MCTimeout == 1 .. Capacity
=============================================================================
