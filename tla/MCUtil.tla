------------------------------- MODULE MCUtil -------------------------------
(* Util on the bytes its functions tell apart. *)
EXTENDS Util

(* Newline, space, percent, and, plus, dot, slash, "2", "=", "A", "f", DEL. *)
MCAlphabet == {10, 32, 37, 38, 43, 46, 47, 50, 61, 65, 102, 127}

MCWords == {<<>>, <<97>>, <<38>>, <<61, 61>>, <<37, 50>>, <<43, 32>>, <<97, 38, 97>>}
=============================================================================
