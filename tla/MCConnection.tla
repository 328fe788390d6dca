---------------------------- MODULE MCConnection ----------------------------
(***************************************************************************)
(* Connection for TLC: fewer descriptors than connections, so that they    *)
(* are reused.  Timeout = 2 and MaxLate = 1: the worker is late, but never *)
(* by a whole timeout.                                                     *)
(***************************************************************************)
EXTENDS Connection

CONSTANTS c1, c2, c3, fd1, fd2

(* A program with a worker, without timers or calls of other threads, that *)
(* answers before it shuts down, as an HttpServer does, and whose clients   *)
(* do not reset; two connections that share a descriptor.                   *)
Plain == [timers |-> FALSE, prompt |-> FALSE, resets |-> FALSE, workers |-> TRUE,
          silent |-> 0, empty |-> FALSE, calls |-> {}, conns |-> {c1, c2}, fds |-> {fd1}]

Timed == [Plain EXCEPT !.timers = TRUE, !.prompt = TRUE]

(* An EchoServer, as long as what it reads at once is short; and any. *)
Short == [Plain EXCEPT !.silent = 1]
Long  == [Plain EXCEPT !.silent = 2]

LivePrograms == {[p EXCEPT !.workers = workers] : p \in {Plain, Short}, workers \in BOOLEAN}

ServerPrograms ==
    {[p EXCEPT !.workers = workers] :
        p \in {[Plain EXCEPT !.conns = Conn], [Plain EXCEPT !.fds = Fd], Short, Long},
        workers \in BOOLEAN}
    \cup {[Timed EXCEPT !.resets = TRUE], [Timed EXCEPT !.prompt = FALSE]}
    \cup {[Short EXCEPT !.calls = {"Send"}],
          [Long EXCEPT !.calls = {"Send"}, !.empty = TRUE, !.conns = {c1}],
          [Timed EXCEPT !.calls = {"CancelInactiveRelease", "Send"}, !.conns = {c1}],
          [Plain EXCEPT !.calls = {"Send", "Shutdown", "Release", "SwitchProtocol"},
                        !.conns = {c1}]}

LonePrograms == {[Timed EXCEPT !.conns = {c1}]}
=============================================================================
