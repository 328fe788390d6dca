---------------------------- MODULE MCHttpServer ----------------------------
(* HttpServer with clients that send two or three requests, or what is not *)
(* one, in a row.                                                          *)
EXTENDS HttpServer

Plain == <<"get", "nl", "keep", "nl", "nl">>

(* The body reads like a request. *)
Body == <<"get", "nl", "keep", "nl", "len2", "nl", "nl", "get", "nl">>

(* The body is a newline; there is no handler. *)
Missing == <<"miss", "nl", "len1", "nl", "keep", "nl", "nl", "nl">>

(* The first header of a name counts. *)
Twice == <<"get", "nl", "len1", "nl", "len2", "nl", "close", "nl", "keep", "nl", "nl", "x">>

Closing == <<"get", "nl", "head", "nl", "nl">>

BadLine == <<"x", "nl">>

BadHead == <<"get", "nl", "keep", "nl", "get", "nl">>

TooLongLine == <<"x", "x", "nl">>

TooLongHead == <<"get", "nl", "x", "x", "nl">>

(* Lengths that are none. *)
Negative == <<"get", "nl", "minus", "nl", "len1", "nl", "nl">>

NoNumber == <<"get", "nl", "keep", "nl", "word", "nl", "nl">>

Item == {Plain, Body, Missing, Twice, Closing, Negative, NoNumber, BadLine, BadHead, TooLongLine, TooLongHead}

MCStream == {a \o b : a, b \in Item}
            \cup {a \o b \o c : a, b \in {Plain, Body, Missing}, c \in Item}
=============================================================================
