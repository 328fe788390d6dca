----------------------------- MODULE HttpServer -----------------------------
(***************************************************************************)
(* HttpContext and HttpServer::OnMessage (source/http.hpp) on one          *)
(* connection: requests are parsed as their bytes arrive, cut anywhere,    *)
(* and answered in order; an error, or an answer without keep-alive, shuts *)
(* the connection down.                                                    *)
(*                                                                         *)
(* The stream is a sequence of symbols.  "nl" is a newline; the others but *)
(* "x" stand for the text of a line and count as one byte each, so that    *)
(* a stream may be cut between a line's text and its newline.  Routing is  *)
(* a handler that answers with the request, as those of test/main.cpp, or  *)
(* none.  What the connection does with its socket is in Connection.tla;   *)
(* here it reads, is flushed, and runs its tasks until it is released.     *)
(***************************************************************************)
EXTENDS Integers, Sequences, SequencesExt

CONSTANTS Stream,   \* what a client may send
          SizeMax   \* the largest size_t

(* MAX_LENGTH, 8192 in the code, in symbols: a text and its newline.       *)
MaxLength == 2

RequestText == {"get", "miss"}   \* the second has no handler

(* Content-Length: 1, 2, -1, which is a size that no stream reaches, and a *)
(* word that is no number.                                                 *)
NotANumber == SizeMax + 1

Length == [len1 |-> 1, len2 |-> 2, minus |-> SizeMax, word |-> NotANumber]

Option == [keep |-> "keep-alive", close |-> "close"]   \* Connection: ...

HeaderText == {"head"} \cup DOMAIN Length \cup DOMAIN Option

Symbol == {"nl", "x"} \cup RequestText \cup HeaderText

ASSUME SizeAssumption == SizeMax \in Nat /\ SizeMax > 2

ASSUME StreamAssumption ==
    Stream \subseteq Seq(Symbol) /\ \A s \in Stream : Len(s) < SizeMax

VARIABLES stream,     \* what this client sends
          arrived,    \* the length of what was read from the socket
          http,       \* the input, the context, what was answered and the status
          unsent,     \* _out_buffer is not empty
          releasing   \* ReleaseInLoop was pushed

vars == <<stream, arrived, http, unsent, releasing>>

Request == [text : {""} \cup RequestText, length : Nat,
            connection : {"", "keep-alive", "close"}, body : Seq(Symbol)]

Answer == [status : {0, 200, 400, 404, 414}, echo : Request, close : BOOLEAN]

Http == [unread : Seq(Symbol), recv_statu : {"line", "header", "body", "over", "error"},
         resp_statu : {0, 200, 400, 414}, req : Request, answers : Seq(Answer),
         status : {"connected", "disconnecting", "disconnected"}]

NoRequest == [text |-> "", length |-> 0, connection |-> "", body |-> <<>>]

Fresh == [unread |-> <<>>, recv_statu |-> "line", resp_statu |-> 200,
          req |-> NoRequest, answers |-> <<>>, status |-> "connected"]

Init == /\ stream \in Stream
        /\ arrived = 0
        /\ http = Fresh
        /\ unsent = FALSE
        /\ releasing = FALSE

-----------------------------------------------------------------------------
(* HttpContext, as functions of the record http, h. *)

(* Buffer::GetLineAndPop; see Buffer.tla. *)
Line(s) == SubSeq(s, 1, SelectInSeq(s, LAMBDA c : c = "nl"))

Without(h, s) == [h EXCEPT !.unread = SubSeq(@, Len(s) + 1, Len(@))]

Fail(h, statu) == [h EXCEPT !.recv_statu = "error", !.resp_statu = statu]

TooLong(h, line) == Len(IF line = <<>> THEN h.unread ELSE line) > MaxLength

RecvHttpLine(h) ==
    LET line == Line(h.unread)
        rest == Without(h, line)
    IN  IF h.recv_statu # "line" THEN h
        ELSE IF TooLong(h, line) THEN Fail(rest, 414)
        ELSE IF line = <<>> THEN [h EXCEPT !.resp_statu = 0]
        ELSE IF line[1] \notin RequestText THEN Fail(rest, 400)
        ELSE [rest EXCEPT !.recv_statu = "header", !.req.text = line[1]]

(* The first header of a name is kept. *)
SetHeader(h, text) ==
    IF text \in DOMAIN Length /\ h.req.length = 0
    THEN [h EXCEPT !.req.length = Length[text]]
    ELSE IF text \in DOMAIN Option /\ h.req.connection = ""
    THEN [h EXCEPT !.req.connection = Option[text]]
    ELSE h

(* A line in each round. *)
RecvHttpHead(h) ==
    LET after[g \in Http] ==
          LET line == Line(g.unread)
              rest == Without(g, line)
          IN  IF g.recv_statu # "header" THEN g
              ELSE IF TooLong(g, line) THEN Fail(rest, 414)
              ELSE IF line = <<>> THEN g
              ELSE IF line = <<"nl">> THEN [rest EXCEPT !.recv_statu = "body"]
              ELSE IF line[1] \notin HeaderText THEN Fail(rest, 400)
              ELSE after[SetHeader(rest, line[1])]
    IN  after[h]

(* If the length is no number the process ends here, whatever it takes:    *)
(* see Thrown.                                                             *)
RecvBody(h) ==
    LET reallen == h.req.length - Len(h.req.body)
        piece   == SubSeq(h.unread, 1, IF Len(h.unread) < reallen
                                       THEN Len(h.unread) ELSE reallen)
        more    == [Without(h, piece) EXCEPT !.req.body = @ \o piece]
    IN  IF h.recv_statu # "body" THEN h
        ELSE IF Len(piece) = reallen THEN [more EXCEPT !.recv_statu = "over"]
        ELSE more

(* The cases of the switch fall through. *)
RecvHttpReq(h) == RecvBody(RecvHttpHead(RecvHttpLine(h)))

\* (Mutant) The body is not cleared.
ResetButBody(h) == [h EXCEPT !.recv_statu = "line", !.resp_statu = 200,
                             !.req = [NoRequest EXCEPT !.body = h.req.body]]

Reset(h) == [h EXCEPT !.recv_statu = "line", !.resp_statu = 200, !.req = NoRequest]

-----------------------------------------------------------------------------
(* HttpServer *)

(* Router, which only knows that a request is routed or not; the handler   *)
(* echoes it.                                                              *)
Router(req, statu) ==
    IF req.text = "miss" THEN [status |-> 404, echo |-> NoRequest]
    ELSE [status |-> statu, echo |-> req]

ErrorHandler(statu) == [status |-> statu, echo |-> NoRequest]

(* WriteResponse: an answer closes unless the request asked for keep-alive. *)
WriteResponse(req, res) ==
    [status |-> res.status, echo |-> res.echo, close |-> req.connection # "keep-alive"]

Respond(h) ==
    LET res == IF h.resp_statu >= 400 THEN ErrorHandler(h.resp_statu)
               ELSE Router(h.req, h.resp_statu)
    IN  [h EXCEPT !.answers = Append(@, WriteResponse(h.req, res))]

\* (Mutant) One request is taken per message.
OnMessageOnce(h) ==
    LET got == RecvHttpReq(h)
        out == Reset(Respond(got))
    IN  IF h.unread = <<>> THEN h
        ELSE IF got.resp_statu >= 400
        THEN [out EXCEPT !.unread = <<>>, !.status = "disconnecting"]
        ELSE IF got.recv_statu # "over" THEN got
        ELSE [out EXCEPT !.status = IF Last(out.answers).close
                                    THEN "disconnecting" ELSE @]

(* Shutdown runs ShutdownInLoop at once, and that gives the input that is  *)
(* left to this same callback before it comes back here.                   *)
OnMessage(h) ==
    LET after[g \in Http] ==
          LET got == RecvHttpReq(g)
              out == Reset(Respond(got))
          IN  IF g.unread = <<>> THEN g
              ELSE IF got.resp_statu >= 400
              THEN [out EXCEPT !.unread = <<>>, !.status = "disconnecting"]
              ELSE IF got.recv_statu # "over" THEN got
              ELSE after[[out EXCEPT !.status = IF Last(out.answers).close
                                                THEN "disconnecting" ELSE @]]
    IN  after[h]

-----------------------------------------------------------------------------
(* The connection.  A round of the loop is at most one HandleRead, at most *)
(* one HandleWrite, and the tasks: none of the two comes between Release   *)
(* and ReleaseInLoop.                                                      *)

(* HandleRead with the next n symbols (none: the socket had nothing, or    *)
(* the client has shut down its end) and the message callback.             *)
HandleRead(n) ==
    LET more == SubSeq(stream, arrived + 1, arrived + n)
    IN  /\ ~releasing
        /\ http.status # "disconnected"
        /\ arrived' = arrived + n
        /\ http' = OnMessage([http EXCEPT !.unread = @ \o more])
        /\ unsent' = (unsent \/ http'.answers # http.answers)
        /\ UNCHANGED <<stream, releasing>>

\* (Mutant) A flushed connection that is being shut down is not released.
HandleWriteOnly ==
    /\ ~releasing
    /\ unsent
    /\ unsent' = FALSE
    /\ UNCHANGED <<stream, arrived, http, releasing>>

(* HandleWrite when the socket takes all there is; when it takes less,     *)
(* nothing seen here changes.                                              *)
HandleWrite ==
    /\ ~releasing
    /\ unsent
    /\ unsent' = FALSE
    /\ releasing' = (http.status = "disconnecting")
    /\ UNCHANGED <<stream, arrived, http>>

(* The end: what may still happen to the object is in Connection.tla. *)
ReleaseInLoop ==
    /\ releasing
    /\ releasing' = FALSE
    /\ http' = [http EXCEPT !.status = "disconnected"]
    /\ UNCHANGED <<stream, arrived, unsent>>

(* std::stol throws when RecvBody asks for a length that is no number, and *)
(* nobody catches it: the process is gone, and what the handler would      *)
(* still have made of its memory is nothing to anybody.                    *)
Thrown == http.recv_statu = "body" /\ http.req.length = NotANumber

Next == /\ ~Thrown
        /\ \/ \E n \in 0 .. Len(stream) - arrived : HandleRead(n)
           \/ HandleWrite
           \/ ReleaseInLoop

(* The loop runs, and a client that is owed answers takes them. *)
Fairness == WF_vars(HandleWrite) /\ WF_vars(ReleaseInLoop)

Spec == Init /\ [][Next]_vars /\ Fairness

-----------------------------------------------------------------------------
(* The types; no error and no finished request is left in the context, and *)
(* of a body no more is taken than its length (http.hpp:636-647).          *)
TypeOK == /\ stream \in Stream
          /\ arrived \in 0 .. Len(stream)
          /\ http \in Http
          /\ http.recv_statu \in {"line", "header", "body"}
          /\ http.resp_statu \in {0, 200}
          /\ Len(http.req.body) <= http.req.length
          /\ Len(http.unread) <= arrived
          /\ {unsent, releasing} \subseteq BOOLEAN

(***************************************************************************)
(* What is to be answered to the first n symbols of a stream s.            *)
(***************************************************************************)

(* From position i to before j there are only right lines of a head. *)
WellFormed(s, i, j) ==
    /\ (j - i) % 2 = 0
    /\ \A p \in i .. j - 1 :
          s[p] \in IF (p - i) % 2 = 1 THEN {"nl"}
                   ELSE IF p = i THEN RequestText ELSE HeaderText

(* Where the right lines end. *)
HeadEnd(s, n, i) ==
    CHOOSE j \in i .. n + 1 :
        WellFormed(s, i, j) /\ \A m \in j + 1 .. n + 1 : ~WellFormed(s, i, m)

(* The positions from i to before j with one of these texts; the first. *)
Found(s, i, j, texts) == {p \in i .. j - 1 : s[p] \in texts}

FirstOf(s, positions) == s[CHOOSE p \in positions : \A q \in positions : p <= q]

(* The request whose head is from i to before j, without its body. *)
RequestOf(s, i, j) ==
    LET sizes   == Found(s, i, j, DOMAIN Length)
        options == Found(s, i, j, DOMAIN Option)
    IN  [text |-> IF i = j THEN "" ELSE s[i],
         length |-> IF sizes = {} THEN 0 ELSE Length[FirstOf(s, sizes)],
         connection |-> IF options = {} THEN "" ELSE Option[FirstOf(s, options)],
         body |-> <<>>]

(* The answers from each position on: a head is followed by an empty line  *)
(* and as many symbols as it says; the first line that is not right is     *)
(* answered with an error, and is too long even before its end is seen.    *)
Answers(s, n) ==
    LET from[i \in 1 .. n + 1] ==
          LET j       == HeadEnd(s, n, i)
              ends    == {p \in j .. n : s[p] = "nl"}
              request == RequestOf(s, i, j)
              next    == j + request.length + 1
              whole   == [request EXCEPT !.body = SubSeq(s, j + 1, next - 1)]
              soon    == \E p \in ends : p < j + MaxLength
          IN  IF j > i /\ j \in ends
              THEN IF next > n + 1 THEN <<>>
                   ELSE <<WriteResponse(whole, Router(whole, 200))>> \o from[next]
              ELSE IF ~soon /\ n >= j + MaxLength THEN <<WriteResponse(request, ErrorHandler(414))>>
              ELSE IF ends = {} THEN <<>>
              ELSE <<WriteResponse(request, ErrorHandler(400))>>
    IN  from[1]

Closes(answer) == answer.close \/ answer.status \in {400, 414}

(* Up to the first after which the connection is shut down. *)
UpToLast(answers) ==
    SubSeq(answers, 1, CHOOSE n \in 0 .. Len(answers) :
        /\ \A k \in 1 .. n - 1 : ~Closes(answers[k])
        /\ n = Len(answers) \/ (n > 0 /\ Closes(answers[n])))

(* A request whose first line came in pieces is answered with a status 0   *)
(* (the assignment of http.hpp:531 outlives it).                           *)
StatusRead(answer) == [answer EXCEPT !.status = IF @ = 0 THEN 200 ELSE @]

(* However the stream was cut, what has been answered is what is answered  *)
(* to the same bytes in one piece: each request once, in order, with all   *)
(* of its body and none of the next request; up to the answer that closes. *)
(* (http.hpp:510-648, 785-816)                                             *)
AnswersAsInOnePiece ==
    LET given == [k \in DOMAIN http.answers |-> StatusRead(http.answers[k])]
    IN  UpToLast(given) = UpToLast(Answers(stream, arrived))

(* Nothing of a request is left when the next one begins: HttpContext is   *)
(* one object for the whole life of the connection (http.hpp:505-509); and *)
(* a body that is being received never outgrows its Content-Length.        *)
CleanContext == TypeOK /\ (http.recv_statu = "line" => http.req = NoRequest)

(* A connection that has to be closed is closed, the client taking what it *)
(* is owed and whatever else it sends (http.hpp:799, 812); unless what is  *)
(* parsed while it is closed ends the process (http.hpp:421).              *)
EndsAfterClose ==
    (\E k \in DOMAIN http.answers : Closes(http.answers[k]))
        ~> (http.status = "disconnected" \/ Thrown)

=============================================================================
