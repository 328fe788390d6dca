----------------------------- MODULE HttpRouter -----------------------------
(***************************************************************************)
(* What HttpServer does with a whole request (source/http.hpp): a file     *)
(* below the asset directory, the first route of the method that matches,  *)
(* or an error.  The workers answer at the same time, and a handler may    *)
(* write a file another worker is reading, as PutFile of test/main.cpp     *)
(* does with three of them.                                                *)
(*                                                                         *)
(* A file is a sequence of symbols; a system call is a step.  The parser   *)
(* has only let the five methods through, so that 405 is never answered.   *)
(***************************************************************************)
EXTENDS Integers, Sequences, FiniteSetsExt

CONSTANTS Worker,
          Symbol,       \* what files and bodies are made of
          Request,      \* what clients ask: method, url and body
          Pattern,      \* what a route may match: sets of URLs
          Initial,      \* what a file may hold in the beginning
          MaxRoutes,    \* bounds of the model: routes registered,
          MaxRequests,  \* requests,
          MaxWork       \* and both together

Method == {"GET", "HEAD", "POST", "PUT", "DELETE"}

(* Directories are the URLs that end with a slash. *)
Directory == {"/", "/sub/"}

Index == [d \in Directory |-> IF d = "/" THEN "/index.html" ELSE "/sub/index.html"]

WithIndex(url) == IF url \in Directory THEN Index[url] ELSE url

Path == {WithIndex(r.url) : r \in Request}

ASSUME RequestAssumption ==
    /\ \A r \in Request : DOMAIN r = {"method", "url", "body"}
    /\ \A r \in Request : r.method \in Method /\ r.url # ""

Missing == <<"missing">>     \* no file, or one that is not regular
Zero    == "zero"            \* a byte of resize

ASSUME ContentAssumption ==
    /\ Zero \notin Symbol
    /\ Initial \subseteq Seq(Symbol)
    /\ \A r \in Request : r.body \in Seq(Symbol)

ASSUME BoundAssumption == {MaxRoutes, MaxRequests, MaxWork} \subseteq Nat

VARIABLES started,     \* Start was called: the setup is over
          asset_dir,   \* _asset_dir is not empty
          routers,     \* _get_router, _post_router, _put_router, _delete_router
          registered,  \* history: the routes in the order of their registration
          files,       \* what is below the asset directory
          job,         \* the request each worker has, and what it answered
          asked        \* how many requests there were

vars == <<started, asset_dir, routers, registered, files, job, asked>>

(* No answer; "by" tells the file, a handler or nothing it came from.      *)
NoAnswer == [status |-> 0, by |-> "", nr |-> 0, url |-> "", body |-> <<>>, type |-> ""]

NoJob == [at |-> "idle", req |-> CHOOSE r \in Request : TRUE, url |-> "", nr |-> 0,
          size |-> 0, body |-> <<>>, quiet |-> TRUE, held |-> <<>>, answer |-> NoAnswer]

Init == /\ started = FALSE
        /\ asset_dir = TRUE
        /\ routers = [m \in Method \ {"HEAD"} |-> <<>>]
        /\ registered = <<>>
        /\ files \in [Path -> Initial \cup {Missing}]
        /\ job = [w \in Worker |-> NoJob]
        /\ asked = 0

-----------------------------------------------------------------------------
(* Setup, before the loops run. *)

SetAssetDir(dir) ==
    /\ ~started
    /\ asset_dir' = dir
    /\ UNCHANGED <<started, routers, registered, files, job, asked>>

\* (Mutant) A route is put before those there are.
AddMethodInFront(m, pattern) ==
    /\ ~started
    /\ Len(registered) < MaxRoutes
    /\ registered' = Append(registered, [method |-> m, pattern |-> pattern])
    /\ routers' = [routers EXCEPT ![m] =
                     <<[pattern |-> pattern, nr |-> Len(registered')]>> \o @]
    /\ UNCHANGED <<started, asset_dir, files, job, asked>>

(* AddGetMethod, AddPostMethod, AddPutMethod, AddDeleteMethod *)
AddMethod(m, pattern) ==
    /\ ~started
    /\ Len(registered) < MaxRoutes
    /\ registered' = Append(registered, [method |-> m, pattern |-> pattern])
    /\ routers' = [routers EXCEPT ![m] =
                     Append(@, [pattern |-> pattern, nr |-> Len(registered')])]
    /\ UNCHANGED <<started, asset_dir, files, job, asked>>

Start ==
    /\ ~started
    /\ started' = TRUE
    /\ UNCHANGED <<asset_dir, routers, registered, files, job, asked>>

-----------------------------------------------------------------------------
(* The files.  A job is "quiet" while nobody else changes its file.        *)

Opened(w) == job[w].at \in {"read", "write"}

(* The jobs when the file of path p changes under those of others. *)
Disturbed(others, p) ==
    [v \in Worker |->
        IF v \in others /\ job[v].at # "idle" /\ WithIndex(job[v].req.url) = p
        THEN [job[v] EXCEPT !.quiet = FALSE] ELSE job[v]]

(* External: a file nobody has open is removed. *)
Remove(p) ==
    /\ files[p] # Missing
    /\ \A w \in Worker : Opened(w) => job[w].url # p
    /\ files' = [files EXCEPT ![p] = Missing]
    /\ job' = Disturbed(Worker, p)
    /\ UNCHANGED <<started, asset_dir, routers, registered, asked>>

-----------------------------------------------------------------------------
(* One request on worker w: Router and WriteResponse. *)

(* A parsed request, with what its file holds at that moment. *)
Receive(w, r) ==
    /\ started
    /\ job[w].at = "idle"
    /\ asked < MaxRequests /\ asked + Len(registered) < MaxWork
    /\ asked' = asked + 1
    /\ job' = [job EXCEPT ![w] = [NoJob EXCEPT !.at = "route", !.req = r, !.url = r.url,
                                               !.held = files[WithIndex(r.url)]]]
    /\ UNCHANGED <<started, asset_dir, routers, registered, files>>

(* WriteResponse: a body without a type is just bytes. *)
Answered(j, answer) ==
    [j EXCEPT !.at = "idle",
              !.answer = [answer EXCEPT !.url = j.url,
                                        !.type = IF @ = "" /\ answer.body # <<>>
                                                 THEN "application/octet-stream" ELSE @]]

(* ValidPath is in Util.tla; this is the one path above the directory.     *)
ValidPath(url) == url # "/../a"

(* As far as the comparison of the method, and then the name of the file,  *)
(* which is the URL of the request from here on.                           *)
MayBeStatic(r) == asset_dir /\ ValidPath(r.url) /\ r.method \in {"GET", "HEAD"}

StaticUrl(r) == IF MayBeStatic(r) THEN WithIndex(r.url) ELSE r.url

IsStatic(r) == MayBeStatic(r) /\ files[StaticUrl(r)] # Missing

RouteStatic(w) ==
    /\ job[w].at = "route"
    /\ IsStatic(job[w].req)
    /\ job' = [job EXCEPT ![w].at = "open", ![w].url = StaticUrl(job[w].req)]
    /\ UNCHANGED <<started, asset_dir, routers, registered, files, asked>>

RouterOf(method) == routers[IF method = "HEAD" THEN "GET" ELSE method]

Matches(r) ==
    LET router == RouterOf(r.method)
    IN  {k \in DOMAIN router : StaticUrl(r) \in router[k].pattern}

(* The handlers of test/main.cpp: for PUT, one that writes a file; for the *)
(* others, one that answers with the request.                              *)
Dispatcher(w) ==
    LET r == job[w].req
        j == [job[w] EXCEPT !.url = StaticUrl(r)]
        handler == RouterOf(r.method)[Min(Matches(r))]
    IN  /\ job[w].at = "route"
        /\ ~IsStatic(r)
        /\ job' = [job EXCEPT ![w] =
             IF Matches(r) = {}
             THEN Answered(j, [NoAnswer EXCEPT !.status = 404, !.by = "nothing"])
             ELSE IF r.method = "PUT"
             THEN [j EXCEPT !.at = "truncate", !.nr = handler.nr]
             ELSE Answered(j, [NoAnswer EXCEPT !.status = 200, !.by = "handler",
                                               !.nr = handler.nr, !.body = r.body,
                                               !.type = "text/plain"])]
        /\ UNCHANGED <<started, asset_dir, routers, registered, files, asked>>

-----------------------------------------------------------------------------
(* ReadFile and StaticHandler *)

Static(j, body, type) ==
    Answered(j, [NoAnswer EXCEPT !.status = 200, !.by = "file", !.body = body, !.type = type])

(* A file that is gone is answered with nothing, and 200. *)
Open(w) ==
    LET j == job[w]
    IN  /\ j.at = "open"
        /\ job' = [job EXCEPT ![w] =
             IF files[j.url] = Missing THEN Static(j, <<>>, "")
             ELSE [j EXCEPT !.at = "read", !.size = Len(files[j.url])]]
        /\ UNCHANGED <<started, asset_dir, routers, registered, files, asked>>

\* (Mutant) The end of the file is not looked for.
ReadUntilSize(w) ==
    LET j == job[w]
        n == Len(j.body)
    IN  /\ j.at = "read"
        /\ n = j.size \/ n < Len(files[j.url])
        /\ job' = [job EXCEPT ![w] =
             IF n = j.size THEN Static(j, j.body, "type of the file")
             ELSE [j EXCEPT !.body = Append(@, files[j.url][n + 1])]]
        /\ UNCHANGED <<started, asset_dir, routers, registered, files, asked>>

(* The body is read, or the file ends before it: the zeros of resize stay, *)
(* and the type is not set.                                                *)
Read(w) ==
    LET j == job[w]
        n == Len(j.body)
    IN  /\ j.at = "read"
        /\ job' = [job EXCEPT ![w] =
             IF n = j.size THEN Static(j, j.body, "type of the file")
             ELSE IF n < Len(files[j.url])
             THEN [j EXCEPT !.body = Append(@, files[j.url][n + 1])]
             ELSE Static(j, j.body \o [k \in 1 .. j.size - n |-> Zero], "")]
        /\ UNCHANGED <<started, asset_dir, routers, registered, files, asked>>

-----------------------------------------------------------------------------
(* PutFile and WriteFile *)

Put(j) == Answered(j, [NoAnswer EXCEPT !.status = 200, !.by = "put", !.nr = j.nr])

\* (Mutant) The file is opened without trunc.
OpenToWrite(w) ==
    LET j == job[w]
    IN  /\ j.at = "truncate"
        /\ IF j.url \in Directory
           THEN job' = [job EXCEPT ![w] = Put(j)] /\ UNCHANGED files
           ELSE /\ job' = [Disturbed(Worker \ {w}, j.url) EXCEPT ![w] = [j EXCEPT !.at = "write"]]
                /\ files' = [files EXCEPT ![j.url] = IF @ = Missing THEN <<>> ELSE @]
        /\ UNCHANGED <<started, asset_dir, routers, registered, asked>>

(* A directory cannot be opened, and is answered like a file. *)
Truncate(w) ==
    LET j == job[w]
    IN  /\ j.at = "truncate"
        /\ IF j.url \in Directory
           THEN job' = [job EXCEPT ![w] = Put(j)] /\ UNCHANGED files
           ELSE /\ job' = [Disturbed(Worker \ {w}, j.url) EXCEPT ![w] = [j EXCEPT !.at = "write"]]
                /\ files' = [files EXCEPT ![j.url] = <<>>]
        /\ UNCHANGED <<started, asset_dir, routers, registered, asked>>

(* What is there behind the body, from another PUT, stays. *)
Write(w) ==
    LET j       == job[w]
        content == j.req.body \o SubSeq(files[j.url], Len(j.req.body) + 1, Len(files[j.url]))
    IN  /\ j.at = "write"
        /\ files' = [files EXCEPT ![j.url] = content]
        /\ job' = [Disturbed(Worker \ {w}, j.url) EXCEPT ![w] = [Put(j) EXCEPT !.held = content]]
        /\ UNCHANGED <<started, asset_dir, routers, registered, asked>>

Serve(w) == \/ RouteStatic(w)
            \/ Dispatcher(w)
            \/ Open(w)
            \/ Read(w)
            \/ Truncate(w)
            \/ Write(w)

Next == \/ \E dir \in BOOLEAN : SetAssetDir(dir)
        \/ \E m \in Method \ {"HEAD"}, pattern \in Pattern : AddMethod(m, pattern)
        \/ Start
        \/ \E p \in Path : Remove(p)
        \/ \E w \in Worker, r \in Request : Receive(w, r)
        \/ \E w \in Worker : Serve(w)

(* A thread that has a request goes on with it. *)
Spec == Init /\ [][Next]_vars /\ \A w \in Worker : WF_vars(Serve(w))

-----------------------------------------------------------------------------
(* The types; a file being read is no longer than what was reserved. *)
TypeOK == /\ {started, asset_dir} \subseteq BOOLEAN
          /\ \A m \in DOMAIN routers : \A k \in DOMAIN routers[m] :
                /\ routers[m][k].pattern \in Pattern
                /\ routers[m][k].nr \in DOMAIN registered
          /\ DOMAIN files = Path
          /\ \A w \in Worker :
                /\ DOMAIN job[w] = DOMAIN NoJob
                /\ job[w].at \in {"idle", "route", "open", "read", "truncate", "write"}
                /\ Len(job[w].body) <= job[w].size
          /\ asked \in 0 .. MaxRequests

(* The answer worker w has given last. *)
Given(w) == job[w].answer

(* A file is served and stored whole, unless somebody changed it in the    *)
(* meantime: what GET and HEAD answer is what the file held, and after PUT *)
(* the file holds the body (http.hpp:175-204, main.cpp:26-31).             *)
WholeUnlessConcurrent ==
    \A w \in Worker :
        job[w].at = "idle" /\ job[w].quiet =>
            /\ Given(w).by = "file" => Given(w).body = job[w].held
            /\ Given(w).by = "put" /\ Given(w).url \notin Directory =>
                  job[w].req.body = job[w].held

(* However the file changes while it is read, a body that has the type of  *)
(* the file is made of what was read, and a body that is not is not given  *)
(* that type (http.hpp:180-190, 723-728).                                  *)
TypedIsRead ==
    \A w \in Worker : LET read == {k \in DOMAIN Given(w).body : Given(w).body[k] # Zero}
                      IN  Given(w).type = "type of the file" => read = DOMAIN Given(w).body

(* Both, and no reader takes more than the size it reserved.               *)
FilesServed == TypeOK /\ WholeUnlessConcurrent /\ TypedIsRead

(* The handler that answers is the first registered of those for the       *)
(* method that match the URL it is given, HEAD being routed as GET; where  *)
(* there is one, nobody is told 404 (http.hpp:730-760).                    *)
FirstRegisteredAnswers ==
    \A w \in Worker :
        LET method == IF job[w].req.method = "HEAD" THEN "GET" ELSE job[w].req.method
            usable == {k \in DOMAIN registered : /\ registered[k].method = method
                                                 /\ Given(w).url \in registered[k].pattern}
        IN  /\ Given(w).by \in {"handler", "put"} => usable # {} /\ Given(w).nr = Min(usable)
            /\ Given(w).by = "nothing" => usable = {}

(* Whatever becomes of its file, each request is answered: a worker never  *)
(* waits for bytes a file no longer has (http.hpp:183-190).                *)
EveryRequestAnswered == \A w \in Worker : job[w].at # "idle" ~> job[w].at = "idle"

=============================================================================
