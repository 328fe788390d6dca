# A verification project for like-muduo

like-muduo is a C++ network library of one event loop per thread, with an HTTP
server on top. The code modelled is `source/`: `server.hpp`, `http.hpp`,
`log.hpp` and `mutex.hpp`, with the handlers of `test/main.cpp`;
`class/` holds an earlier split of the same classes. The repository has no
documentation: what the code is meant to do is read from its comments, its
assertions and its test programs.

## The system

A process has an acceptor thread, which runs the base `EventLoop` of
`TcpServer`, and worker threads with an `EventLoop` each. A loop waits in
`epoll_wait`, handles the events of each channel, and then runs the tasks other
threads and its own handlers pushed on it (`EventLoop::Start`). A connection
belongs to one worker; everything that happens to it is a handler or a task of
that worker's loop. Threads talk by pushing tasks on each other's loops.

| component | state | operations | what is hard | what makes it correct |
|---|---|---|---|---|
| EventLoop, Eventfd | `_tasks`, the eventfd's counter, the batch being run | `PushTask`, `Awake`, `Monitor`, `RunTasks` | the signal is sent after the lock is released; tasks push tasks | no task is stranded, lost, repeated or reordered; I/O is not starved |
| TimeWheel, TimerTask, Timerfd | the hand, 60 slots of shared pointers, `_tasks` with weak pointers | `Add`, `Update`, `Cancel`, `Tick` | work done in a destructor; several pointers per timer; ticks in bursts | a timer fires once, its timeout after its last refresh |
| Epoller, Channel | `_channels` by descriptor, the kernel's set, `_events` | `Add`, `UpdateOrAdd`, `Remove`, `HandleEvents` | descriptors are reused at once; epoll errors are ignored | the map, the kernel and the connection agree |
| Connection | status, buffers, `_releaseOrNot`, timer | the handlers and the `...InLoop` tasks | bare `this` in tasks and timers; several reasons to release; partial sends | released once, output flushed first, never used after it is freed |
| TcpServer | `_connections` | `NewConnection`, `RemoveConnection`, `Start` | NewConnection talks to the worker in several steps | no connection leaks, every one is established |
| Acceptor, Socket | the listening socket, the kernel's queue behind it | `BuildServer`, `accept` | restart after a crash; clients that give up; no descriptor left | the server is built; every client is accepted; the loop never waits in accept |
| LoopThread, LoopThreadPool | `_loop`, `_next_loop` | `GetLoop`, `ThreadEntry`, `Next` | the thread starts inside the constructor | `GetLoop` returns |
| Buffer | two indices into a vector | `WriteAndPush`, `ReadAndPop`, `GetLineAndPop` | compaction, growth, strict bounds | it is a queue of bytes, and never aborts |
| HttpContext, HttpServer | the state of the parser | `RecvHttpReq`, `OnMessage` | requests arrive in pieces or several at once | the outcome does not depend on how the bytes were cut |
| HttpServer | the vectors of routes, the asset directory | `AddGetMethod` and its like, `IsStatic`, `StaticHandler`, `Dispatcher` | workers read a file another worker writes; the URL is changed on the way | the first route that matches answers; files nobody touches are served and stored whole |
| Util | files | `UrlEncode`, `UrlDecode`, `ValidPath`, `Split`, `ReadFile`, `WriteFile` | boundaries; a file changes while it is read | round trip; a path that leaves the root by its `..` is refused |
| Any | a pointer to a placeholder | constructors, assignment, `get`, the destructor | assignment to itself; ownership | it is a variable with a value of its own |
| logger, mutex | `_log`, the mutex of each sink | `LOG`, `fsync`, `to_file`, `to_console` | several threads, early returns, the sink is replaced | lines are whole and in order; a statement ends |

## Modules

| module | models | abstracts |
|---|---|---|
| `TaskQueue` | nothing: what an `EventLoop` promises | |
| `EventLoop` | `EventLoop`, `Eventfd`, `Epoller::Monitor` | the eventfd's counter to whether it is 0; what handlers and tasks do, but for the tasks they push |
| `EventLoopProofs` | theorems of `EventLoop` | |
| `Timers` | nothing: what a `TimeWheel` promises | |
| `TimeWheel` | `TimeWheel`, `TimerTask`, `Timerfd` | how often a slot holds a pointer to the same timer; closures to the fact that they ran |
| `TimeWheelProofs` | theorems of `TimeWheel` | |
| `ByteQueue` | nothing: what a `Buffer` promises | |
| `Buffer` | `Buffer` | negative lengths |
| `BufferProofs` | theorems of `Buffer` | |
| `LoopThread` | `LoopThread`, `LoopThreadPool`, `TcpServer::Start` | a lock that is taken before it is constructed: who takes it, or sleeps for ever |
| `Values` | nothing: what objects of class `Any` promise | |
| `Any` | `Any` and its placeholders | values to members of a small set, a type to a part of the value |
| `Log` | `logger`, `logMessage`, both sinks, `mutex`, `lockGuard` | a message to who wrote it and its number |
| `LogProofs` | theorems of `Log` | |
| `HttpServer` | `HttpContext`, `HttpServer::OnMessage` and the connection's status under them | the text of a line to one symbol, a length to one, two, a negative or no number; handlers to an echo of the request |
| `HttpRouter` | the routes and files of `HttpServer`, `ReadFile`, `WriteFile`, `PutFile` of `test/main.cpp`, on several workers | URLs to a few strings, a regular expression to the set of URLs it matches, a file to a short sequence; the text of the answer |
| `HttpRouterProofs` | theorems of `HttpRouter` | |
| `Util` | `UrlEncode`, `UrlDecode`, `Split`, `ValidPath`, the query string in `ParseHttpLine` | nothing: texts are sequences of bytes |
| `HttpProofs` | theorems of `Util`, `HttpServer` and `Any` | |
| `Acceptor` | `Socket::BuildServer` and the calls it makes, `Acceptor`; the kernel's queue, its ports in `TIME_WAIT` and the clients | a connection to its state in the kernel |
| `Connection` | `Connection`, `Channel`, `Epoller`, `TcpServer`, one worker loop or none, another thread that keeps a connection and calls it, the kernel's descriptors and the clients | buffers and receive queues to whether they are empty; one worker |
| `ConnectionProofs` | theorems of `Connection` | |
| `TcpServer` | nothing of its own: `Acceptor` and `LoopThread` in one process, which crashes and is started again | what a connection does on its loop |
| `TcpServerProofs` | theorems of `LoopThread` and of `TcpServer` | |
| `MCEventLoop`, `MCTimeWheel`, `MCConnection`, `MCHttpServer`, `MCHttpRouter`, `MCUtil` | constants for TLC | |

`Connection` builds on `EventLoop` and `TimeWheel` by what they promise. Its `tasks` and
`pending` are those of `EventLoop`; that a task pushed is noticed is
`NoLostWakeup`, so `Monitor` is enabled whenever the vector is not empty. Its
`left` and `valid` are those of `Timers`, which `TimeWheel` implements. The
message callback of `Connection` leaves open what is answered; `HttpServer` says
it, for one connection without timers and failures, with its input a sequence by
`BufferIsByteQueue`; and `HttpRouter` says what a handler does, once a request is
whole. `TcpServer` EXTENDS `LoopThread` and INSTANCEs `Acceptor`: it has the
whole way of a client to its loop, from the constructor of the server on, and
ends where `NewConnection` of `Connection` begins. `Values` and
`Any` are about objects that are everywhere and interact with nothing; they are
proved in `HttpProofs`, since `Any` is what keeps the context of `HttpServer` for
its connection, and have no run.

### How state and actions correspond to the code

*EventLoop.* `PushTask(th, t)` is the critical section of `PushTask` and
`Awake(th)` the write that follows it; a thread is in `awaking` in between, and
the loop's own thread does nothing else meanwhile. `Monitor` is the return of
`epoll_wait`, `ReadEventfd` the handler of `_event_ch`, `BeginHandler` and
`EndHandler` any other handler, `SwapTasks`, `BeginTask`, `EndTask` and
`EndBatch` are `RunTasks`. A handler or task may push tasks between its
beginning and its end, up to the bound `MaxQueue` of the vector's length.

*TimeWheel.* `clock` has the ids with a pointer in each slot, `entries` the keys
of `_tasks`, `timeout` and `valid` the members of the `TimerTask`. A `TimerTask`
exists while some slot has its id. `Tick` reads the timerfd and then does one
`Increment` per expiration; no other operation comes in between because all of
them run in the loop's thread. The mutants sit next to the definition each one
replaces, marked `(Mutant)`.

*Connection.* A handler is an operator from a record (the connection, the epoll
set, the socket, the tasks it pushed) to the set of its outcomes, composed in
the order of the calls in the code; `HandleEvents` is the action that applies
`Channel::HandleEvents` to one active channel. Each task is an action. `file`
says whose socket is open at a descriptor, `channels` what the `_channels` map
finds there, `registered` and `interest` what the kernel has. `Freed(c)` holds
when no shared pointer to the connection is left. What a careless step would do
to memory is not modelled: `fault` records the first such step and the process
stops. `program` says how the library is used, and is one of the constant
`Programs`: with workers or without, with timers, with clients that reset, with
which calls of another thread. Without workers the only loop is the base loop:
`NewConnection` is one of its handlers, `RunInLoop` a plain call, and
`RemoveConnection` runs inside `ReleaseInLoop`. The program also says what its
message callback may do: any callback leaves some of the input or none, sends or
not, and shuts down after it sent; with `silent` it may shut down having sent
nothing, as the EchoServer of the tests does when the data begins with a 0, and
again in each of the nested calls that `ShutdownInLoop` makes, up to that number;
with `empty` it may send no bytes and go on. `held` is a connection the
application keeps in another thread (`Hold`, `Drop`); `Call` is one of the
program's calls on it, which pushes the task that `CalledInLoop` runs. A call made in the loop's thread
is part of the handler that makes it.

*LoopThread.* `pc` is where the base thread is in `Start`, `Create` and
`GetLoop`, `thread[i]` where the new thread is in `ThreadEntry`. Members are
constructed in the order of their declaration, `_thread` before `_mutex`
(`Launch`, `Construct`). Any thread may get to its lock in between, and then it
takes the lock or sleeps for ever; `overtook` remembers those that did. `wait` may
return spuriously and looks again.

*Any.* `dummy` has the pointer of each object, `heap` the value at each address;
`Delete` and `new` are steps of the same action, as in the code. `Held(x)` is
the value an object has, for `Values`.

*Log.* `pc` is where a thread is in its statement: a message is `made` and given
to the sink that is current when the statement ends; `fsync` is `Lock`, `Open`,
`Text`, `Newline`, `Unlock`. `out` is what was written in each place. `Switch`
is `to_file` or `to_console`, at any moment. The sink is reached by a bare pointer:
if somebody is inside `fsync` the old one is destroyed in use, and the model stops
with `fault`.

*HttpRouter.* `AddMethod` is any of the four functions that register a route,
`registered` a history of them. A request on worker w goes from `route` to a
file (`RouteStatic`, `Open`, `Read`), to a handler (`Dispatcher`), or to a
handler that writes a file (`Truncate`, `Write`); between two of these steps other
workers run. A read is a symbol at a time, which is more than `ifstream` does.
`quiet` and `held` are history: whether anybody touched the file, and what it held.

*Util.* The functions are recursive functions on sequences of bytes. The state
is one text, which grows, and the values of a query; the references are written
as sets and quantifiers over the whole text. `UtilSpec` and its parts are named so
because `HttpProofs` has them beside those of `HttpServer`.

*Acceptor.* `Start` is the constructors of `TcpServer` and `Acceptor`, with
`BuildServer` composed of its calls in their order; `Wait` the event, `Accept`
the handler. `Crash` ends the process at any moment; the kernel resets what was
not accepted and keeps what the process ended. When the socket could not be bound,
or `listen` fails, the assertion in the constructor fails, and `Start` is tried
again. A client that has left (`Leave`) keeps its descriptor of the server until
the server closes it (`Close`), which nothing requires it to do.

*TcpServer.* Each of its actions is one of `LoopThread` or of `Acceptor`, guarded by
what the process is at: the pool is configured and created after the
construction, by the thread that runs the base loop afterwards, while clients
already connect. `NewConnection` is both, `Accept` and the dealing of a loop.
`Crash` takes the pool with it. `server = "wait"` is a process that exists: the
base loop in `epoll_wait`, or the base thread before its loop. `Release` is the
release of a connection, which gives its descriptor back.

*Buffer.* `buffer`, `read_idx` and `write_idx` are the members. `WriteAndPush`
is one action with `EnsureWrite` and `MoveWriteOffset` in it, each read is a
`TakeFirst`. `in` and `out` are what the last operation was given and returned,
for `ByteQueue`; `peak` is a history variable for the bound on growth.

*HttpServer.* `http` is the context together with what is left in `_in_buffer`,
the answers and the status; the parser's functions map it to the next one, with
the names of the code. `HandleRead(n)` gives the next n symbols to `OnMessage`,
however many requests they end. A Content-Length that is negative is a `size_t`
which no stream reaches; one that is no number makes `std::stol` throw, and the
process is gone (`Thrown`). `OnMessage` is recursive for two reasons, the
loop and `Shutdown`: in the loop's thread `Shutdown` runs `ShutdownInLoop` at
once, which calls `OnMessage` again on what is left. `Answers` is what the
answers to what has arrived should be. It is written from the shape of a request (a request line,
headers, an empty line, a body) and looks at the whole stream at once; it has
in common with the parser only how a request is answered.

## Runs

| run | question | properties | bounds |
|---|---|---|---|
| `event_loop` | does the eventfd protocol implement a queue of tasks that is always served? | `NoLostWakeup`, `RunsInOrder` (`TaskQueue`), `KeepsPolling` | three threads, two tasks, a vector of up to three, two channels and `epoll_wait` returning two events, so that the eventfd's may be left out |
| `time_wheel` | does the ring implement independent countdowns? | `EntriesAreAlive`, `CountsDown` (`Timers`), `TimersEnd` | three slots, two timers, timeouts of one tick to a revolution, up to four expirations at once (more than a revolution) |
| `connection_live` | does everything that begins end? | `ShutdownCompletes`, `EveryConnectionServed` | two connections on one descriptor, with a worker or without, with callbacks that answer or may shut down silently |
| `connection_server` | is each connection released once, after its output, and never used afterwards; do the tables agree; do calls of other threads hold? | `NoFault`, `ReleasedOnce`, `FlushedBeforeClose`, `FoundIsAlive`, `ConnectedIsFound`, `WatchedWhileUnsent`, `FreedIsClosed`, `TimersAsAsked`, `StatusAdvances`, `TypeOK` | fourteen programs: with a worker or without, three connections on one descriptor, or two on two, or two on one with message callbacks that shut down silently, once or within one another; two connections on one descriptor with timers, and clients that reset or an acceptor that is held up; with `Send` of another thread; one connection with `Send` and callbacks that send nothing, with `CancelInactiveRelease` and `Send` amid timers, or with all calls but those of timers. A timeout of two ticks, a worker late by at most one, two calls |
| `connection_dangling` | do tasks find their connection alive? (violation) | `NoDanglingTask` | one connection with a timer, prompt acceptor, no resets |
| `connection_lazy` | does the timer release a connection whose client is gone? (violation) | `LazyLinkReleased` | the same |
| `server` | is every client accepted and dealt to a loop that runs, through crashes and starts? | `NoLostNotification`, `DealtEvenly`, `NeverBlocks`, `EveryClientServed` | three clients, a queue of two, two descriptors, two starts, pools of up to two workers, either of which may overtake its constructor |
| `buffer` | is the vector a queue of bytes, and how large does it get? | `NeverAborts`, `BoundedByPeak`, `IsByteQueue`, `LineComesWhole` | an initial size of three, writes of up to two bytes, seven elements: growth happens, and compaction at every offset; bytes are 0, the newline or another |
| `http` | does it matter how a stream is cut, and do closing connections close? | `AnswersAsInOnePiece`, `CleanContext`, `EndsAfterClose` | all pairs of eleven kinds of requests and faults, and triples that begin with two good requests, cut at every symbol; a line limit of two symbols; negative lengths as of 16 bits |
| `http_router` | which handler answers, and what is read and stored when workers share a file that may be removed? | `FirstRegisteredAnswers`, `FilesServed`, `EveryRequestAnswered` | every registration of two routes (of three patterns) and one request, or of one and two requests at a time; seven kinds of requests; each file missing or of two symbols |
| `util` | do the functions compute what they should? | `EncodingIsSound`, `SplitsInRuns`, `ValidIsInside`, `QueryComesBack` | every text of up to five of the twelve bytes they tell apart, every query of up to two parameters of seven words |
| `log` | are lines whole and in order, and do statements end? | `LinesAreWhole`, `OwnOrder`, `StatementsEnd` | two threads with three messages each, three sinks |

A type invariant that is not among the properties of a run is proved, or is part
of one that is: of `CleanContext` in `HttpServer`, `FilesServed` in `HttpRouter` and
`NeverBlocks` in `Acceptor`.

One descriptor for two connections is the case in which a descriptor is always
reused. Two connections are enough for one to be stale while the other is new,
which is what the properties of the epoll map are about; three are used where
the state space allows. A call of another thread needs one connection to be
late for it, and a second to be mistaken for it; two calls reach every order of
two different ones and a repetition. A timeout of two ticks distinguishes a refreshed timer
from one that is not. The vector and the batches of `Connection` are not
bounded: a connection pushes a few tasks per round of events.

What the runs show:

* The eventfd protocol is right. The property that holds it together
  (`NoLostWakeup`) rests on the order "read the eventfd, then swap the vector"
  within one round of the loop.
* The wheel counts correctly within its capacity. Nothing checks that a timeout
  is within it.
* `NoFault` is three statements with their conditions. `NoDanglingTimer` holds
  unless the application enables or releases from another thread, because every
  event of a connection refreshes its timer, so that a released connection has a
  whole timeout left for the cancellation, which runs one batch later. It depends
  on the worker never being late by a timeout (`NeverLate`): with
  `MaxLate = Timeout` TLC finds a closure that runs on a freed connection, and a
  stale release that unregisters the next owner of the descriptor.
  `EstablishedInTime`, the assertion in `EstablishedInLoop`, holds unless the
  acceptor is held up for a timeout inside `NewConnection`, or the worker for one.
  Without timers, resets and calls there is no fault at all (`Graceful`), unless a
  message callback shuts down without a word in the `ShutdownInLoop` of such a
  shutdown.
* That exception is real. The EchoServer of the tests sends a C string and shuts
  down. If the data begins with a 0 the string is empty, and `ShutdownInLoop` finds
  no output to wait for and pushes a `Release`; if more than the 1024 bytes of its
  array are there, `ShutdownInLoop` has called it again before, and that call has
  pushed one too. The second finds a connection that may be freed:
  `NoDanglingTask` is violated by the program `Long` without any timer. One such
  level is harmless, and `ReleasedOnce`, `NoFault` and `FlushedBeforeClose` include it.
* With such callbacks excepted, and without timers and resets, the connection's life is right. With either, a
  connection may be released twice, because `Release` queues a task each time it
  is called and nothing remembers that one is queued. The properties of the tables
  hold with both, up to the first fault. That a connected one is found
  (`ConnectedIsFound`) depends on the second release coming in the batch of the
  first: `Epoller::Remove` goes by the descriptor, and a release that comes when
  the descriptor has a new owner removes the new owner's channel. Nothing comes
  so late if no other thread calls `Release` or enables timers and the worker is
  never late by a timeout (`NoLateRelease`); in other programs the property is
  stated as long as nothing was released twice (`OneRelease`).
* A `Send` of another thread is harmless as long as the caller keeps its pointer
  until the task has run: the status tells that the connection is gone, and its
  channel is never registered again. If the pointer is dropped before, the task
  has a bare `this` of a freed object. `Shutdown` is not harmless: after the
  release it sets the status back and registers a closed descriptor, and
  `ConnectedIsFound`, `FoundIsAlive`, `ReleasedOnce` and `FreedIsClosed` are stated for
  programs that do not call it. So is `WatchedWhileUnsent` (which in one more case claims only half: a program that
  sends nothing and goes on is watched for room without output): once the descriptor has a
  new owner, the closed connection's `UpdateToEpoll` overwrites the owner's mask. What `Send` accepts while a release is queued is
  dropped, so that `FlushedBeforeClose` speaks of programs without calls.
* `CancelInactiveRelease` of another thread holds amid refreshes and ticks
  (`TimersAsAsked`), as long as timers are not enabled again (`NeverEnabled`).
* Without workers the closing order is right although the last pointer is
  dropped in the middle of `ReleaseInLoop`: the task has been copied, and nothing
  of the connection is used after `RemoveConnection`.
* The hand-over of a loop is right if the mutex is there in time: the flag
  `_loop` is read without the lock once, and that answer is only used when it
  is not null.
* A route is found in the order of registration, a file before any route. A file
  that changes while it is read is answered with a part, or with zeros, and 200;
  it never has the type of the file then, except when what was read is longer
  than the file has become.
* `ValidPath` accepts every path that stays inside, and refuses every other unless
  it has a part `.`, which the code counts as a name: `./..` is accepted, and
  `ValidIsInside` claims nothing of such paths. A query is cut before it is decoded, so that encoded separators
  come back as values.
* A connection that breaks while it waits in the queue leaves `accept` with
  nothing: only the non-blocking socket keeps the loop from waiting for the next
  client.
* A client is accepted as long as the table of descriptors has a free one again and
  again, which is a condition of `EveryClientAccepted` and nothing the code brings
  about: a client that leaves does not free its descriptor (`connection_lazy`), and
  without the condition TLC finds a client that waits for ever.
* A buffer never needs its last element: `EnsureWrite` and `MoveWriteOffset` use
  the same strict comparison, and relaxing the first aborts the process. A line
  with a 0 in it is cut there, because `GetLine` returns a C string;
  `LineComesWhole` is about lines without.
* The HTTP parser does not care how its input was cut, with one exception: a
  request line that arrives in pieces leaves `_resp_statu` at `RECV_HTTP_LINE`,
  which is 0 (`http.hpp:531`), and the request is answered with status 0.
  `AnswersAsInOnePiece` reads that as 200 (`StatusRead`) and holds for the rest.
* Requests behind one that closes the connection are answered as well, if they
  have arrived or arrive before the output is flushed. `AnswersAsInOnePiece`
  speaks of the answers up to the first that closes.

### Disagreements

* `connection_dangling`: the comment at `server.hpp:1109` says that the tasks
  ensure thread safety; a connection whose timer fires in the round of events
  that flushes its last output is released twice, and the second time it may be
  freed.
* `connection_lazy`: the comment at `server.hpp:679` says that timers are there
  to disconnect lazy links; a client that shuts down its end is never
  disconnected, since `recv` returning 0 is not told from having nothing to read
  and the event refreshes the timer. The earlier `class/connection.hpp` did
  treat 0 as the end.

The rest has no run of its own. It is in the models, unless noted, and a
property shows it when its condition is dropped or a program is added to
`ServerPrograms`:

* `assert(_status == CONNECTING)` at `server.hpp:934` fails when the acceptor's thread
  stalls for a timeout between lines 1107 and 1109 (`EstablishedInTime` without
  its condition).
* `EnableInactiveRelease` after `CancelInactiveRelease` finds the timer that is
  cancelled, but not gone, and refreshes it (`server.hpp:921`). The connection has
  no timer that fires, for as long as it is used (`EnabledIsArmed`, in a program
  with both calls).
* `EnableInactiveRelease` of another thread, in the round of events in which the
  timer fires, arms a timer whose closure has a bare `this` (`server.hpp:924`); it
  fires when the connection is freed (`NoDanglingTimer`, with that call).
* `UpgradeInLoop` replaces every callback but the message callback
  (`server.hpp:969`); the comment at `class/connection.hpp:197` warns of events
  that are handled by an expired protocol.
* The thread of a `LoopThread` is constructed before the mutex and the condition
  variable it uses (`server.hpp:751-753`); one that is fast leaves `GetLoop`
  waiting for ever (`LoopsHandedOver` without `overtook`).
* `IsStatic` changes the URL before it knows that there is such a file
  (`http.hpp:710`); the comment at `http.hpp:713` says the reverse.
* `UrlEncode` prints a signed char with `%02x` into four bytes (`http.hpp:229`);
  everything beyond ASCII becomes `%ff`. (Not in the model.)
* `BuildServer` calls `ReuseAddress` after `Bind` (`server.hpp:148`), where it has no
  effect on it; the assertion at `server.hpp:1052` fails when the server is started
  again at once (`server = "aborted"` is reached).

### Fairness

`EventLoop`: the loop's thread runs and so does a thread inside `PushTask`;
handlers and tasks return. `TimeWheel`: seconds pass and the loop gets to its
timerfd. `Connection`: both threads run and seconds pass; and a client that is
owed output reads again and again, as strong fairness of polling with room in
every socket and of a send that takes everything. Without the last, a client
that stops reading keeps its connection, which is the code's behaviour.
`HttpServer`: the loop runs, and a client that is owed answers takes them.
`Log`: a statement that was begun goes on, and a thread that waits for a lock
that is free again and again obtains it. `HttpRouter`: a worker that has a
request goes on with it; nothing is assumed of who removes files. `TcpServer`:
somebody starts the process again, as often as `MaxStarts` allows; the base thread
and the workers run, and locks are obtained in the same sense; `listen` does not fail
for ever; clients try again, and `TIME_WAIT` expires. Neither a crash nor the end of
a connection is ever required: that a descriptor becomes free again and again is
the premise of `EveryClientAccepted`, since nobody is accepted while none is.

## Proofs

`EventLoopProofs` proves for any set of threads, tasks and channels and any
bounds:

* `TypeCorrect`: the type invariant.
* `WakeupCorrect`: `NoLostWakeup`. The invariant is inductive by itself once it
  speaks of the phases `monitor` and `run` only: in `handle` the eventfd may have
  been read, but the swap is still to come.
* `LoopIsTaskQueue`: every step of the loop is a step of `TaskQueue` or leaves
  its queue, which is the batch followed by the vector, as it was. It needs
  `PhaseOK`, that a batch exists only in `RunTasks`, so that the swap overwrites
  nothing, and two lemmas about appending to a suffix and taking the head of a
  prefix.

`TimeWheelProofs` proves for any capacity, any set of timers and any timeouts
from one tick to a revolution:

* `TypeCorrect` and `EntriesCorrect`: the type invariant, and that an entry of
  `_tasks` has a living `TimerTask`, since the destructor behind the last
  pointer removes the entry.
* `WheelIsTimers`: every step of the wheel is a step of `Timers` or leaves it as
  it was, when `left` is the number of ticks to the farthest slot with a pointer
  to the timer. Two facts carry it: what a move of the hand does to the distance
  of every slot, by cases instead of by remainders (`HandMoves`); and that a
  refresh puts its pointer at least as far as those there are. The second needs
  the strengthening `LastWithinTimeout`, proved invariant first: no pointer is
  farther than the timer's timeout. A pointer that is would keep the timer
  alive beyond the timeout of its last refresh.

`BufferProofs` proves for any initial size and any lengths:

* `TypeCorrect` and `NoAbort`, together: the indices are in order, and
  `write_idx` stays below the capacity. Each needs the other.
* `SizeBounded`: when the vector grows, what it holds and what is to be written
  fill it, so that its new size is at most what it then has to hold plus twice
  the write.
* `BufferIsByteQueue`: every step puts or takes. The lemma `EnsuredRoom` says
  that compaction and growth leave the unread bytes as they are, `Written` and
  `Taken` what the operations do to them.

`TcpServerProofs` proves of `LoopThread`, for any number of threads:

* `TypeCorrect` and `DealingCorrect`: the types, and that `Next` deals to loops
  that exist, in turn, whatever the race. `PoolInv` says which threads `Create` is
  done with, and that the loops before `_next_loop` were given one connection more
  than those behind it.
* `ExclusionCorrect` and `HandOverCorrect`, of the threads that do not overtake
  their constructor: who is where determines who holds the mutex, and `_loop` is
  set by the thread that is past its assignment. Nothing is assumed of the others.

and of the server, for any number of workers, clients and starts, any backlog and
any number of descriptors:

* `ServerDealsEvenly` and `ServerLosesNoNotification`: what is shown of one life of
  the process holds in every life of a server that crashes. A step of the server
  is a step of the pool, or leaves it alone, or makes it new (`PoolOrCrash`), so
  that the invariants carry over without being proved again.
* `ServerNeverBlocks`: the base loop never waits in `accept`. `ListenInv` says that
  the socket of a process that runs does not block, that the queue has exactly
  the clients that wait, each once, and counts the open connections, which are
  finitely many; `Appended`, `Removed` and `Shortened` say what the operations do
  to a queue without repetitions.

`ConnectionProofs` proves for any connections and descriptors, any timeout, any
lateness of the worker and any set of programs:

* `TypeCorrect`: the type invariant of the whole composition.
* `FoundIsNeverStale` and `OutputIsWatched` (`FoundIsAlive`, `WatchedWhileUnsent`): no
  event reaches a channel that was released or that belongs to an earlier owner
  of the descriptor; the mask asks for room while there is output, and, in programs
  that do not send nothing and go on, otherwise only when a release is queued.
  `OwedInv` is the second half; that a `Release` leaves the queue only to take the
  connection to its end makes it inductive, with `KeptInv`, since a task of a freed
  connection would leave the queue and change nothing.
* `ConnectedIsReached` (`ConnectedIsFound`): a connected one is found by its
  descriptor, with its mask, if no release comes late or as long as none came
  twice.
* `TimersDoAsAsked` (`TimersAsAsked`): when no operation on its timer is queued, a
  connection has a timer that will fire exactly if it asked for one last.
* `NothingDies` (`NoFault`): all three statements, for any timeout and lateness
  that meet their conditions.
* `NothingLeaks` (`FreedIsClosed`): an object goes after its release, and the map
  keeps none that is closed.
* `NeverGoesBack` (`StatusAdvances`): no step takes a connection back from its end.
* `ReleasedAtMostOnce` and `FlushedFirst` (`ReleasedOnce`, `FlushedBeforeClose`): in
  graceful programs a connection is released once, and flushed first, whether the
  callback shuts down after it sent or without a word.

A handler is a composition of operators on records, with branches, so the first
part proves of each operator what its results are like when its argument is
(`Runs` for the types and the tables, `Sound` for the object). The second part
reduces the actions to kinds of steps, by what they do to the objects, the
tables, the queues and the owners of descriptors, and the invariants are shown to be kept
by the kinds; no invariant has to be proved for each of the twenty-odd actions
again. Each invariant rests on those before it:

* `LifeInv`: the types; that a connection in use has a descriptor of its own, and
  one that was not accepted has nothing; that no queue, table or timer names a
  connection that was not accepted.
* `FoundInv`: a channel that is found is that of the owner of its descriptor,
  which is not released, with the mask it has, and the kernel watches exactly
  the descriptors that have one. A release removes the channel and closes the
  descriptor in one task, which is why no step comes between.
* `KeptInv`: who keeps the object alive. As long as it is not released there is the
  map, or the base thread inside `NewConnection`; its removal from the map is
  queued only by its release; and a map that has a closed connection has its
  removal queued.
* `GraceInv`, for graceful programs, speaks of the tasks that are
  queued: a connection has at most one `Established` and one `Release` in the
  vector and in the batch; a `Release` is pushed only in the round of events in
  which the connection has no event left, and while it is queued the connection
  is `DISCONNECTING` and, without calls of other threads, has no output. That nobody
  asks a second time rests on the last two: no event of the same round is left to
  ask, and the batch is run before there is another round. Counting alone would not be
  inductive. TLC checked `GraceInv` on the programs of `connection_server` before it was
  proved.

The rest is about the order of what is queued. `Line` is the batch with the
vector behind it; `Moved` says of a step which tasks of a connection leave the
line at its head and come to its end, and that whatever came first still does
(`First`). One lemma for each action says what it does to the line (`Turns` lists
them), and the invariants follow from those:

* `ArmInv`: enabling the timer comes before anything else that is asked of the
  connection, what it adds comes before every release and every cancelling, and a
  timer that is armed although the connection does not want one has its `Cancel`
  in the line. `CancelInactiveReleaseInLoop` looks for the timer before it pushes
  that `Cancel`; that it finds one which is still to be added, or which was added
  meanwhile, is what the order rules out.
* `LateInv`, for programs where nothing releases late: a `Release` runs in the
  batch that follows the round of events it was pushed in (`AskedInTime`); if the
  timer is armed, a refresh or a `Cancel` is in that batch with it (`Paired`); so
  the timer of a released connection is cancelled before the next tick, or has its
  whole timeout left (`Defused`), and a tick passes fewer seconds than that.
* `EstInv`: the task that establishes a connection comes once and before any
  release. Until the acceptor has pushed it the timer has not fired, because with
  a prompt acceptor only seconds that passed before count, fewer than a timeout.
* `GoneInv`: a connection that is closed and has a second `Release` in the batch
  has no channel under its descriptor, and no task of that batch establishes
  another connection with it. With it `ReachInv` is inductive: an established
  connection is found, since a release removes its own channel, or none. Without
  workers it needs that nothing is accepted while a batch runs (`AcceptsHere`).

`LogProofs` proves for any threads, messages and sinks:

* `LinesCorrect`. The invariant says that, until a sink was destroyed in use,
  everybody inside `fsync` is at the current sink (`OneSink`), that one of them is
  past the lock (`OneHolder`), and that a line without its newline is the last one
  and belongs to that thread (`HalfIsMine`).
* `OrderCorrect` (`OwnOrder`): what is written has the number of a message that was
  begun, and of an earlier one than the current as long as that is not written
  (`EarlierWritten`).

`HttpRouterProofs` proves for any workers, requests, routes and files:

* `FirstAnswers`: the handler that answers is the first registered. `RoutersOK`
  says that each router has the routes of its method in the order of their
  registration, all of them; `FirstMatch`, that the first match in such a router is
  the first of all the routes that match.
* `FilesCorrect`: files are served and stored whole, unless they are changed in
  the meantime. The invariant is about one job at a time (`JobOK`); while a job is
  quiet, what was read is the beginning of what the file held (`Whole`). A step is
  that of one job (`OneJob`), or it changes a file, and then the jobs that had it
  are not quiet any more (`FileChanges`).

`HttpProofs` proves of the functions of `Util`, for texts and queries of any length
over any bytes:

* `EncodingCorrect` (`EncodingIsSound`): decoding undoes encoding of seven-bit
  texts, and a code has no separator. The code of each byte is read back as one
  step of `UrlDecode`, whatever follows it.
* `SplitCorrect` (`SplitsInRuns`): `Split` gives the maximal runs without the
  delimiter. What is left to split from an offset gives the runs that begin there
  or later, in order (`InOrder`); the first is found by `find`, and the others are
  those from behind the delimiter.
* `ValidCorrect` (`ValidIsInside`): the level that `ValidPath` counts is the
  number of parts that are no `..` minus those that are, as long as it never was
  negative; and the runs that end by a place are the first parts that `Split` gives.
* `QueryCorrect` (`QueryComesBack`): encoded items joined by `&` are split into
  those items, since none has a `&` in it or is empty, and each is parsed into its
  name and value; a repeated name keeps its first value.

Of `HttpServer`, for every set of streams over the symbols of the model, of any
length that a `size_t` can count, and however a stream is cut:

* `AnswersCorrect` (`AnswersAsInOnePiece`) and `ContextCorrect` (`CleanContext`). The
  properties say nothing of the context in the middle of a request, so neither is
  inductive. `IInv` is: there is a position i of the stream such that the context
  and the input buffer together hold exactly what has arrived from i on (`Open`: the
  context waits for a request line, a header or a body, with the request that the
  lines from i on describe so far, and what it has not read yet is unread); and
  either nothing is owed for what came before i, however the stream goes on
  (`Exact`: the answers given, followed by the reference's answers from i, are the
  reference's answers to the stream), or an answer that closes was given (`Ended`:
  up to it the answers are the reference's, whatever arrives later). `Exact` speaks
  of all that may still arrive, since a request that is incomplete now has its
  answer later.
* The parser is followed function by function: what `GetLineAndPop` finds at a
  position (`LineKinds`), what each of `RecvHttpLine`, `RecvHttpHead`, `RecvBody` does
  to a context that is open at i (`RecvLine`, `HeadRead`, `BodyRead`, put together in
  `RequestRead`), and what the rounds of `OnMessage` do (`MessageRead`). On the side
  of the reference, `AnswersStep` says that its answers from i are the one to the
  request at i and those from its end, and that more input does not change what
  was answered.

`RecvHttpHead`, `OnMessage`, `UrlDecode`, `Split`, `Answers` are recursive functions.
That such a function exists and obeys its rule is the lemma `Recursion`, from the
well-foundedness of a size: the symbols that are unread, or the rest of a text. For
`OnMessage` this is the proof that its loop ends: every request that is read
completely takes some of the input (`ReqShortens`). What the function computes is then
shown by induction (`NumbersBySteps`, `SizesBySteps`), which is written with a set of
numbers in the place of the predicate, and rests on `WFMin` of the library: a set of
numbers that is not empty has a least one.

Of `Any`, for any sets of objects, addresses and values with
`CellAssumption` and `ValueAssumption` (what marks a null pointer, free memory and
an object that is gone is no address and no value), which are hypotheses of its
theorems:

* `OwnershipCorrect`: nothing is shared, leaked or used after it was deleted.
  Each of the seven operations is a step of one of three kinds (an object gets a
  new placeholder, is left without, or its placeholder is set), and what is
  proved is proved of the kinds.
* `ImplementsValues`: every step is one of `Values`, where an assignment takes
  the value the other object has at that moment, its own included.

What the proofs assume of the constants is named: `BoundAssumption`,
`ServerAssumption`, `TimeoutAssumption` and the like say that bounds are natural
numbers, that no stream is as long as a `size_t` can be, that a queue or a table has room for one, that files and bodies are
sequences of symbols, and that markers for nothing (`NoTask`, `NoConn`) are not
members of the set they are added to.

Liveness is only model-checked (`KeepsPolling`, `TimersEnd`, `ShutdownCompletes`,
`EveryConnectionServed`, `EveryClientServed`, `EndsAfterClose`, `EveryRequestAnswered`,
`StatementsEnd`): fairness and ENABLED are out of the proof system's reach. Every
invariant of a passing run is proved, and so is every action property and every
refinement, the latter for the safety part of the abstract specification. Several
properties of `Connection` have a condition on the program; of programs that do not
meet it there is only what TLC found, above. The theorems of `HttpServer` are for
the symbols of the model and its line limit of two symbols, which are definitions
and no constants: a line has at most a text and its newline, or is too long.

## Not modelled

* `RunAfter`: a timer of the base loop, which is a `TimeWheel` like any other,
  with an id from the counter that connections use.
* `_timer_wheel` beyond its capacity of 60: `TimeWheel` assumes timeouts from one
  tick to a revolution.
* Of `Buffer`, `Clear` and `ReadAndPop(std::string*)`, and of `TimeWheel`,
  `RemoveInLoop`: nothing calls them.
* The text of an answer, the tables of statuses and types, the time in a log
  message, `netAddr`: formatting and look-ups.
* A request line with an empty URL, whose `back()` is undefined
  (`RequestAssumption`), and prints to `std::cout` beside the logger.
* What the callbacks of an application do, beyond what `Connection` says of the
  message callback, and what a connection does with the callbacks `SwitchProtocol`
  left it with.
* The errors of the eventfd's and the timerfd's calls: one that was interrupted
  changes nothing, or loses a signal (`EINTR` in `Awake`), which a non-blocking eventfd
  does not return; any other aborts the process. A number in a Content-Length that
  is beyond the range of a `long` throws like a word.
* What becomes of the threads that are writing to a sink which `to_file` or
  `to_console` destroys: nothing in the repository switches while threads log.
* Bytes beyond ASCII in `Util`, where the code has the disagreement above.
* `class/`, an earlier split of the same classes with a `CircleBuffer` nothing
  uses; clients, load generator and pages. Of `test/`, the handlers of
  `main.cpp` are modelled, and the message callbacks bound those of `Connection`.

## Plan

The order in which the modules came was that of the system's promises: the loop
and its tasks, timers, connections, buffers, the HTTP parser; then the start of
the workers, calls of other threads, routes and files, and the helpers. What
would come next:

1. Several workers in `Connection`, which share the descriptors and the server's
   map, and then `TcpServer` with `Connection` in the place of `A!Close`.
2. `RunAfter`, with ids from the counter of connections.
