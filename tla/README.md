# TLA+ models of httpserver-cpp

A verification project for the HTTP server library in this repository: TLA+
modules for its parts, TLC configurations that check them on small instances, and
TLAPS proofs for every value of the constants. Paths below are relative to the
repository's root.

## 1. The system

The library is an asynchronous HTTP/1.1 server on Boost.Asio and Boost.Beast. The
application registers handlers for paths, calls `run()`, and answers each request
with an `HttpResponseWriter`, at once or later and from any thread.

| Part | State | Operations | Talks to |
|---|---|---|---|
| Server (`src/http_server_impl.cpp`) | `io_context_`, `acceptor_`, `io_thread_pool_`, `statistics_`, `router_` | `registerHandler`, `run`, `stop`, `doAccept`/`onAccept`, `getHttpStatistics` | makes sessions, runs their handlers on its threads |
| Session (`src/http_session.cpp`) | `stream_`, `buffer_`, `current_request_id_`, its reference count | constructor, `run`, `doRead`/`onRead`, `processRequest`, `writeResponse`/`doWrite`/`onWrite`, `doClose`, destructor | Beast's stream and deadlines, the router, the handlers, the statistics |
| Messages of a session (same file) | `request_`, `response_`, used again for every request | `processRequest`, `writeResponse`, `compressData` | `HttpRequest`, `HttpResponse` of the application |
| Reader of a session (same file) | `buffer_`, kept from one `async_read` to the next | `doRead`, Beast's parser | the byte stream of the peer |
| Response writer (`src/http_response.cpp`) | a reference to the session | `send`, its end | called by any thread |
| Router (`src/http_router.h`) | a tree of path segments with handlers | `insert`, `search` | filled before `run()`, searched by all IO threads |
| Statistics (`src/http_statistics_internal.h`) | nine atomics | increments, decrements, reset, snapshot | sessions update, `run()` resets, the application reads |
| Logger (`src/http_log.cpp`) | `init_flag`, a local static, spdlog's default logger with its level and queue | `initLog`, `setLogLevel`, the log macros | everything |

What makes it hard:

* A session is a chain of completion handlers on a strand, and the chain leaves the
  strand at one place: `send()` starts the write on the thread that calls it.
* Each session is kept alive by references only: one per pending operation, one for
  the running frame, one per writer. Whoever drops the last one runs the destructor.
* Deadlines race completions: when Beast's timer fires the socket is closed and the
  operation reports `timeout`, even where the data came at the same moment.
* `request_` and `response_` are used again, so what one path through the code forgets
  to clear shows in a later request.
* `run()` and `stop()` have no lock. Sessions and queued handlers survive a `stop()`
  in the stopped `io_context` and go on in the next `run()`.
* Sessions refer to parts of an `HttpServerImpl` they do not own. What keeps it alive is
  the accept that is bound to it.
* The statistics are separate atomics: a reader sees each at another moment.
* `buffer_` is bounded, and carries the bytes of pipelined requests from one read to the
  next.
* The logger may be asynchronous, with a bounded queue on which IO threads block.

PROJECT.json lists each of these at the line where it bites, under "hazards".

## 2. The modules

| Module | Models | Kind |
|---|---|---|
| `HttpSession` | the life of any number of sessions on the IO threads, with writers, deadlines, peers and statistics | state machine |
| `HttpConnection` | what a connection promises its peer | abstract specification |
| `HttpExchange` | the data of one connection: what `processRequest` and `writeResponse` do with the two message objects | state machine |
| `HttpRouter` | the path tree, one step per turn of the loops | state machine |
| `HttpServer` | `run`, `stop`, accepting, the thread pool, restart | state machine |
| `HttpStatistics` | the counters, each access a step: sessions, the reset in `run()`, `getHttpStatistics()` | state machine |
| `HttpReader` | how the byte stream becomes requests through `buffer_` | state machine |
| `HttpLog` | `initLog`, the level, and logging from many threads | state machine |
| `MC*` | constants and symmetry for TLC | instances |
| `HttpSessionProofs`, `HttpSessionStats`, `HttpRouterProofs`, `HttpExchangeProofs`, `HttpServerProofs`, `HttpStatisticsProofs`, `HttpReaderProofs`, `HttpLogProofs` | theorems | proofs |

Each module also holds a few operators marked *Mutant*: variants of a definition with
a plausible mistake in it. They are not part of the specification; PROJECT.json pairs
each with the property it must break, which shows that the property depends on the code.

### HttpSession

One variable per piece of the session's state, a function of the session. `obj`,
`sock`, `disp`, `reads`, `writes`, `strand` and `writers` say what exists and what is
under way; the references to the object are not counted but derived from them
(`Held`), and `Release` runs the destructor in the step that removes the last one.

| Action | Code |
|---|---|
| `Create`, `RunRead` | constructor and `run()`; the dispatched `doRead` |
| `OnReadEof`, `OnReadTimeout`, `OnReadFail`, `OnReadOk` | the branches of `onRead` |
| `Reject`, `CallHandler`, `HandleReturn` | `processRequest`: the 400s, the call of `handle()`, its return |
| `Send`, `DropWriter` | `HttpResponseWriter::send` and the end of the last copy of a writer |
| `OnWriteTimeout`, `OnWriteFail`, `OnWriteLast`, `OnWriteOk` | the branches of `onWrite` |
| `ClientSend`, `ClientLeave`, `Tick` | the peer and the clock (outside the code) |

Decisions a reader should know of:

* `onRead` up to the call of `processRequest` and what `processRequest` does are
  separate steps, because the counters they change are seen by other threads. The two
  atomics changed after `handle()` returns are changed in one step, as nothing the
  properties speak of happens between them.
* Copies of one `HttpResponseWriter` are one token: only the end of the last copy and
  the calls of `send()` matter.
* `tcp_stream` has a timer for reads and one for writes; a session never waits for
  both, so one `timer` stands for whichever is armed. At 0 a timeout is possible, but
  so is a success that was already under way. Sessions share no deadline, so each has
  a clock of its own, which allows every interleaving of deadlines a common clock has.
* The peer's state "gone" covers every way to make a read fail: a reset, a malformed
  request, one over a limit.
* `strand` and `idle` are the executor: a completion handler needs the session's strand
  and a thread; a handler that blocks keeps its thread.

### HttpExchange

One connection without threads, as `HttpSession` shows that one request is served at a
time. A request is a record of what the code looks at (does the target parse and is
it registered, the method, Accept-Encoding, keep-alive, is there a body); a response
is one of what the handler sets, of its headers the Connection field, which `writeResponse`
sets last and by which `onWrite` goes. A body is the sequence of the pieces written into it,
so a piece that is left over or written twice shows. Beast's parser clears the head of
`request_` but appends to the body it finds. The gzip form of an empty body is not
empty. For `HEAD`, `prepare_payload()` sees an empty body and sets the length 0.

### HttpRouter

A node is named by the keys on the way from the root, so the tree is one function
`data` from nodes to handlers, `Null` where a node only leads on. Paths are the
sequences of segments `boost::urls` makes of them, empty ones (a doubled or trailing
slash) included. `reg` is a history variable: which handler was registered last for
which path. It defines what a search should find, without the tree.

### HttpServer

Each effect of `run()` and of `stop()` is a step. Thread 0 is the caller of `run()`;
`thr` says for each thread whether it is in `io_context::run()` and which session's
handler it is in. `accepts` and `failed` are the pending and the failed accepts:
`stop()` turns the former into the latter, which stay queued until the next `run()`
handles them. The options are taken as valid: with others `run()` throws before it has
changed anything. `owner` is the `HttpServer` object; the `HttpServerImpl` is alive as long
as that or an accept owns it (`ImplAlive`). Once an accept was started this is a cycle,
as the accept waits in the `io_context` the impl contains: the model never sees the impl
end after the first `run()`, and `ImplOutlivesSessions` rests on that.
`HandlerStop` says whether handlers call `stop()`, which makes the threads callers of it.
Two actions bring the program down (`aborted`): a thread of the pool that gets to join
itself (`StopSelfJoin`), and two calls of `stop()` that join the same threads (`StopRace`),
which is undefined, so that it may also go well (`StopJoin`). `down` says that a `stop()`
that found the server running has returned; one that finds it stopped returns at once and
promises nothing. `survivors` is a history variable: the sessions that were alive when
`run()` last reset ids and statistics. The ids themselves are left out, as nothing but the
log and the application looks at them.
`EarlyStop` says whether `stop()` may overlap with the part of `run()` before
`io_context_.run()`: with `FALSE` the application waits until the server runs.

### HttpStatistics

`cnt` are the nine atomics, `snap` the reader's copy; `store` and `load` say which of the
nine stores of `resetAllHttpStatistics()` and loads of `getHttpStatistics()` is next. Of a
session there is left where it is between two accesses. Other than in `HttpSession`,
`--working_handler_cnt_` and `++handle_request_cnt_` after `handle()` are two steps, which
is what a reader can come between. A thread is occupied from the end of a read until
`processRequest()` returns. `run()` is called again when no thread is left in
`processRequest()`; sessions that wait for a read, a write or an answer survive. A handler
may answer while `handle()` runs, but `onWrite` needs the strand that `processRequest()`
holds, so no counter changes before it returns and the model lets the answer be sent then.

### HttpReader

A byte is its place in the stream of all that the peer sends, so that a byte lost, doubled
or mixed up shows; a request (`reqs`) has the sizes of its head and body and begins where
the one before it ends. The peer sends requests whenever it likes (`PeerSend`), and the
stream may end anywhere, in the middle of a request too (`StreamEnds`). `doRead`, `onRead` and
`onWrite` are the code's, the latter with both its outcomes (`OnWrite` reads on,
`OnWriteClose` closes); a request that is never answered stays in "process". What happens
between `doRead` and `onRead` is Beast and external: bytes arrive in pieces of any size up to the room in the buffer, a head is taken
from the buffer when it is complete, a body moves to `request_` as it arrives, what follows
stays in the buffer. A read fails when it needs bytes and has no room, or when head or
body exceed the limits of the parser, which the library leaves at Beast's defaults.

### HttpLog

spdlog is external: a default logger, replaced by `initLog()`; the level belongs to it. A
message passes the macro's test of the level (`LogCheck`), the local static of `httpLog()`,
which one thread initialises while the others wait (`OnceEnter`, `OncePattern`,
`OncePass`), and `spdlog::log()`, which tests the level again and writes it or waits for
room in the queue of the asynchronous logger. `initLog()` is not thread safe and is called
while nobody logs; options vary over everything it looks at, a file that cannot be opened
included.

## 3. The runs

| Run | Result | What it shows |
|---|---|---|
| `session_life` | pass | one operation at a time, responses in order, a safe `send()`, nothing on a closed stream, statistics that add up; the session implements `HttpConnection`; every session is torn down, whatever its peer does |
| `session_resend` | violation of `OneOperation` | a second `send()` for one request overlaps the first |
| `router_tree` | pass | the tree holds what was registered and a search finds what it should |
| `router_longest` | violation of `LongestMatch` | a node without a handler hides a shorter match |
| `exchange_data` | pass | own body, nothing left over, faithful responses, the connection kept only on the last word of handler or peer |
| `exchange_framing` | violation of `Delimited` | an empty kept-alive response has no length |
| `server_life` | pass | goes on accepting, all threads joined, `run()` returns after `stop()`, then no handler runs; the impl outlives the sessions; the session count is right unless sessions survived a restart |
| `server_early_stop` | violation of `StopEndsRun` | a `stop()` early in `run()` is lost |
| `server_unsafe_stop` | violation of `StopSafe` | `stop()` in a handler joins its own thread, two `stop()` join the same threads |
| `statistics_snapshot` | pass | the inequalities a reader of `getHttpStatistics()` can rely on |
| `reader_pipeline` | pass | each request is made of its own bytes; heads are within `max_request_size_`; while the stream lasts a read fails only for a request over a limit, and a request within the limits is read to its end |
| `log_messages` | pass | `default_log_pattern` set before the first message, no message lost or doubled, logger replaced at most once; a thread that logs goes on, through a full queue, and what was logged reaches the sinks |

The violations are disagreements between code and documentation, quoted in PROJECT.json
under "findings". There are others, for which the passing properties demand neither what the
code does nor what the documents say, and speak of the remaining cases:

* Session count: after a restart `session_cnt_` ("http server current session count",
  `http_types.h:35`) is short by the sessions that survived it, and wraps around when they
  end. `SessionCount` is stated for restarts that none survives.
* Session ids: sessions that survived a restart may have the id of a new one, although
  `s_id` is a "global session id generator" (`src/http_session.h:31`).
* Keep-alive: `forceDisableKeepAlive()` ("force disable keep alive", `http_response.h:42`) and a
  peer's `Connection: close` are undone by a handler whose headers have a Connection field
  without "close", as `headers_` are set last (`src/http_session.cpp:291`). `KeepAliveAgreed`
  asks that a kept connection is what the last word was.
* `HandlersDone`: handlers must be kept alive until `stop()` and `run()` have returned, not
  just "until the server stop" (`http_server.h:56`): with one thread, the default, `stop()`
  joins nobody.
* Length of a request: `max_request_size_` ("http request max length, if it overflow, will close
  the connection", `http_types.h:25`, and `README.md:107`) limits the head only. The body leaves
  `buffer_` as it is read and is limited by Beast's parser, which the library does not
  configure, so a request that is longer in all may be served. `LengthLimited` asks what holds of
  head and body; `ClosedForCause` and `RequestRead` say nothing of a request that is too long.
* Log format: `README.md:118` gives "time|level|thead_id|message|file|line|";
  `default_log_pattern` (`src/http_log.cpp:20`) has the name of the logger (`%n`) before the
  message. `Patterned` is about when the pattern is set, not about its fields.
* Log level: one set before `initLog()` is lost, as the level belongs to the logger that is
  replaced. No document says what should become of it.
* `ReplacedOnce`: it asks for `outcome = "none"`, as a call of `initLog()` that throws because
  of its options uses up the one call there is; later ones throw "logger was already
  initialized", which is not so.
* `SessionsReaped`: it needs a fair application, as no deadline is armed while a handler
  works; `write_timeout_cnt_` is said to "include write time and handle request time"
  (`http_types.h:39`) and does not.

### Bounds

* Sessions: two sessions on one thread compete for it, and two requests on one of them
  are enough for pipelining, keep-alive and for a writer that outlives its request; the
  other serves a single one, as sessions share only the thread and the statistics.
  Timeouts of one tick let a deadline be pending, due or passed. `CntMax` is 7, more
  than any gauge reaches unless it wraps. No symmetry, as the run checks liveness.
* Router: two keys, the empty segment and paths of three segments give common prefixes,
  nodes on the way, walks that end early at an empty segment, and overwriting. Two
  registrations are what it takes for one to change what another's search finds.
  Searches do not change the tree, so one reader is enough. Keys and handlers are
  symmetric.
* Exchange: three requests of every shape, so that something left by the first can
  reach the third. The proofs have no such bound.
* Server: two threads (one in the pool, one the caller), two sessions, two calls of
  `run()`: one session survives a restart and another is accepted after it. `CntMax` is 3, so
  the gauge wraps when the survivor ends.
* Statistics: two sessions on two threads, so that counters change on both sides of a
  load, one request each, one restart. `CntMax` is 3, so the gauge wraps in the run.
  The properties of snapshots are proved without bounds.
* Reader: heads and bodies below, at and above each limit, and three of them in a
  pipeline, so that all together exceed the buffer.
* Log: two threads with two messages each and a queue of one message with up to two
  workers make a full queue on which both wait, and workers that overtake each other.

`CHECK_DEADLOCK FALSE` is set where the instance ends and so does the program: all sessions
gone, all requests used, the server stopped for good. The runs of `HttpStatistics` and
`HttpLog` check for deadlock, although a reader can always read and a level always be set;
that nobody waits for ever there is what `LogReturns` says.

### Fairness

* `session_life`: the IO threads run what is ready (`RunRead`, the timeouts,
  `processRequest`), a deadline that is awaited comes closer, `handle()` returns, and
  the application gives up its writers. Asio guarantees the first two while a thread
  is in `io_context::run()`; the last two are what the library asks of handlers (a
  handler that never returns occupies its thread). Nothing is assumed of the peer, who
  may never send and never read, so successful reads and writes are not fair. Weak
  fairness is enough, as a session whose deadline passed stays so.
* `server_life`, `server_early_stop`: `run()` and `stop()` take their next step, a thread
  leaves a stopped `io_context`, handlers return. Strong fairness for the latter, as a
  handler that calls `stop()` cannot return meanwhile, and may do so again and again.
* `log_messages`: a thread inside a logging macro and a worker take their next step when
  they can. A thread that waits for room can be overtaken, but only finitely often, as
  each thread logs finitely often in the instance; in the program, who gets the room is
  up to the mutex of spdlog's queue.
  `Delivered` rests on the same steps.
* `reader_pipeline`: the steps of a read (`Read`) go on as long as there are bytes, which TCP
  delivers unless the stream ends. Nothing is assumed of the peer or of the handler: a request
  that was read may never be answered, the response never be written, the connection not be
  kept. `RequestRead` speaks of one read at a time, of a request that was sent, and of a stream
  that lasts.

`SessionsReaped` needs both timeouts to be set, as they are by default; an option of 0
disables a deadline, and an idle connection is then kept for as long as the peer keeps it.

## 4. The proofs

Proved with TLAPS for every value of the constants that meets the assumptions.

**Session** (`HttpSessionProofs`). `TypeOK /\ Chain` is inductive. `OneOperation` or
`ResponsesInOrder` alone are not: that a write ends says nothing of a read unless it is
known that at most one link of the chain (dispatched, reading, processing, unused
writer, writing) exists, that it belongs to the current request, and that `reqid`,
`taken` and the number of responses are in step. `ChainOf` says that, with the
connection between links, socket and life of the object; one lemma per action shows
that it is kept, and the four safety properties follow from it.
Assumption `SendOnce` (`MaxSends <= 1`): a handler sends at most one response per
request. Without it the properties fail, see `session_resend`.

**Refinement** (`HttpSessionProofs`). With `StateOf` a connection is "busy" while a
request was taken and not answered. `Refinement` shows `Spec => KeepsPromise`: each
step is a step of `HttpConnection` or leaves its variables as they are. `Chain` is needed
to know that a completed write answers the request that was taken last.

**Deadlines** (`HttpSessionProofs`). A stream has one deadline, which reads and writes take
turns to set, the latter from any thread of the application. `OwnDeadline` says that what is
outstanding is under a deadline of its own kind, and never without one unless the option
is 0; it is the safety half of `SessionsReaped`. It is inductive with `Chain`, which excludes
that a write moves the deadline of a read.

**Statistics** (`HttpSessionStats`). `StatisticsAddUp` is not inductive either: that no
more writes are reported than requests were handled needs to know which handled
requests still owe a write (`Owed`). The proof changes the cardinalities of the sets
of sessions by one, step by step. Assumption `WideEnough`: the gauge can hold the
number of sessions.

**Router** (`HttpRouterProofs`). The inductive invariant is the conjunction of the checked
ones with `WalksCorrect`, `TypeOK /\ WalksCorrect /\ TreeCorrect /\ SearchCorrect`: the tree between two turns
of `insert()` is right only because the walk is where its segments have led it.

**Exchange** (`HttpExchangeProofs`). The invariants hold together; `KeepAliveAgreed`, an
action property, needs in addition that the `keepAlive` in `response_` stays what
`writeResponse` made of this request and this response until `onWrite` looks at it.

**Server** (`HttpServerProofs`). `TypeOK` is inductive with a bound: no more accepts are
under way than calls of `run()` have started one. `ImplOutlivesSessions` needs that a session
can only exist after an accept was started and that accepts are never lost, only turned
into failures; it holds whoever calls `stop()` and whenever. `KeepsAccepting` assumes
`LateStop` (no `stop()` while `run()` is before `io_context_.run()`), and is strengthened by
what each place in `run()` has done so far. So do `PoolJoined` and `HandlersDone`, for any
number of callers, handlers included; their invariant says that a thread at work is in
the pool until it is joined, that the pool is empty wherever no `stop()` is to come, and
that the caller works only inside `run()`. Without the assumption they fail, see
`server_early_stop`. `SessionCount` is not inductive, as a reset may find sessions alive; it is
proved from `Counted`: the gauge and the survivors of the last reset together differ
from the live sessions by a multiple of `CntMax + 1`, the number of times it has wrapped.
That there are finitely many live sessions is part of it and not an assumption, and the
lemmas about remainders it needs (`Multiples`, `Residue`, `Congruent`) are proved too. `StopSafe` is proved
for the programs it holds for (`CarefulStop`): one thread, or one caller of `stop()` outside
the handlers; `server_unsafe_stop` shows it fail without.

**Snapshot** (`HttpStatisticsProofs`). Three parts are added to `TypeOK`. `Totals`: the
requests read are those handled and those in `processRequest()`, unless a reset is under
way, when there are none of the latter. `Gauge`: `working_handler_cnt_` is the number of sessions in a handler; this
is also why it never goes below zero. `Loaded`: what the reader has loaded so far is
bounded by the present counters, which is where the order of the loads matters:
`handle_request_cnt_` and `working_handler_cnt_` come before `read_success_cnt_`, and a
request that moves from one to the other in between can be missed but not seen twice.
`SnapshotWrites` has a part of its own, `Answered`: in the first `run()` the writes done and
the sessions that still owe one are together no more than the requests handled, and each
counter of writes the reader has loaded is at most the present one. Each step of a session
changes both sides by amounts that keep the inequality (`Pays`).

**Reader** (`HttpReaderProofs`). `OwnBytes` is not inductive: the bytes a later request will
be made of are in `buffer_` before its read begins. `Layout` says that the requests follow one
another in the stream, and `Position` that `buffer_` holds the received bytes from the first
unused one on, which is where the reader stands in its request; so a read begins where the
one before it ended, whatever it left. `Stage` adds what is known of the request after its
head was parsed, and `LengthLimited` follows. `ClosedForCause` needs that a reader whose
request was not sent yet has an empty buffer; the proof shows a little more than the property
says, that a request whose head alone is within the limits does not make a read fail. There is no assumption but that
`max_request_size_` is not 0, which `run()` checks, and that a head has bytes.

**Log** (`HttpLogProofs`). `Setup` says what `initLog()` leaves: before it the logger is
spdlog's first, which is synchronous, and any other has the pattern. `Format` says that a
thread writes only after the static of `httpLog()` was initialised, and that queue and
workers belong to an asynchronous logger; `Patterned` follows. For `Conserved` it must be
known where a message is that was accepted and not written: `Where` says that it is in one
place (its thread, the queue or a worker) and in no two, and that the messages of a thread
are numbered, so that a new one was not accepted before. `Sunk` is `Conserved` told for each
message. `ReplacedOnce` is proved as an action property from `Setup`. `NobodyStuck`, the safety
half of `LogReturns`, says that whoever waits for the static or for room in the queue waits
for a thread or a worker that can go on; it needs that `initLog()` refuses an asynchronous
logger without queue or workers (`Staffed`).

Only model-checked: liveness (`SessionsReaped`, `StopEndsRun`, `LogReturns`, `Delivered`,
`RequestRead`),
which is outside the prover's reach. Every invariant and every action property of a passing
run is stated by a theorem, and `OwnDeadline` and `NobodyStuck` are stated by theorems alone.
The assumptions on constants stated in the modules are
evaluated by every run.

## 5. Not modelled

* `HttpRequest` and the public headers: value objects and declarations. What the code puts
  into them and what the headers promise is in the modules above.
* The vendored zlib/gzip filters: third-party code (Boost.Iostreams), of which only
  compression is used; compression is a mark on a body.
* The texts of log messages and headers, query parameters, addresses.
* Headers a handler sets other than Connection: a Content-Length or Transfer-Encoding of its
  own goes out as it is.
* A response whose handler compressed it and set Content-Encoding itself: the library has
  no notion of it.
* Several `HttpServer` objects in one process, which share `s_id` and the logger and
  nothing else.

## 6. Plan

Done: all parts of the library that have state, each with its runs, and a proof of every
safety property the runs check. To come, in this order:

1. The safety half of `StopEndsRun`, as `OwnDeadline`, `NobodyStuck` and `ClosedForCause` are
   those of the other liveness properties: that whoever `run()` and `stop()` wait for can go on.
2. Further consequences of the inductive invariants that a reader of the code would ask for,
   above all of `Chain` and of the server's invariants.
