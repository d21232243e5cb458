----------------------------- MODULE HttpSession -----------------------------
(***************************************************************************)
(* The life of HttpSession objects (src/http_session.cpp): one accepted    *)
(* connection each, all sharing the IO threads of one io_context and one   *)
(* HttpStatisticsInternal.                                                 *)
(*                                                                         *)
(* A session is a chain of completion handlers, doRead -> onRead ->        *)
(* processRequest -> writeResponse -> doWrite -> onWrite -> doRead, that    *)
(* run one at a time on the session's strand.  The chain leaves the strand *)
(* in one place: HttpResponseWriter::send may be called by any thread of   *)
(* the application, during handle() or long after it returned.             *)
(*                                                                         *)
(* The object is reference counted (enable_shared_from_this): each pending *)
(* asynchronous operation, the handler frame on the strand and each        *)
(* HttpResponseWriter hold one reference, and the destructor runs in the   *)
(* step that gives up the last one.                                        *)
(***************************************************************************)
EXTENDS Integers, Sequences, FiniteSets

CONSTANTS
  Sessions,      \* the HttpSession objects that may be created
  ThreadNum,     \* opts_.thread_num_, the threads inside io_context::run()
  ReadTimeOut,   \* opts_.read_time_out_ in ticks, 0 means no timeout
  WriteTimeOut,  \* opts_.write_time_out_ in ticks, 0 means no timeout
  MaxRequests,   \* bound: requests the peer of each session sends
  MaxSends,      \* bound: send() calls the application makes per request
  CntMax         \* largest value of a statistics gauge (2^32 - 1 in the code)

(* What the proofs assume of the constants. *)
ASSUME ConstantsAssumption ==
  /\ IsFiniteSet(Sessions)
  /\ ThreadNum \in Nat \ {0}
  /\ ReadTimeOut \in Nat
  /\ WriteTimeOut \in Nat
  /\ MaxRequests \in [Sessions -> Nat]
  /\ MaxSends \in Nat
  /\ CntMax \in Nat

VARIABLES
  obj,      \* the object: "none" before make_shared, "alive", "gone"
  sock,     \* stream_.socket().is_open(): "open" or "closed"
  disp,     \* run() has dispatched doRead and it has not run yet
  reads,    \* number of outstanding async_read operations
  writes,   \* outstanding async_write operations, with the bound keep_alive
  strand,   \* code running on the strand: "free", "process", "handler"
  writers,  \* HttpResponseWriters the application holds, one per request
  timer,    \* ticks left of stream_.expires_after(), or Never
  reqid,    \* current_request_id_
  idle,     \* IO threads waiting for a handler to run
  stat,     \* statistics_
  client,   \* the peer: "open", "fin" (sends no more), "gone" (reset, garbage)
  sent,     \* well-formed requests the peer has sent
  taken,    \* requests read off the connection so far
  got       \* for each response the peer received, the request it answers

objVars == <<obj, sock, disp, reads, writes, strand, writers, timer, reqid>>
peerVars == <<client, sent, taken, got>>
vars == <<objVars, idle, stat, peerVars>>

-----------------------------------------------------------------------------
Never == -1

(* Mutant: the deadline is one tick late. *)
ExpiryLate(option) == IF option # 0 THEN option + 1 ELSE Never

(* Set by expires_after(t) when the option is not 0, else expires_never(). *)
Expiry(option) == IF option # 0 THEN option ELSE Never

(* The nine atomics of HttpStatisticsInternal. *)
Counters == {"session", "read_timeout", "read_success", "read_fail",
             "write_timeout", "write_success", "write_fail",
             "handle_request", "working_handler"}

(* ++ and -- of an unsigned gauge wrap around. *)
Inc(n) == IF n = CntMax THEN 0 ELSE n + 1
Dec(n) == IF n = 0 THEN CntMax ELSE n - 1

Bump(c) == [stat EXCEPT ![c] = @ + 1]

(* The references to the session: shared_from_this() bound in each pending *)
(* operation, the handler frame that runs, the writers handed out.         *)
Held(s) ==
  \/ disp[s]
  \/ reads[s] > 0
  \/ writes[s] # {}
  \/ strand[s] # "free"
  \/ writers[s] # {}

(* A completion handler of s may start: its strand and a thread are free.  *)
CanRun(s) == strand[s] = "free" /\ idle > 0

(* doClose(): close the stream unless it is closed already. *)
DoClose(s, s0) == [s0 EXCEPT ![s] = "closed"]

(* A handler or a writer of s ends, giving up its reference; st are the     *)
(* statistics it leaves.  If that was the last reference the destructor    *)
(* runs: --session_cnt_ and doClose().                                     *)
Release(s, st, sk) ==
  IF Held(s)'
  THEN /\ stat' = st
       /\ sock' = sk
       /\ obj' = obj
  ELSE /\ stat' = [st EXCEPT !["session"] = Dec(@)]
       /\ sock' = DoClose(s, sk)
       /\ obj' = [obj EXCEPT ![s] = "gone"]

-----------------------------------------------------------------------------
(* Constructor and run(), from HttpServerImpl::onAccept. *)
Create(s) ==
  /\ obj[s] = "none"
  /\ idle > 0
  /\ obj' = [obj EXCEPT ![s] = "alive"]
  /\ sock' = [sock EXCEPT ![s] = "open"]
  /\ disp' = [disp EXCEPT ![s] = TRUE]
  /\ client' = [client EXCEPT ![s] = "open"]
  /\ stat' = [stat EXCEPT !["session"] = Inc(@)]
  /\ UNCHANGED <<reads, writes, strand, writers, timer, reqid, idle,
                 sent, taken, got>>

(* Mutant: the request id stays as it was. *)
DoReadSameId(s) ==
  /\ reqid' = reqid
  /\ timer' = [timer EXCEPT ![s] = Expiry(ReadTimeOut)]
  /\ reads' = [reads EXCEPT ![s] = @ + 1]

(* doRead(): next request id, arm the deadline, start async_read. *)
DoRead(s) ==
  /\ reqid' = [reqid EXCEPT ![s] = @ + 1]
  /\ timer' = [timer EXCEPT ![s] = Expiry(ReadTimeOut)]
  /\ reads' = [reads EXCEPT ![s] = @ + 1]

(* The dispatched doRead runs on the strand. *)
RunRead(s) ==
  /\ disp[s]
  /\ CanRun(s)
  /\ disp' = [disp EXCEPT ![s] = FALSE]
  /\ DoRead(s)
  /\ UNCHANGED <<obj, sock, writes, strand, writers, idle, stat, peerVars>>

(* onRead with an error: count it as counter says, doClose(), return. *)
OnReadError(s, st) ==
  /\ reads[s] > 0
  /\ CanRun(s)
  /\ reads' = [reads EXCEPT ![s] = @ - 1]
  /\ UNCHANGED <<disp, writes, strand, writers, timer, reqid, idle, peerVars>>
  /\ Release(s, st, DoClose(s, sock))

(* end_of_stream: the peer has closed after its last request. *)
OnReadEof(s) ==
  /\ client[s] = "fin"
  /\ sent[s] = taken[s]
  /\ OnReadError(s, stat)

(* The deadline passed: Beast closed the socket and reports timeout, even   *)
(* when the request arrived meanwhile.                                     *)
OnReadTimeout(s) ==
  /\ timer[s] = 0
  /\ OnReadError(s, Bump("read_timeout"))

(* Any other error: reset, malformed or oversized request, aborted by close. *)
OnReadFail(s) ==
  /\ client[s] = "gone" \/ sock[s] = "closed"
  /\ OnReadError(s, Bump("read_fail"))

(* Mutant: the next read starts before the request is answered. *)
OnReadOkReadsOn(s) ==
  /\ reads[s] > 0
  /\ CanRun(s)
  /\ sock[s] = "open"
  /\ client[s] # "gone"
  /\ sent[s] > taken[s]
  /\ taken' = [taken EXCEPT ![s] = @ + 1]
  /\ strand' = [strand EXCEPT ![s] = "process"]
  /\ idle' = idle - 1
  /\ stat' = Bump("read_success")
  /\ UNCHANGED <<obj, sock, disp, reads, writes, writers, timer, reqid,
                 client, sent, got>>

(* onRead without error up to the call of processRequest(). *)
OnReadOk(s) ==
  /\ reads[s] > 0
  /\ CanRun(s)
  /\ sock[s] = "open"
  /\ client[s] # "gone"
  /\ sent[s] > taken[s]
  /\ reads' = [reads EXCEPT ![s] = @ - 1]
  /\ taken' = [taken EXCEPT ![s] = @ + 1]
  /\ strand' = [strand EXCEPT ![s] = "process"]
  /\ idle' = idle - 1
  /\ stat' = Bump("read_success")
  /\ UNCHANGED <<obj, sock, disp, writes, writers, timer, reqid,
                 client, sent, got>>

-----------------------------------------------------------------------------
(* Mutant: no deadline is set for the write. *)
DoWriteNoDeadline(s, r, nth, keep) ==
  /\ writes' = [writes EXCEPT ![s] = @ \cup {[req |-> r, nth |-> nth, keep |-> keep]}]
  /\ timer' = [timer EXCEPT ![s] = Never]

(* doWrite(), in which writeResponse() ends: arm the deadline, start          *)
(* async_write with response_.keep_alive() bound into onWrite.  What         *)
(* writeResponse() puts in response_ is HttpExchange's subject.              *)
DoWrite(s, r, nth, keep) ==
  /\ writes' = [writes EXCEPT ![s] = @ \cup {[req |-> r, nth |-> nth, keep |-> keep]}]
  /\ timer' = [timer EXCEPT ![s] = Expiry(WriteTimeOut)]

(* Mutant: the 400 branch does not count the request. *)
RejectUncounted(s, keep) ==
  /\ strand[s] = "process"
  /\ strand' = [strand EXCEPT ![s] = "free"]
  /\ idle' = idle + 1
  /\ DoWrite(s, reqid[s], 0, keep)
  /\ UNCHANGED <<obj, sock, disp, reads, writers, reqid, stat, peerVars>>

(* processRequest() answers 400 itself: the URL does not parse, no handler  *)
(* is registered for it, or the method is not supported.                   *)
Reject(s, keep) ==
  /\ strand[s] = "process"
  /\ strand' = [strand EXCEPT ![s] = "free"]
  /\ idle' = idle + 1
  /\ stat' = Bump("handle_request")
  /\ DoWrite(s, reqid[s], 0, keep)
  /\ UNCHANGED <<obj, sock, disp, reads, writers, reqid, peerVars>>

(* processRequest() calls handler->handle(request, writer). *)
CallHandler(s) ==
  /\ strand[s] = "process"
  /\ strand' = [strand EXCEPT ![s] = "handler"]
  /\ stat' = [stat EXCEPT !["working_handler"] = Inc(@)]
  /\ writers' = [writers EXCEPT ![s] = @ \cup {[req |-> reqid[s], sends |-> 0]}]
  /\ UNCHANGED <<obj, sock, disp, reads, writes, timer, reqid, idle, peerVars>>

(* Mutant: the next read starts when handle() returns, answered or not. *)
HandleReturnReadsOn(s) ==
  /\ strand[s] = "handler"
  /\ strand' = [strand EXCEPT ![s] = "free"]
  /\ idle' = idle + 1
  /\ stat' = [stat EXCEPT !["working_handler"] = Dec(@), !["handle_request"] = @ + 1]
  /\ IF writes[s] = {} THEN DoRead(s) ELSE UNCHANGED <<reads, timer, reqid>>
  /\ UNCHANGED <<obj, sock, disp, writes, writers, peerVars>>

(* handle() returns, with or without having kept a copy of the writer. *)
HandleReturn(s) ==
  /\ strand[s] = "handler"
  /\ strand' = [strand EXCEPT ![s] = "free"]
  /\ idle' = idle + 1
  /\ UNCHANGED <<disp, reads, writes, writers, timer, reqid, peerVars>>
  /\ Release(s, [stat EXCEPT !["working_handler"] = Dec(@), !["handle_request"] = @ + 1],
             sock)

(* HttpResponseWriter::send, called by whichever thread has the writer; it  *)
(* runs writeResponse() at once, without going through the strand.         *)
Send(s, w, keep) ==
  /\ w \in writers[s]
  /\ w.sends < MaxSends
  /\ writers' = [writers EXCEPT ![s] = (@ \ {w}) \cup {[w EXCEPT !.sends = @ + 1]}]
  /\ DoWrite(s, w.req, w.sends + 1, keep)
  /\ UNCHANGED <<obj, sock, disp, reads, strand, reqid, idle, stat, peerVars>>

(* The application destroys the last copy of a writer. *)
DropWriter(s, w) ==
  /\ w \in writers[s]
  /\ writers' = [writers EXCEPT ![s] = @ \ {w}]
  /\ UNCHANGED <<disp, reads, writes, strand, timer, reqid, idle, peerVars>>
  /\ Release(s, stat, sock)

-----------------------------------------------------------------------------
(* onWrite with an error, or without keep-alive: count, doClose(), return. *)
OnWriteClose(s, w, st) ==
  /\ w \in writes[s]
  /\ CanRun(s)
  /\ writes' = [writes EXCEPT ![s] = @ \ {w}]
  /\ UNCHANGED <<disp, reads, strand, writers, timer, reqid, idle>>
  /\ UNCHANGED <<client, sent, taken>>
  /\ Release(s, st, DoClose(s, sock))

(* Mutants: onWrite does not return after an error, and reads on. *)
OnWriteTimeoutReadsOn(s, w) ==
  /\ timer[s] = 0
  /\ w \in writes[s]
  /\ CanRun(s)
  /\ writes' = [writes EXCEPT ![s] = @ \ {w}]
  /\ stat' = Bump("write_timeout")
  /\ DoRead(s)
  /\ UNCHANGED <<obj, sock, disp, strand, writers, idle, peerVars>>

OnWriteFailReadsOn(s, w) ==
  /\ client[s] # "open" \/ sock[s] = "closed"
  /\ w \in writes[s]
  /\ CanRun(s)
  /\ writes' = [writes EXCEPT ![s] = @ \ {w}]
  /\ stat' = Bump("write_fail")
  /\ DoRead(s)
  /\ UNCHANGED <<obj, sock, disp, strand, writers, idle, peerVars>>

OnWriteTimeout(s, w) ==
  /\ timer[s] = 0
  /\ OnWriteClose(s, w, Bump("write_timeout"))
  /\ UNCHANGED got

OnWriteFail(s, w) ==
  /\ client[s] # "open" \/ sock[s] = "closed"
  /\ OnWriteClose(s, w, Bump("write_fail"))
  /\ UNCHANGED got

(* Mutant: a connection that is not kept is closed, then read again. *)
OnWriteLastReadsOn(s, w) ==
  /\ w \in writes[s]
  /\ CanRun(s)
  /\ sock[s] = "open"
  /\ ~w.keep
  /\ writes' = [writes EXCEPT ![s] = @ \ {w}]
  /\ got' = [got EXCEPT ![s] = Append(@, w.req)]
  /\ stat' = Bump("write_success")
  /\ sock' = DoClose(s, sock)
  /\ DoRead(s)
  /\ UNCHANGED <<obj, disp, strand, writers, idle, client, sent, taken>>

(* The response is written and the connection is not kept. *)
OnWriteLast(s, w) ==
  /\ sock[s] = "open"
  /\ ~w.keep
  /\ OnWriteClose(s, w, Bump("write_success"))
  /\ got' = [got EXCEPT ![s] = Append(@, w.req)]

(* The response is written and the connection is kept: clear response_ and  *)
(* read another request.                                                   *)
OnWriteOk(s, w) ==
  /\ w \in writes[s]
  /\ CanRun(s)
  /\ sock[s] = "open"
  /\ w.keep
  /\ writes' = [writes EXCEPT ![s] = @ \ {w}]
  /\ got' = [got EXCEPT ![s] = Append(@, w.req)]
  /\ stat' = Bump("write_success")
  /\ DoRead(s)
  /\ UNCHANGED <<obj, sock, disp, strand, writers, idle, client, sent, taken>>

-----------------------------------------------------------------------------
(* The peer and the clock.  A tick brings the deadline of the operation     *)
(* that s waits for closer; sessions share no deadline, so each has its    *)
(* own clock.                                                              *)
ClientSend(s) ==
  /\ obj[s] = "alive"
  /\ client[s] = "open"
  /\ sent[s] < MaxRequests[s]
  /\ sent' = [sent EXCEPT ![s] = @ + 1]
  /\ UNCHANGED <<objVars, idle, stat, client, taken, got>>

ClientLeave(s, how) ==
  /\ obj[s] = "alive"
  /\ client[s] = "open"
  /\ client' = [client EXCEPT ![s] = how]
  /\ UNCHANGED <<objVars, idle, stat, sent, taken, got>>

Tick(s) ==
  /\ timer[s] > 0
  /\ reads[s] > 0 \/ writes[s] # {}
  /\ timer' = [timer EXCEPT ![s] = @ - 1]
  /\ UNCHANGED <<obj, sock, disp, reads, writes, strand, writers, reqid,
                 idle, stat, peerVars>>

-----------------------------------------------------------------------------
Init ==
  /\ obj = [s \in Sessions |-> "none"]
  /\ sock = [s \in Sessions |-> "closed"]
  /\ disp = [s \in Sessions |-> FALSE]
  /\ reads = [s \in Sessions |-> 0]
  /\ writes = [s \in Sessions |-> {}]
  /\ strand = [s \in Sessions |-> "free"]
  /\ writers = [s \in Sessions |-> {}]
  /\ timer = [s \in Sessions |-> Never]
  /\ reqid = [s \in Sessions |-> 0]
  /\ idle = ThreadNum
  /\ stat = [c \in Counters |-> 0]
  /\ client = [s \in Sessions |-> "open"]
  /\ sent = [s \in Sessions |-> 0]
  /\ taken = [s \in Sessions |-> 0]
  /\ got = [s \in Sessions |-> <<>>]

OnRead(s) == OnReadEof(s) \/ OnReadTimeout(s) \/ OnReadFail(s) \/ OnReadOk(s)

OnWrite(s) ==
  \E w \in writes[s] :
    OnWriteTimeout(s, w) \/ OnWriteFail(s, w) \/ OnWriteLast(s, w) \/ OnWriteOk(s, w)

(* What runs on the IO threads. *)
IONext(s) ==
  \/ RunRead(s)
  \/ OnRead(s)
  \/ \E keep \in BOOLEAN : Reject(s, keep)
  \/ CallHandler(s)
  \/ HandleReturn(s)
  \/ OnWrite(s)

(* What any thread of the application may do with the writers it holds. *)
AppNext(s) ==
  \E w \in writers[s] : DropWriter(s, w) \/ \E keep \in BOOLEAN : Send(s, w, keep)

PeerNext(s) == ClientSend(s) \/ ClientLeave(s, "fin") \/ ClientLeave(s, "gone")

Next == \E s \in Sessions : Create(s) \/ IONext(s) \/ AppNext(s) \/ PeerNext(s) \/ Tick(s)

Spec == Init /\ [][Next]_vars

(***************************************************************************)
(* The io_context runs every handler that is ready, a deadline that is     *)
(* awaited passes, handle() returns and the application gives up its       *)
(* writers.  Nothing is assumed of the peer: it may never send, and it may *)
(* never read a response, so a successful write is not fair.               *)
(***************************************************************************)
Fairness ==
  \A s \in Sessions :
    /\ WF_vars(RunRead(s))
    /\ WF_vars(OnReadTimeout(s))
    /\ WF_vars(\E w \in writes[s] : OnWriteTimeout(s, w))
    /\ WF_vars(\E keep \in BOOLEAN : Reject(s, keep) \/ CallHandler(s))
    /\ WF_vars(HandleReturn(s))
    /\ WF_vars(\E w \in writers[s] : DropWriter(s, w))
    /\ WF_vars(Tick(s))

FairSpec == Spec /\ Fairness

-----------------------------------------------------------------------------
(* PROPERTIES *)

ToldWrites == [req : Nat, nth : Nat, keep : BOOLEAN]
WriterTokens == [req : Nat, sends : Nat]

(* Types of the variables; a thread is idle or inside a handler, and a      *)
(* deadline never exceeds the option it was armed with.                    *)
TypeOK ==
  /\ obj \in [Sessions -> {"none", "alive", "gone"}]
  /\ sock \in [Sessions -> {"open", "closed"}]
  /\ disp \in [Sessions -> BOOLEAN]
  /\ reads \in [Sessions -> Nat]
  /\ writes \in [Sessions -> SUBSET ToldWrites]
  /\ strand \in [Sessions -> {"free", "process", "handler"}]
  /\ writers \in [Sessions -> SUBSET WriterTokens]
  /\ timer \in [Sessions -> {Never} \cup 0..ReadTimeOut \cup 0..WriteTimeOut]
  /\ reqid \in [Sessions -> Nat]
  /\ idle \in Nat
  /\ stat \in [Counters -> Nat]
  /\ client \in [Sessions -> {"open", "fin", "gone"}]
  /\ sent \in [Sessions -> Nat]
  /\ taken \in [Sessions -> Nat]
  /\ got \in [Sessions -> Seq(Nat)]

(* The writers that have not been used for a response yet. *)
Unsent(s) == {w \in writers[s] : w.sends = 0}

(* Beast allows one read and one write at a time on a stream, and response_ *)
(* must stay as it is while it is being serialized: no session ever has    *)
(* two operations outstanding.                                             *)
OneOperation ==
  \A s \in Sessions :
    /\ reads[s] <= 1
    /\ reads[s] = 1 => writes[s] = {}
    /\ \A a, b \in writes[s] : a = b

(* The peer receives one response per request, in the order it sent them,   *)
(* whatever threads the handlers answer from: no response is lost, doubled *)
(* or overtaken by that of a later request on the same connection.         *)
ResponsesInOrder ==
  \A s \in Sessions :
    /\ got[s] = [i \in 1..Len(got[s]) |-> i]
    /\ Len(got[s]) <= taken[s]

(* A handler that has not answered yet finds the connection as it was when  *)
(* the request was read: open, with no operation that send() would overlap. *)
SafeToSend ==
  \A s \in Sessions :
    Unsent(s) # {} => sock[s] = "open" /\ reads[s] = 0 /\ writes[s] = {}

(* Once the stream is closed no operation is left on it: a closed session   *)
(* survives only in writers that were already used.                        *)
ClosedIsQuiet ==
  \A s \in Sessions :
    sock[s] = "closed" =>
      ~disp[s] /\ reads[s] = 0 /\ writes[s] = {} /\ strand[s] = "free" /\ Unsent(s) = {}

(* A request of s is being served: in processRequest(), with its handler,   *)
(* or on its way out.                                                      *)
Serving(s) == strand[s] = "process" \/ Unsent(s) # {} \/ writes[s] # {}

(* The chain of handlers is never forked and never resumed on a closed      *)
(* stream: at most one of "doRead dispatched", "reading", "processing",    *)
(* "writer not used yet" and "writing" holds, all that is in flight belongs *)
(* to the current request, the request id, the requests taken and the      *)
(* responses received stay in step, and the object lives exactly as long   *)
(* as something refers to it.                                              *)
ChainOf(s) ==
  /\ reads[s] <= 1
  /\ disp[s] => reads[s] = 0 /\ strand[s] = "free" /\ reqid[s] = 0 /\ taken[s] = 0
  /\ reads[s] = 1 => ~Serving(s) /\ strand[s] = "free" /\ reqid[s] = taken[s] + 1
                     /\ taken[s] = Len(got[s])
  /\ strand[s] = "process" => writes[s] = {} /\ Unsent(s) = {}
  /\ writes[s] # {} => Unsent(s) = {}
  /\ \A a, b \in writes[s] : a = b
  /\ \A a, b \in Unsent(s) : a = b
  /\ Serving(s) => ~disp[s] /\ reqid[s] = taken[s] /\ taken[s] = Len(got[s]) + 1
  /\ \A w \in writes[s] \cup Unsent(s) : w.req = reqid[s]
  /\ disp[s] \/ reads[s] = 1 \/ strand[s] # "free" \/ Serving(s) => sock[s] = "open"
  /\ sock[s] = "open" => obj[s] = "alive"
  /\ obj[s] = "alive" <=> Held(s)
  /\ obj[s] = "none" => reqid[s] = 0 /\ taken[s] = 0
  /\ Len(got[s]) <= taken[s]
  /\ got[s] = [i \in 1..Len(got[s]) |-> i]

Chain == \A s \in Sessions : ChainOf(s)

(* The gauges of HttpStatistics count what they say, and the totals add up: *)
(* every request read is handled or being handled, and no more responses   *)
(* are reported written than requests were handled.                        *)
Alive == {s \in Sessions : obj[s] = "alive"}
Working == {s \in Sessions : strand[s] = "handler"}
Processing == {s \in Sessions : strand[s] # "free"}
WritesDone == stat["write_success"] + stat["write_fail"] + stat["write_timeout"]

StatisticsAddUp ==
  /\ stat["session"] = Cardinality(Alive)
  /\ stat["working_handler"] = Cardinality(Working)
  /\ stat["read_success"] = stat["handle_request"] + Cardinality(Processing)
  /\ WritesDone <= stat["handle_request"]

(* Every session is torn down in the end, even when the peer stops sending  *)
(* or reading: with both timeouts set no connection is kept forever.       *)
SessionsReaped == \A s \in Sessions : obj[s] = "alive" ~> obj[s] = "gone"

(* What the peer sees of each connection is what HttpConnection promises. *)
StateOf(s) ==
  IF obj[s] = "none" THEN "none"
  ELSE IF sock[s] = "closed" THEN "closed"
  ELSE IF taken[s] > Len(got[s]) THEN "busy"
  ELSE "idle"

ConnState == [s \in Sessions |-> StateOf(s)]

Conn == INSTANCE HttpConnection
          WITH Conns <- Sessions, state <- ConnState, replies <- got

KeepsPromise == Conn!Spec
=============================================================================
