---------------------------- MODULE HttpStatistics ----------------------------
(***************************************************************************)
(* The statistics of a server under a concurrent reader.  The counters of  *)
(* HttpStatisticsInternal are atomics that sessions change one by one on   *)
(* the IO threads (src/http_session.cpp), that getHttpStatistics() loads   *)
(* one by one on a thread of the application, and that                     *)
(* resetAllHttpStatistics() clears one by one at the start of run()        *)
(* (src/http_server_impl.cpp).  Every access is a step.                    *)
(*                                                                         *)
(* Of a session the model keeps where it is between two accesses.          *)
(***************************************************************************)
EXTENDS Naturals, Sequences, FiniteSets

CONSTANTS
  ThreadNum,   \* opts_.thread_num_
  Sessions,    \* the sessions that may be created
  MaxRequests, \* bound: requests of a session
  MaxRuns,     \* bound: calls of run()
  CntMax       \* largest value of session_cnt_ (2^32 - 1 in the code)

(* A server has threads, and finitely many sessions. *)
ASSUME StatisticsAssumption ==
  /\ ThreadNum \in Nat \ {0}
  /\ IsFiniteSet(Sessions)
  /\ MaxRequests \in Nat
  /\ MaxRuns \in Nat
  /\ CntMax \in Nat

VARIABLES
  cnt,     \* http_statistics_
  stage,   \* where each session is
  reqs,    \* requests each session has read
  store,   \* run() is at this store of resetAllHttpStatistics(), or at none: 0
  runs,    \* calls of run() so far
  load,    \* the reader is at this load of getHttpStatistics(), or at none: 0
  snap,    \* statics, the reader's copy
  clean    \* the reader's call has not overlapped a reset

reader == <<load, snap, clean>>
vars == <<cnt, stage, reqs, store, runs, reader>>

Fields == {"session_cnt", "read_timeout_cnt", "read_success_cnt", "read_fail_cnt",
           "write_timeout_cnt", "write_success_cnt", "write_fail_cnt",
           "handle_request_cnt", "working_handler_cnt"}

(* resetAllHttpStatistics(), in its order. *)
Stores == <<"session_cnt", "read_timeout_cnt", "handle_request_cnt", "read_fail_cnt",
            "read_success_cnt", "write_timeout_cnt", "write_fail_cnt",
            "write_success_cnt", "working_handler_cnt">>

(* Mutant: the counters are loaded as they are declared. *)
LoadsAsDeclared ==
  <<"session_cnt", "read_timeout_cnt", "read_success_cnt", "read_fail_cnt",
    "write_timeout_cnt", "write_success_cnt", "write_fail_cnt",
    "handle_request_cnt", "working_handler_cnt">>

(* getHttpStatistics(), in its order. *)
Loads == <<"handle_request_cnt", "working_handler_cnt", "read_timeout_cnt",
           "read_success_cnt", "read_fail_cnt", "write_timeout_cnt",
           "write_success_cnt", "write_fail_cnt", "session_cnt">>

Zero == [f \in Fields |-> 0]

(* run() is called for the first time. *)
Init ==
  /\ cnt = Zero
  /\ stage = [s \in Sessions |-> "none"]
  /\ reqs = [s \in Sessions |-> 0]
  /\ store = 1
  /\ runs = 1
  /\ load = 0
  /\ snap = Zero
  /\ clean = FALSE

-----------------------------------------------------------------------------
(* Sessions inside processRequest(), each of which holds a thread. *)
Processing == {s \in Sessions : stage[s] \in {"process", "handler", "returned"}}

(* An IO thread can take up another completion. *)
FreeThread == store = 0 /\ Cardinality(Processing) < ThreadNum

Bump(f) == cnt' = [cnt EXCEPT ![f] = @ + 1]

(* Session s goes from one of the stages in from to the stage to. *)
Move(s, from, to) ==
  /\ stage[s] \in from
  /\ stage' = [stage EXCEPT ![s] = to]
  /\ UNCHANGED <<store, runs, reader>>

(* The constructor; ++ of the 32 bit gauge wraps around. *)
Create(s) ==
  /\ FreeThread
  /\ Move(s, {"none"}, "reading")
  /\ cnt' = [cnt EXCEPT !.session_cnt = IF @ = CntMax THEN 0 ELSE @ + 1]
  /\ UNCHANGED reqs

(* onRead: the end of the stream is not counted, a timeout and an error are. *)
OnReadError(s) ==
  /\ FreeThread
  /\ Move(s, {"reading"}, "closed")
  /\ UNCHANGED cnt \/ Bump("read_timeout_cnt") \/ Bump("read_fail_cnt")
  /\ UNCHANGED reqs

OnReadOk(s) ==
  /\ FreeThread
  /\ reqs[s] < MaxRequests
  /\ Move(s, {"reading"}, "process")
  /\ reqs' = [reqs EXCEPT ![s] = @ + 1]
  /\ Bump("read_success_cnt")

(* processRequest() turns the request down and writes its answer. *)
Reject(s) ==
  /\ Move(s, {"process"}, "writing")
  /\ Bump("handle_request_cnt")
  /\ UNCHANGED reqs

(* Mutant: the handler is only counted when it returns. *)
CallHandlerUncounted(s) ==
  /\ Move(s, {"process"}, "handler")
  /\ UNCHANGED <<cnt, reqs>>

CallHandler(s) ==
  /\ Move(s, {"process"}, "handler")
  /\ Bump("working_handler_cnt")
  /\ UNCHANGED reqs

(* Mutant: the gauge is counted up on both sides of handle(). *)
HandleReturnCountsUp(s) ==
  /\ Move(s, {"handler"}, "returned")
  /\ Bump("working_handler_cnt")
  /\ UNCHANGED reqs

HandleReturn(s) ==
  /\ Move(s, {"handler"}, "returned")
  /\ cnt' = [cnt EXCEPT !.working_handler_cnt = @ - 1]
  /\ UNCHANGED reqs

(* The request is handled, whether the answer is there or not. *)
Handled(s) ==
  /\ Move(s, {"returned"}, "waiting")
  /\ Bump("handle_request_cnt")
  /\ UNCHANGED reqs

(* The answer is sent, or the last writer goes without one.  One sent while  *)
(* handle() runs makes no difference before this: onWrite needs the strand, *)
(* which processRequest() holds until it returns.                          *)
Send(s) ==
  /\ \/ Move(s, {"waiting"}, "writing")
     \/ Move(s, {"waiting"}, "closed")
  /\ UNCHANGED <<cnt, reqs>>

(* Mutant: a write that times out is counted as a failure, too. *)
OnWriteErrorTwice(s) ==
  /\ FreeThread
  /\ Move(s, {"writing"}, "closed")
  /\ cnt' = [cnt EXCEPT !.write_timeout_cnt = @ + 1, !.write_fail_cnt = @ + 1]
  /\ UNCHANGED reqs

(* onWrite with an error. *)
OnWriteError(s) ==
  /\ FreeThread
  /\ Move(s, {"writing"}, "closed")
  /\ Bump("write_timeout_cnt") \/ Bump("write_fail_cnt")
  /\ UNCHANGED reqs

(* The response is written, and the connection closed or read again. *)
OnWriteOk(s) ==
  /\ FreeThread
  /\ \/ Move(s, {"writing"}, "closed")
     \/ Move(s, {"writing"}, "reading")
  /\ Bump("write_success_cnt")
  /\ UNCHANGED reqs

(* The destructor runs wherever the last reference goes. *)
Destroy(s) ==
  /\ Move(s, {"closed"}, "gone")
  /\ cnt' = [cnt EXCEPT !.session_cnt = IF @ = 0 THEN CntMax ELSE @ - 1]
  /\ UNCHANGED reqs

-----------------------------------------------------------------------------
(* run() is called again, when no thread is left in io_context_.run(). *)
RunCall ==
  /\ store = 0
  /\ runs < MaxRuns
  /\ Processing = {}
  /\ store' = 1
  /\ runs' = runs + 1
  /\ clean' = FALSE
  /\ UNCHANGED <<cnt, stage, reqs, load, snap>>

Store ==
  /\ store # 0
  /\ cnt' = [cnt EXCEPT ![Stores[store]] = 0]
  /\ store' = IF store = Len(Stores) THEN 0 ELSE store + 1
  /\ UNCHANGED <<stage, reqs, runs, reader>>

(* getHttpStatistics() is called, at any time. *)
GetCall ==
  /\ load = 0
  /\ load' = 1
  /\ snap' = Zero
  /\ clean' = (store = 0)
  /\ UNCHANGED <<cnt, stage, reqs, store, runs>>

Load ==
  /\ load \in 1..Len(Loads)
  /\ snap' = [snap EXCEPT ![Loads[load]] = cnt[Loads[load]]]
  /\ load' = load + 1
  /\ UNCHANGED <<cnt, stage, reqs, store, runs, clean>>

(* The snapshot is complete. *)
Complete == load = Len(Loads) + 1

GetReturn ==
  /\ Complete
  /\ load' = 0
  /\ UNCHANGED <<cnt, stage, reqs, store, runs, snap, clean>>

-----------------------------------------------------------------------------
SessionNext(s) ==
  \/ Create(s) \/ OnReadError(s) \/ OnReadOk(s) \/ Reject(s) \/ CallHandler(s)
  \/ HandleReturn(s) \/ Handled(s) \/ Send(s) \/ OnWriteError(s) \/ OnWriteOk(s)
  \/ Destroy(s)

Next ==
  \/ \E s \in Sessions : SessionNext(s)
  \/ RunCall \/ Store
  \/ GetCall \/ Load \/ GetReturn

Spec == Init /\ [][Next]_vars

-----------------------------------------------------------------------------
(* PROPERTIES *)

(* Types: above all no counter but session_cnt_ wraps around.                *)
TypeOK ==
  /\ cnt \in [Fields -> Nat]
  /\ stage \in [Sessions -> {"none", "reading", "process", "handler", "returned",
                             "waiting", "writing", "closed", "gone"}]
  /\ reqs \in [Sessions -> Nat]
  /\ store \in 0..9
  /\ runs \in Nat
  /\ load \in 0..10
  /\ snap \in [Fields -> Nat]
  /\ clean \in BOOLEAN

(* A snapshot of getHttpStatistics() never shows more requests handled or    *)
(* being handled than read, although the nine counters belong to nine      *)
(* different moments, unless run() resets them meanwhile: the order in     *)
(* which the counters are loaded and changed makes it so.                  *)
SnapshotOrdered ==
  Complete /\ clean =>
    snap.handle_request_cnt + snap.working_handler_cnt <= snap.read_success_cnt

(* In the first run() a snapshot never shows more responses written, or      *)
(* failed to be written, than there were requests when the call returns.   *)
(* (It can show more than its own read_success_cnt_, which was loaded      *)
(* before; and after a restart the sessions that survived it write the     *)
(* answers to requests that are no longer counted.)                        *)
SnapshotWrites ==
  Complete /\ clean /\ runs = 1 =>
    snap.write_timeout_cnt + snap.write_success_cnt + snap.write_fail_cnt
      <= cnt.read_success_cnt

(* No snapshot shows more handlers at work than there are IO threads, not    *)
(* even one that overlaps a restart of the server.                         *)
SnapshotBusy == snap.working_handler_cnt <= ThreadNum
=============================================================================
