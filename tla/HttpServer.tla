------------------------------ MODULE HttpServer ------------------------------
(***************************************************************************)
(* The life of a server (src/http_server_impl.cpp, which                   *)
(* src/http_server.cpp forwards to): run() sets up the acceptor, starts    *)
(* thread_num_ - 1 threads and becomes the last one itself; stop(), called *)
(* by other threads, ends io_context_.run() in all of them, joins the      *)
(* threads run() started and closes the acceptor.                          *)
(*                                                                         *)
(* run() and stop() have no lock, so each of their effects is a step.      *)
(* Sessions appear only as far as the server sees them: they are counted   *)
(* and keep a thread busy while a handler runs.  They, and all that is     *)
(* queued in the io_context, survive stop() and go on in the next run().   *)
(*                                                                         *)
(* The HttpServerImpl is shared by the HttpServer and the accepts that are *)
(* bound to it; sessions refer to its options, statistics and router but   *)
(* do not own it.                                                          *)
(***************************************************************************)
EXTENDS Naturals, FiniteSets

CONSTANTS
  ThreadNum,   \* opts_.thread_num_
  Stoppers,    \* the threads, other than those of the server, that call stop()
  Sessions,    \* the sessions that may be created
  EarlyStop,   \* may stop() be called before run() is in io_context_.run()?
  HandlerStop, \* do handlers call stop()?
  MaxRuns,     \* bound: calls of run()
  CntMax       \* largest value of session_cnt_ (2^32 - 1 in the code)

(* run() throws for thread_num_ = 0 before it does anything; callers of      *)
(* stop() and sessions are not mistaken for the threads of the server.     *)
ASSUME ServerAssumption ==
  /\ ThreadNum \in Nat \ {0}
  /\ Stoppers \cap Nat = {}
  /\ Sessions \cap {"out", "run"} = {}
  /\ EarlyStop \in BOOLEAN
  /\ HandlerStop \in BOOLEAN
  /\ MaxRuns \in Nat
  /\ CntMax \in Nat

VARIABLES
  runPc,     \* where the caller of run() is, "out" if it is not in run()
  stopPc,    \* the same for each caller of stop()
  stopped,   \* io_context_.stopped()
  acceptor,  \* acceptor_: "closed", "open", "listening"
  accepts,   \* outstanding async_accept operations
  failed,    \* completions of async_accept with an error, waiting in the io_context
  spawned,   \* threads this run() has started
  pool,      \* io_thread_pool_: the threads not joined yet
  thr,       \* each thread: "out" of io_context_.run(), in it, or the session it serves
  sess,      \* the sessions: "none", "live", "gone"
  survivors, \* history: the sessions that lived when run() last reset the counts
  cnt,       \* session_cnt_
  runs,      \* calls of run() so far
  down,      \* a stop() that found the server running has returned, and run() was not called since
  owner,     \* the HttpServer object exists
  aborted    \* stop() has brought the program down

acceptVars == <<acceptor, accepts, failed>>
poolVars == <<spawned, pool, thr>>
sessVars == <<sess, survivors, cnt>>
lifeVars == <<owner, aborted>>
vars == <<runPc, stopPc, stopped, acceptVars, poolVars, sessVars, runs, down, lifeVars>>

(* Thread 0 is the caller of run(). *)
Threads == 0..(ThreadNum - 1)

(* Who may be inside stop(). *)
Callers == IF HandlerStop THEN Stoppers \cup Threads ELSE Stoppers

(* ++ and -- of the gauge wrap around. *)
Inc(k) == IF k = CntMax THEN 0 ELSE k + 1
Dec(k) == IF k = 0 THEN CntMax ELSE k - 1

(* The constructor leaves the io_context stopped. *)
Init ==
  /\ runPc = "out"
  /\ stopPc = [c \in Callers |-> "out"]
  /\ stopped = TRUE
  /\ acceptor = "closed"
  /\ accepts = 0
  /\ failed = 0
  /\ spawned = 0
  /\ pool = {}
  /\ thr = [t \in Threads |-> "out"]
  /\ sess = [s \in Sessions |-> "none"]
  /\ survivors = {}
  /\ cnt = 0
  /\ runs = 0
  /\ down = FALSE
  /\ owner = TRUE
  /\ aborted = FALSE

-----------------------------------------------------------------------------
(* run(), with options that pass its checks; it is called when no run() and  *)
(* no stop() is under way.                                                 *)
RunCall ==
  /\ runPc = "out"
  /\ owner
  /\ runs < MaxRuns
  /\ \A c \in Callers : stopPc[c] = "out"
  /\ runPc' = "reset"
  /\ runs' = runs + 1
  /\ down' = FALSE
  /\ UNCHANGED <<stopPc, stopped, acceptVars, poolVars, sessVars, lifeVars>>

(* The sessions that are not destroyed yet. *)
Live == {s \in Sessions : sess[s] = "live"}

(* The statistics start from zero, and so do the ids of sessions, which are  *)
(* left out here.                                                          *)
RunReset ==
  /\ runPc = "reset"
  /\ cnt' = 0
  /\ survivors' = Live
  /\ runPc' = "restart"
  /\ UNCHANGED <<stopPc, stopped, acceptVars, poolVars, sess, runs, down, lifeVars>>

RunRestart ==
  /\ runPc = "restart"
  /\ stopped' = FALSE
  /\ runPc' = "open"
  /\ UNCHANGED <<stopPc, acceptVars, poolVars, sessVars, runs, down, lifeVars>>

(* open() fails on an acceptor that is open already; then run() throws. *)
RunOpen ==
  /\ runPc = "open"
  /\ IF acceptor = "closed"
     THEN acceptor' = "open" /\ runPc' = "bind"
     ELSE acceptor' = acceptor /\ runPc' = "out"
  /\ UNCHANGED <<stopPc, stopped, accepts, failed, poolVars, sessVars, runs, down, lifeVars>>

(* The socket options, bind() and listen() succeed. *)
RunListen ==
  /\ runPc = "bind"
  /\ acceptor = "open"
  /\ acceptor' = "listening"
  /\ runPc' = "accept"
  /\ UNCHANGED <<stopPc, stopped, accepts, failed, poolVars, sessVars, runs, down, lifeVars>>

(* The address does not parse or one of the calls fails, as when the port is *)
(* in use, and run() throws.                                               *)
RunThrows ==
  /\ runPc \in {"open", "bind"}
  /\ runPc' = "out"
  /\ UNCHANGED <<stopPc, stopped, acceptVars, poolVars, sessVars, runs, down, lifeVars>>

(* Mutant: onAccept and doAccept() both start the next operation. *)
DoAcceptTwice(a, f) == accepts' = a + 2 /\ failed' = f

(* doAccept(): on a closed acceptor the operation fails at once. *)
DoAccept(a, f) ==
  IF acceptor = "closed"
  THEN accepts' = a /\ failed' = f + 1
  ELSE accepts' = a + 1 /\ failed' = f

RunAccept ==
  /\ runPc = "accept"
  /\ DoAccept(accepts, failed)
  /\ spawned' = 0
  /\ runPc' = "spawn"
  /\ UNCHANGED <<stopPc, stopped, acceptor, pool, thr, sessVars, runs, down, lifeVars>>

(* One turn of the loop that starts the threads. *)
RunSpawn ==
  /\ runPc = "spawn"
  /\ spawned < ThreadNum - 1
  /\ spawned' = spawned + 1
  /\ pool' = pool \cup {spawned'}
  /\ thr' = [thr EXCEPT ![spawned'] = "run"]
  /\ UNCHANGED <<runPc, stopPc, stopped, acceptVars, sessVars, runs, down, lifeVars>>

(* Mutant: run() does not wait; a thread that nobody joins does its share. *)
RunIoDetached ==
  /\ runPc = "spawn"
  /\ spawned = ThreadNum - 1
  /\ thr' = [thr EXCEPT ![0] = "run"]
  /\ runPc' = "out"
  /\ UNCHANGED <<stopPc, stopped, acceptVars, spawned, pool, sessVars, runs, down, lifeVars>>

(* The caller enters io_context_.run(). *)
RunIo ==
  /\ runPc = "spawn"
  /\ spawned = ThreadNum - 1
  /\ thr' = [thr EXCEPT ![0] = "run"]
  /\ runPc' = "io"
  /\ UNCHANGED <<stopPc, stopped, acceptVars, spawned, pool, sessVars, runs, down, lifeVars>>

(* io_context_.run() returns in t; in the caller of run() that is the end of *)
(* run().                                                                  *)
ThreadExit(t) ==
  /\ thr[t] = "run"
  /\ stopped
  /\ thr' = [thr EXCEPT ![t] = "out"]
  /\ runPc' = IF t = 0 THEN "out" ELSE runPc
  /\ UNCHANGED <<stopPc, stopped, acceptVars, spawned, pool, sessVars, runs, down, lifeVars>>

-----------------------------------------------------------------------------
(* Thread t may run a handler of the io_context. *)
CanRun(t) == thr[t] = "run" /\ ~stopped

(* A connection arrives: onAccept makes the session and runs it, then        *)
(* doAccept() replaces the operation that ended.                           *)
OnAccept(t, s) ==
  /\ CanRun(t)
  /\ accepts > 0
  /\ acceptor = "listening"
  /\ sess[s] = "none"
  /\ sess' = [sess EXCEPT ![s] = "live"]
  /\ cnt' = Inc(cnt)
  /\ DoAccept(accepts - 1, failed)
  /\ UNCHANGED <<runPc, stopPc, stopped, acceptor, poolVars, survivors, runs, down, lifeVars>>

(* The system turns an accept down (the connection was reset, no descriptor  *)
(* is free).                                                               *)
AcceptFails ==
  /\ accepts > 0
  /\ acceptor = "listening"
  /\ accepts' = accepts - 1
  /\ failed' = failed + 1
  /\ UNCHANGED <<runPc, stopPc, stopped, acceptor, poolVars, sessVars, runs, down, lifeVars>>

(* Mutant: after an error no other connection is accepted. *)
OnAcceptErrorGivesUp(t) ==
  /\ CanRun(t)
  /\ failed > 0
  /\ failed' = failed - 1
  /\ UNCHANGED <<runPc, stopPc, stopped, acceptor, accepts, poolVars, sessVars, runs, down, lifeVars>>

(* Mutant: the session is made, and counted, before the error is looked at.  *)
OnAcceptErrorCounts(t) ==
  /\ CanRun(t)
  /\ failed > 0
  /\ cnt' = Inc(cnt)
  /\ DoAccept(accepts, failed - 1)
  /\ UNCHANGED <<runPc, stopPc, stopped, acceptor, poolVars, sess, survivors, runs, down, lifeVars>>

(* onAccept with an error. *)
OnAcceptError(t) ==
  /\ CanRun(t)
  /\ failed > 0
  /\ DoAccept(accepts, failed - 1)
  /\ UNCHANGED <<runPc, stopPc, stopped, acceptor, poolVars, sessVars, runs, down, lifeVars>>

(* A handler of the application runs for session s, and returns. *)
HandlerStart(t, s) ==
  /\ CanRun(t)
  /\ sess[s] = "live"
  /\ \A u \in Threads : thr[u] # s
  /\ thr' = [thr EXCEPT ![t] = s]
  /\ UNCHANGED <<runPc, stopPc, stopped, acceptVars, spawned, pool, sessVars, runs, down, lifeVars>>

HandlerEnd(t) ==
  /\ thr[t] \in Sessions
  /\ t \in Callers => stopPc[t] = "out"
  /\ thr' = [thr EXCEPT ![t] = "run"]
  /\ UNCHANGED <<runPc, stopPc, stopped, acceptVars, spawned, pool, sessVars, runs, down, lifeVars>>

(* A session ends and is destroyed, in one of its own handlers or where the  *)
(* application drops its last writer.                                      *)
SessionEnd(s) ==
  /\ sess[s] = "live"
  /\ \A u \in Threads : thr[u] # s
  /\ sess' = [sess EXCEPT ![s] = "gone"]
  /\ cnt' = Dec(cnt)
  /\ UNCHANGED <<runPc, stopPc, stopped, acceptVars, poolVars, survivors, runs, down, lifeVars>>

-----------------------------------------------------------------------------
(* stop(): nothing to end and to join if the io_context is stopped. *)
StopCall(c) ==
  /\ stopPc[c] = "out"
  /\ owner
  /\ c \in Threads => thr[c] \in Sessions
  /\ EarlyStop \/ runPc \in {"out", "io"}
  /\ stopPc' = [stopPc EXCEPT ![c] = IF stopped THEN "skip" ELSE "stop"]
  /\ UNCHANGED <<runPc, stopped, acceptVars, poolVars, sessVars, runs, down, lifeVars>>

(* Mutant: the io_context is not stopped. *)
StopIoForgets(c) ==
  /\ stopPc[c] = "stop"
  /\ stopPc' = [stopPc EXCEPT ![c] = "join"]
  /\ UNCHANGED <<runPc, stopped, acceptVars, poolVars, sessVars, runs, down, lifeVars>>

StopIo(c) ==
  /\ stopPc[c] = "stop"
  /\ stopped' = TRUE
  /\ stopPc' = [stopPc EXCEPT ![c] = "join"]
  /\ UNCHANGED <<runPc, acceptVars, poolVars, sessVars, runs, down, lifeVars>>

(* Mutant: the threads are let go, not joined. *)
StopJoinDetaches(c) ==
  /\ stopPc[c] = "join"
  /\ pool' = {}
  /\ stopPc' = [stopPc EXCEPT ![c] = "close"]
  /\ UNCHANGED <<runPc, stopped, acceptVars, spawned, thr, sessVars, runs, down, lifeVars>>

(* All threads of the pool are joined and dropped. *)
StopJoin(c) ==
  /\ stopPc[c] = "join"
  /\ \A t \in pool : thr[t] = "out"
  /\ pool' = {}
  /\ stopPc' = [stopPc EXCEPT ![c] = "close"]
  /\ UNCHANGED <<runPc, stopped, acceptVars, spawned, thr, sessVars, runs, down, lifeVars>>

(* A thread of the pool that comes to itself in that loop cannot join:       *)
(* join() throws, and handle(), through which it goes, is noexcept.        *)
StopSelfJoin(c) ==
  /\ stopPc[c] = "join"
  /\ c \in pool
  /\ \A t \in pool : t < c => thr[t] = "out"
  /\ aborted' = TRUE
  /\ UNCHANGED <<runPc, stopPc, stopped, acceptVars, poolVars, sessVars, runs, down, owner>>

(* Two calls of stop() in that loop join the same thread, and one clears the *)
(* vector the other walks: undefined, so they may get away with it or not. *)
StopRace(c) ==
  /\ stopPc[c] = "join"
  /\ pool # {}
  /\ \E d \in Callers \ {c} : stopPc[d] = "join"
  /\ aborted' = TRUE
  /\ UNCHANGED <<runPc, stopPc, stopped, acceptVars, poolVars, sessVars, runs, down, owner>>

(* Mutant: the aborted accepts do not come back. *)
StopCloseDrops(c) ==
  /\ stopPc[c] \in {"skip", "close"}
  /\ acceptor' = "closed"
  /\ accepts' = 0
  /\ failed' = failed
  /\ stopPc' = [stopPc EXCEPT ![c] = "out"]
  /\ down' = (down \/ stopPc[c] = "close")
  /\ UNCHANGED <<runPc, stopped, poolVars, sessVars, runs, lifeVars>>

(* close() aborts the accepts, if the acceptor is open, and stop() returns. *)
StopClose(c) ==
  /\ stopPc[c] \in {"skip", "close"}
  /\ acceptor' = "closed"
  /\ accepts' = 0
  /\ failed' = failed + accepts
  /\ stopPc' = [stopPc EXCEPT ![c] = "out"]
  /\ down' = (down \/ stopPc[c] = "close")
  /\ UNCHANGED <<runPc, stopped, poolVars, sessVars, runs, lifeVars>>

(* ~HttpServer, when none of its functions is being called. *)
Destroy ==
  /\ owner
  /\ runPc = "out"
  /\ \A c \in Callers : stopPc[c] = "out"
  /\ owner' = FALSE
  /\ UNCHANGED <<runPc, stopPc, stopped, acceptVars, poolVars, sessVars, runs, down, aborted>>

(* The HttpServerImpl lives as long as the HttpServer or an accept owns it. *)
ImplAlive == owner \/ accepts + failed > 0

-----------------------------------------------------------------------------
RunNext ==
  \/ RunReset \/ RunRestart \/ RunOpen \/ RunListen \/ RunThrows \/ RunAccept
  \/ RunSpawn \/ RunIo

StopNext(c) ==
  StopIo(c) \/ StopJoin(c) \/ StopSelfJoin(c) \/ StopRace(c) \/ StopClose(c)

Next ==
  /\ ~aborted
  /\ \/ RunCall
     \/ RunNext
     \/ AcceptFails
     \/ \E t \in Threads : ThreadExit(t) \/ OnAcceptError(t) \/ HandlerEnd(t)
     \/ \E t \in Threads, s \in Sessions : OnAccept(t, s) \/ HandlerStart(t, s)
     \/ \E s \in Sessions : SessionEnd(s)
     \/ \E c \in Callers : StopCall(c) \/ StopNext(c)
     \/ Destroy

Spec == Init /\ [][Next]_vars

(* Threads that can go on do, and handlers return, however often they call   *)
(* stop() before.                                                          *)
Fairness ==
  /\ WF_vars(~aborted /\ RunNext)
  /\ \A t \in Threads : /\ WF_vars(~aborted /\ ThreadExit(t))
                        /\ SF_vars(~aborted /\ HandlerEnd(t))
  /\ \A c \in Callers : WF_vars(~aborted /\ StopNext(c))

FairSpec == Spec /\ Fairness

-----------------------------------------------------------------------------
(* PROPERTIES *)

(* Types of the variables; no thread but the caller is outside the pool, and *)
(* there are no more accepts under way than calls of run() began.          *)
TypeOK ==
  /\ runPc \in {"out", "reset", "restart", "open", "bind", "accept", "spawn", "io"}
  /\ stopPc \in [Callers -> {"out", "skip", "stop", "join", "close"}]
  /\ stopped \in BOOLEAN
  /\ acceptor \in {"closed", "open", "listening"}
  /\ accepts \in Nat
  /\ failed \in Nat
  /\ accepts + failed <= runs
  /\ spawned \in 0..(ThreadNum - 1)
  /\ pool \subseteq 1..(ThreadNum - 1)
  /\ thr \in [Threads -> {"out", "run"} \cup Sessions]
  /\ sess \in [Sessions -> {"none", "live", "gone"}]
  /\ survivors \subseteq Sessions
  /\ cnt \in Nat
  /\ runs \in Nat
  /\ down \in BOOLEAN
  /\ owner \in BOOLEAN
  /\ aborted \in BOOLEAN

(* A server that runs goes on accepting, through errors of accept() and      *)
(* through any number of restarts: the acceptor listens and an accept is   *)
(* outstanding, or its failure is about to be handled.  It is also what    *)
(* keeps io_context_.run() from returning for lack of work.                *)
KeepsAccepting ==
  runPc = "io" /\ ~stopped => acceptor = "listening" /\ accepts + failed > 0

(* When a stop() that found the server running has returned, no thread that  *)
(* run() started is left, whatever it was doing and whoever else calls     *)
(* stop(), and no connection is accepted.                                  *)
PoolJoined ==
  down => pool = {} /\ acceptor = "closed" /\ \A t \in Threads \ {0} : thr[t] = "out"

(* "user should keep handler alive until the server stop": no handler runs   *)
(* any more when that stop() and run() have both returned.  (With stop()   *)
(* alone it may, in the caller of run().)                                  *)
HandlersDone == down /\ runPc = "out" => \A t \in Threads : thr[t] \notin Sessions

(* "this method will block until stop() is called": once stop() is called,   *)
(* in handlers or elsewhere, run() returns, unless the program goes down.  *)
StopEndsRun ==
  \A c \in Callers : stopPc[c] # "out" /\ runPc # "out" ~> runPc = "out" \/ aborted

(* stop() is "threadsafe": it does not bring the program down, by joining a  *)
(* thread twice or from itself.                                            *)
StopSafe == ~aborted

(* A session uses the options, the statistics and the router of its server,  *)
(* in the io_context and wherever a writer is used or dropped: as long as  *)
(* one lives the HttpServerImpl does, even after ~HttpServer.              *)
ImplOutlivesSessions == Live # {} => ImplAlive

(* session_cnt_ is the "http server current session count", modulo its       *)
(* width, through any number of accepts, failed ones among them, and of    *)
(* restarts that no session survives.                                      *)
SessionCount == survivors = {} => cnt = Cardinality(Live) % (CntMax + 1)
=============================================================================
