--------------------------- MODULE HttpServerProofs ---------------------------
(***************************************************************************)
(* Proofs about HttpServer for any number of threads, sessions, callers of *)
(* stop() and restarts.                                                    *)
(***************************************************************************)
EXTENDS HttpServer, FiniteSetTheorems, TLAPS

(* run() has been called and has not started its accept yet. *)
Starting == {"reset", "restart", "open", "bind", "accept"}

(* Each run() starts one chain of accepts, which no step forks. *)
AcceptCount == accepts + failed + (IF runPc \in Starting THEN 1 ELSE 0) <= runs

(* One action or another, as the proofs take Next apart. *)
IoNext ==
  \/ AcceptFails
  \/ \E t \in Threads : ThreadExit(t) \/ OnAcceptError(t) \/ HandlerEnd(t)
  \/ \E t \in Threads, s \in Sessions : OnAccept(t, s) \/ HandlerStart(t, s)
  \/ \E s \in Sessions : SessionEnd(s)

StopAny == \E c \in Callers : StopCall(c) \/ StopNext(c)

(* Next is a step of run(), of the io_context, of stop() or the end. *)
LEMMA NextCases ==
  Next <=> ~aborted /\ (RunCall \/ RunNext \/ IoNext \/ StopAny \/ Destroy)
BY DEF Next, IoNext, StopAny

-----------------------------------------------------------------------------
(* Types and the count of accepts hold at the start. *)
LEMMA TypeInit == Init => TypeOK /\ AcceptCount
<1>1. ASSUME Init PROVE TypeOK
  <2>1. stopped \in BOOLEAN /\ down \in BOOLEAN /\ owner \in BOOLEAN /\ aborted \in BOOLEAN
    BY <1>1, Zenon DEF Init
  <2>2. spawned \in 0..(ThreadNum - 1) /\ pool \subseteq 1..(ThreadNum - 1)
        /\ accepts \in Nat /\ failed \in Nat /\ accepts + failed <= runs
        /\ cnt \in Nat /\ runs \in Nat
    BY <1>1, ServerAssumption DEF Init
  <2>3. stopPc \in [Callers -> {"out", "skip", "stop", "join", "close"}]
        /\ thr \in [Threads -> {"out", "run"} \cup Sessions]
        /\ sess \in [Sessions -> {"none", "live", "gone"}]
        /\ survivors \subseteq Sessions
    BY <1>1 DEF Init
  <2> QED
    BY <1>1, <2>1, <2>2, <2>3 DEF Init, TypeOK
<1>2. Init => AcceptCount
  BY DEF Init, AcceptCount, Starting
<1> QED
  BY <1>1, <1>2

(* run() keeps them. *)
LEMMA TypeRun ==
  TypeOK /\ AcceptCount /\ (RunCall \/ RunNext) => TypeOK' /\ AcceptCount'
<1> SUFFICES ASSUME TypeOK, AcceptCount, RunCall \/ RunNext
             PROVE  TypeOK' /\ AcceptCount'
  OBVIOUS
<1> USE ServerAssumption DEF TypeOK, AcceptCount, Starting, Threads, acceptVars,
        poolVars, sessVars, lifeVars
<1>1. CASE RunCall
  <2>1. runs' = runs + 1 /\ accepts' = accepts /\ failed' = failed /\ runPc' = "reset"
    BY <1>1 DEF RunCall
  <2>2. TypeOK'
    <3>1. down' \in BOOLEAN /\ owner' \in BOOLEAN
      BY <1>1, Zenon DEF RunCall
    <3>2. accepts' + failed' <= runs' /\ runs' \in Nat
      BY <2>1
    <3> QED
      BY <1>1, <2>1, <3>1, <3>2 DEF RunCall
  <2>3. AcceptCount'
    BY <2>1
  <2> QED
    BY <2>2, <2>3
<1>2. CASE RunReset
  BY <1>2 DEF RunReset, Live
<1>3. CASE RunRestart
  BY <1>3 DEF RunRestart
<1>4. CASE RunOpen
  BY <1>4 DEF RunOpen
<1>5. CASE RunListen
  BY <1>5 DEF RunListen
<1>6. CASE RunThrows
  BY <1>6 DEF RunThrows
<1>7. CASE RunAccept
  BY <1>7 DEF RunAccept, DoAccept
<1>8. CASE RunSpawn
  BY <1>8 DEF RunSpawn
<1>9. CASE RunIo
  BY <1>9 DEF RunIo
<1> QED
  BY <1>1, <1>2, <1>3, <1>4, <1>5, <1>6, <1>7, <1>8, <1>9 DEF RunNext

(* The io_context keeps them. *)
LEMMA TypeIo ==
  TypeOK /\ AcceptCount /\ IoNext => TypeOK' /\ AcceptCount'
<1> SUFFICES ASSUME TypeOK, AcceptCount, IoNext
             PROVE  TypeOK' /\ AcceptCount'
  OBVIOUS
<1> USE ServerAssumption DEF TypeOK, AcceptCount, Starting, Threads, acceptVars,
        poolVars, sessVars, lifeVars
<1>1. CASE AcceptFails
  BY <1>1 DEF AcceptFails
<1>2. ASSUME NEW t \in Threads, ThreadExit(t) PROVE TypeOK' /\ AcceptCount'
  BY <1>2 DEF ThreadExit
<1>3. ASSUME NEW t \in Threads, OnAcceptError(t) PROVE TypeOK' /\ AcceptCount'
  BY <1>3 DEF OnAcceptError, DoAccept, CanRun
<1>4. ASSUME NEW t \in Threads, HandlerEnd(t) PROVE TypeOK' /\ AcceptCount'
  BY <1>4 DEF HandlerEnd
<1>5. ASSUME NEW t \in Threads, NEW s \in Sessions, OnAccept(t, s)
      PROVE  TypeOK' /\ AcceptCount'
  BY <1>5 DEF OnAccept, DoAccept, CanRun, Inc
<1>6. ASSUME NEW t \in Threads, NEW s \in Sessions, HandlerStart(t, s)
      PROVE  TypeOK' /\ AcceptCount'
  BY <1>6 DEF HandlerStart
<1>7. ASSUME NEW s \in Sessions, SessionEnd(s) PROVE TypeOK' /\ AcceptCount'
  BY <1>7 DEF SessionEnd, Dec
<1> QED
  BY <1>1, <1>2, <1>3, <1>4, <1>5, <1>6, <1>7 DEF IoNext

(* stop() and ~HttpServer keep them. *)
LEMMA TypeStop ==
  TypeOK /\ AcceptCount /\ (StopAny \/ Destroy) => TypeOK' /\ AcceptCount'
<1> SUFFICES ASSUME TypeOK, AcceptCount, StopAny \/ Destroy
             PROVE  TypeOK' /\ AcceptCount'
  OBVIOUS
<1> USE ServerAssumption DEF TypeOK, AcceptCount, Starting, Threads, acceptVars,
        poolVars, sessVars, lifeVars
<1>1. ASSUME NEW c \in Callers, StopCall(c) PROVE TypeOK' /\ AcceptCount'
  BY <1>1 DEF StopCall
<1>2. ASSUME NEW c \in Callers, StopIo(c) PROVE TypeOK' /\ AcceptCount'
  BY <1>2 DEF StopIo
<1>3. ASSUME NEW c \in Callers, StopJoin(c) PROVE TypeOK' /\ AcceptCount'
  BY <1>3 DEF StopJoin
<1>4. ASSUME NEW c \in Callers, StopSelfJoin(c) PROVE TypeOK' /\ AcceptCount'
  BY <1>4 DEF StopSelfJoin
<1>7. ASSUME NEW c \in Callers, StopRace(c) PROVE TypeOK' /\ AcceptCount'
  BY <1>7 DEF StopRace
<1>5. ASSUME NEW c \in Callers, StopClose(c) PROVE TypeOK' /\ AcceptCount'
  BY <1>5 DEF StopClose
<1>6. CASE Destroy
  BY <1>6 DEF Destroy
<1> QED
  BY <1>1, <1>2, <1>3, <1>4, <1>5, <1>6, <1>7 DEF StopAny, StopNext

(* Types hold, and each run() has started one chain of accepts at most. *)
LEMMA TypeAll == Spec => [](TypeOK /\ AcceptCount)
<1>1. TypeOK /\ AcceptCount /\ [Next]_vars => TypeOK' /\ AcceptCount'
  <2>1. TypeOK /\ AcceptCount /\ UNCHANGED vars => TypeOK' /\ AcceptCount'
    BY DEF TypeOK, AcceptCount, vars, acceptVars, poolVars, sessVars, lifeVars
  <2> QED
    BY <2>1, NextCases, TypeRun, TypeIo, TypeStop
<1> QED
  BY TypeInit, <1>1, PTL DEF Spec

(* Type correctness of the server; the part that could go wrong is that no  *)
(* error of accept() and no restart ever doubles the chain of accepts.     *)
THEOREM TypeCorrect == Spec => []TypeOK
BY TypeAll, PTL

-----------------------------------------------------------------------------
(* Sessions come from accepts, and the chain of accepts never ends: stop()   *)
(* turns what is pending into failures that stay in the io_context.        *)
Owned == (\E s \in Sessions : sess[s] = "live") => accepts + failed > 0

(* No step takes the last accept away, and only onAccept makes a session. *)
LEMMA OwnedStep == TypeOK /\ Owned /\ [Next]_vars => Owned'
<1> SUFFICES ASSUME TypeOK, Owned, [Next]_vars
             PROVE  Owned'
  OBVIOUS
<1>0. accepts \in Nat /\ failed \in Nat /\ sess \in [Sessions -> {"none", "live", "gone"}]
  BY DEF TypeOK
<1>1. ASSUME sess' = sess, accepts' + failed' >= accepts + failed,
             accepts' \in Nat, failed' \in Nat
      PROVE  Owned'
  <2>1. accepts + failed > 0 => accepts' + failed' > 0
    <3>1. \A a, f, b, g \in Nat : a + f > 0 /\ b + g >= a + f => b + g > 0
      OBVIOUS
    <3> QED
      BY <1>0, <1>1, <3>1, Zenon
  <2>2. (\E s \in Sessions : sess'[s] = "live") <=> \E s \in Sessions : sess[s] = "live"
    BY <1>1
  <2> QED
    BY <2>1, <2>2 DEF Owned
<1> USE <1>0 DEF acceptVars, poolVars, sessVars, lifeVars
<1>2. CASE RunCall \/ RunNext
  <2>1. CASE RunAccept
    BY <2>1, <1>1 DEF RunAccept, DoAccept
  <2>2. CASE ~RunAccept
    BY <1>2, <2>2, <1>1 DEF RunCall, RunNext, RunReset, RunRestart, RunOpen, RunListen,
       RunThrows, RunSpawn, RunIo
  <2> QED
    BY <2>1, <2>2
<1>3. CASE IoNext
  <2>1. CASE AcceptFails
    BY <2>1, <1>1 DEF AcceptFails
  <2>2. ASSUME NEW u \in Threads, ThreadExit(u) \/ OnAcceptError(u) \/ HandlerEnd(u)
        PROVE  Owned'
    BY <2>2, <1>1 DEF ThreadExit, OnAcceptError, HandlerEnd, DoAccept
  <2>3. ASSUME NEW u \in Threads, NEW s \in Sessions, OnAccept(u, s) PROVE Owned'
    BY <2>3 DEF OnAccept, DoAccept, Owned
  <2>4. ASSUME NEW u \in Threads, NEW s \in Sessions, HandlerStart(u, s) PROVE Owned'
    BY <2>4, <1>1 DEF HandlerStart
  <2>5. ASSUME NEW s \in Sessions, SessionEnd(s) PROVE Owned'
    BY <2>5 DEF SessionEnd, Owned
  <2> QED
    BY <1>3, <2>1, <2>2, <2>3, <2>4, <2>5 DEF IoNext
<1>4. CASE StopAny
  <2>1. ASSUME NEW c \in Callers, StopClose(c) PROVE Owned'
    BY <2>1, <1>1 DEF StopClose
  <2>2. ASSUME NEW c \in Callers, StopCall(c) \/ StopIo(c) \/ StopJoin(c) \/ StopSelfJoin(c) \/ StopRace(c)
        PROVE  Owned'
    BY <2>2, <1>1 DEF StopCall, StopIo, StopJoin, StopSelfJoin, StopRace
  <2> QED
    BY <1>4, <2>1, <2>2 DEF StopAny, StopNext
<1>5. CASE Destroy
  BY <1>5, <1>1 DEF Destroy
<1>6. CASE UNCHANGED vars
  BY <1>6, <1>1 DEF vars
<1> QED
  BY <1>2, <1>3, <1>4, <1>5, <1>6, NextCases

(* The HttpServerImpl outlives every session, whatever order the HttpServer,  *)
(* the accepts and the last writers go in: what the sessions refer to in   *)
(* their destructors and in send() still exists.                           *)
THEOREM ImplOutlivesSessionsCorrect == Spec => []ImplOutlivesSessions
<1>1. Init => Owned
  BY DEF Init, Owned
<1>2. Owned => ImplOutlivesSessions
  BY DEF Owned, ImplOutlivesSessions, ImplAlive, Live
<1> QED
  BY <1>1, <1>2, OwnedStep, TypeAll, PTL DEF Spec

-----------------------------------------------------------------------------
(* An application that calls stop() only while the server runs. *)
LateStop == EarlyStop = FALSE

(* What run() has reached when no stop() can be under way, and what stop()   *)
(* has reached when the server still thinks it runs.                       *)
Order ==
  /\ runPc \notin {"out", "io"} => \A c \in Callers : stopPc[c] = "out"
  /\ runPc \in {"open", "bind", "accept", "spawn"} => ~stopped
  /\ runPc = "accept" => acceptor = "listening"
  /\ runPc = "spawn" => acceptor = "listening" /\ accepts + failed > 0
  /\ \A c \in Callers : stopPc[c] \in {"skip", "join", "close"} => stopped

Accepting == Order /\ KeepsAccepting

(* run() keeps the order. *)
LEMMA OrderRun ==
  ASSUME LateStop, TypeOK, Accepting, RunCall \/ RunNext PROVE Accepting'
<1> USE DEF Accepting, Order, KeepsAccepting, TypeOK, acceptVars, poolVars, sessVars, lifeVars
<1>1. CASE RunCall
  BY <1>1 DEF RunCall
<1>2. CASE RunReset
  BY <1>2 DEF RunReset, Live
<1>3. CASE RunRestart
  BY <1>3 DEF RunRestart
<1>4. CASE RunOpen
  BY <1>4 DEF RunOpen
<1>5. CASE RunListen
  BY <1>5 DEF RunListen
<1>6. CASE RunThrows
  BY <1>6 DEF RunThrows
<1>7. CASE RunAccept
  BY <1>7 DEF RunAccept, DoAccept
<1>8. CASE RunSpawn
  BY <1>8 DEF RunSpawn
<1>9. CASE RunIo
  BY <1>9 DEF RunIo
<1> QED
  BY <1>1, <1>2, <1>3, <1>4, <1>5, <1>6, <1>7, <1>8, <1>9 DEF RunNext

(* The io_context keeps it. *)
LEMMA OrderIo ==
  ASSUME LateStop, TypeOK, Accepting, IoNext PROVE Accepting'
<1> USE DEF Accepting, Order, KeepsAccepting, TypeOK, acceptVars, poolVars, sessVars, lifeVars
<1>1. CASE AcceptFails
  BY <1>1 DEF AcceptFails
<1>2. ASSUME NEW u \in Threads, ThreadExit(u) PROVE Accepting'
  BY <1>2 DEF ThreadExit
<1>3. ASSUME NEW u \in Threads, OnAcceptError(u) PROVE Accepting'
  BY <1>3 DEF OnAcceptError, DoAccept
<1>4. ASSUME NEW u \in Threads, HandlerEnd(u) PROVE Accepting'
  BY <1>4 DEF HandlerEnd
<1>5. ASSUME NEW u \in Threads, NEW s \in Sessions, OnAccept(u, s) PROVE Accepting'
  BY <1>5 DEF OnAccept, DoAccept
<1>6. ASSUME NEW u \in Threads, NEW s \in Sessions, HandlerStart(u, s) PROVE Accepting'
  BY <1>6 DEF HandlerStart
<1>7. ASSUME NEW s \in Sessions, SessionEnd(s) PROVE Accepting'
  BY <1>7 DEF SessionEnd
<1> QED
  BY <1>1, <1>2, <1>3, <1>4, <1>5, <1>6, <1>7 DEF IoNext

(* stop() keeps it: it closes the acceptor only of a stopped io_context. *)
LEMMA OrderStop ==
  ASSUME LateStop, TypeOK, Accepting, StopAny \/ Destroy PROVE Accepting'
<1> USE DEF Accepting, Order, KeepsAccepting, TypeOK, acceptVars, poolVars, sessVars, lifeVars
<1>1. ASSUME NEW c \in Callers, StopCall(c) PROVE Accepting'
  BY <1>1 DEF StopCall, LateStop
<1>2. ASSUME NEW c \in Callers, StopIo(c) PROVE Accepting'
  BY <1>2 DEF StopIo
<1>3. ASSUME NEW c \in Callers, StopJoin(c) PROVE Accepting'
  BY <1>3 DEF StopJoin
<1>4. ASSUME NEW c \in Callers, StopSelfJoin(c) PROVE Accepting'
  BY <1>4 DEF StopSelfJoin
<1>7. ASSUME NEW c \in Callers, StopRace(c) PROVE Accepting'
  BY <1>7 DEF StopRace
<1>5. ASSUME NEW c \in Callers, StopClose(c) PROVE Accepting'
  BY <1>5 DEF StopClose
<1>6. CASE Destroy
  BY <1>6 DEF Destroy
<1> QED
  BY <1>1, <1>2, <1>3, <1>4, <1>5, <1>6, <1>7 DEF StopAny, StopNext

(* A server that runs goes on accepting, with any number of threads in      *)
(* stop(), through every failure of accept() and every restart, if stop()  *)
(* is not called before run() is in io_context_.run().                     *)
THEOREM KeepsAcceptingCorrect == ASSUME LateStop PROVE Spec => []KeepsAccepting
<1>1. Init => Accepting
  BY DEF Init, Accepting, Order, KeepsAccepting
<1>2. TypeOK /\ Accepting /\ [Next]_vars => Accepting'
  <2>1. Accepting /\ UNCHANGED vars => Accepting'
    BY DEF Accepting, Order, KeepsAccepting, vars, acceptVars, poolVars, sessVars, lifeVars
  <2> QED
    BY <2>1, NextCases, OrderRun, OrderIo, OrderStop
<1>3. Accepting => KeepsAccepting
  BY DEF Accepting
<1> QED
  BY <1>1, <1>2, <1>3, TypeAll, PTL DEF Spec

-----------------------------------------------------------------------------
(* The threads at work are in the pool until they are joined, and it is empty *)
(* wherever no stop() will come to empty it.                               *)
Joined ==
  /\ \A t \in Threads \ {0} : thr[t] # "out" => t \in pool
  /\ runPc \in Starting => pool = {}
  /\ runPc = "out" /\ ~stopped => pool = {}
  /\ \A c \in Callers : stopPc[c] = "close" => pool = {}
  /\ stopped /\ (\A c \in Callers : stopPc[c] \notin {"stop", "join"}) => pool = {}
  /\ down => pool = {} /\ acceptor = "closed" /\ runPc \in {"out", "io"}
  /\ thr[0] # "out" => runPc = "io"

(* run() keeps it. *)
LEMMA JoinedRun ==
  ASSUME TypeOK, Order, Joined, RunCall \/ RunNext PROVE Joined'
<1> USE ServerAssumption DEF Joined, Order, TypeOK, Starting, Threads, acceptVars, poolVars,
        sessVars, lifeVars
<1>1. CASE RunCall
  BY <1>1 DEF RunCall
<1>2. CASE RunReset
  BY <1>2 DEF RunReset, Live
<1>3. CASE RunRestart
  BY <1>3 DEF RunRestart
<1>4. CASE RunOpen
  BY <1>4 DEF RunOpen
<1>5. CASE RunListen
  BY <1>5 DEF RunListen
<1>6. CASE RunThrows
  BY <1>6 DEF RunThrows
<1>7. CASE RunAccept
  BY <1>7 DEF RunAccept, DoAccept
<1>8. CASE RunSpawn
  BY <1>8 DEF RunSpawn
<1>9. CASE RunIo
  BY <1>9 DEF RunIo
<1> QED
  BY <1>1, <1>2, <1>3, <1>4, <1>5, <1>6, <1>7, <1>8, <1>9 DEF RunNext

(* The io_context keeps it: only a thread that is in io_context_.run() takes  *)
(* up work.                                                                *)
LEMMA JoinedIo ==
  ASSUME TypeOK, Order, Joined, IoNext PROVE Joined'
<1> USE ServerAssumption DEF Joined, Order, TypeOK, Starting, Threads, acceptVars, poolVars,
        sessVars, lifeVars
<1>1. CASE AcceptFails
  BY <1>1 DEF AcceptFails
<1>2. ASSUME NEW u \in Threads, ThreadExit(u) PROVE Joined'
  BY <1>2 DEF ThreadExit
<1>3. ASSUME NEW u \in Threads, OnAcceptError(u) PROVE Joined'
  BY <1>3 DEF OnAcceptError, DoAccept
<1>4. ASSUME NEW u \in Threads, HandlerEnd(u) PROVE Joined'
  BY <1>4 DEF HandlerEnd
<1>5. ASSUME NEW u \in Threads, NEW s \in Sessions, OnAccept(u, s) PROVE Joined'
  BY <1>5 DEF OnAccept, DoAccept
<1>6. ASSUME NEW u \in Threads, NEW s \in Sessions, HandlerStart(u, s) PROVE Joined'
  BY <1>6 DEF HandlerStart, CanRun
<1>7. ASSUME NEW s \in Sessions, SessionEnd(s) PROVE Joined'
  BY <1>7 DEF SessionEnd
<1> QED
  BY <1>1, <1>2, <1>3, <1>4, <1>5, <1>6, <1>7 DEF IoNext

(* stop() keeps it: a stopped io_context that nobody is stopping has no       *)
(* threads left.                                                           *)
LEMMA JoinedStop ==
  ASSUME TypeOK, Order, Joined, StopAny \/ Destroy PROVE Joined'
<1> USE ServerAssumption DEF Joined, Order, TypeOK, Starting, Threads, acceptVars,
        poolVars, sessVars, lifeVars
<1>1. ASSUME NEW c \in Callers, StopCall(c) PROVE Joined'
  BY <1>1 DEF StopCall
<1>2. ASSUME NEW c \in Callers, StopIo(c) PROVE Joined'
  BY <1>2 DEF StopIo
<1>3. ASSUME NEW c \in Callers, StopJoin(c) PROVE Joined'
  BY <1>3 DEF StopJoin
<1>4. ASSUME NEW c \in Callers, StopSelfJoin(c) PROVE Joined'
  BY <1>4 DEF StopSelfJoin
<1>7. ASSUME NEW c \in Callers, StopRace(c) PROVE Joined'
  BY <1>7 DEF StopRace
<1>5. ASSUME NEW c \in Callers, StopClose(c) PROVE Joined'
  BY <1>5 DEF StopClose
<1>6. CASE Destroy
  BY <1>6 DEF Destroy
<1> QED
  BY <1>1, <1>2, <1>3, <1>4, <1>5, <1>6, <1>7 DEF StopAny, StopNext

(* Threads are where the calls of run() and stop() have put them. *)
LEMMA JoinedAll == ASSUME LateStop PROVE Spec => []Joined
<1> DEFINE I == Accepting /\ Joined
<1>1. Init => I
  BY ServerAssumption DEF Init, Accepting, Order, KeepsAccepting, Joined, Starting, Threads
<1>2. TypeOK /\ I /\ [Next]_vars => I'
  <2>1. I /\ UNCHANGED vars => I'
    BY DEF Accepting, Order, KeepsAccepting, Joined, vars, acceptVars, poolVars, sessVars,
       lifeVars
  <2>2. Accepting => Order
    BY DEF Accepting
  <2>3. TypeOK /\ I /\ Next => I'
    BY <2>2, NextCases, OrderRun, OrderIo, OrderStop, JoinedRun, JoinedIo, JoinedStop
  <2> QED
    BY <2>1, <2>3
<1> QED
  BY <1>1, <1>2, TypeAll, PTL DEF Spec

(* When a stop() that found the server running has returned, every thread    *)
(* that run() started has ended and nothing is accepted, however many      *)
(* threads and handlers call stop() while the server runs.                 *)
THEOREM PoolJoinedCorrect == ASSUME LateStop PROVE Spec => []PoolJoined
<1>1. Joined => PoolJoined
  BY DEF Joined, PoolJoined
<1> QED
  BY <1>1, JoinedAll, PTL

(* When that stop() and run() have both returned, no handler runs, so the    *)
(* application may delete its handlers.                                    *)
THEOREM HandlersDoneCorrect == ASSUME LateStop PROVE Spec => []HandlersDone
<1>1. Joined => HandlersDone
  BY ServerAssumption DEF Joined, HandlersDone, Threads
<1> QED
  BY <1>1, JoinedAll, PTL

-----------------------------------------------------------------------------
(* A server with one thread, or one caller of stop() outside the handlers. *)
CarefulStop ==
  ThreadNum = 1 \/ (HandlerStop = FALSE /\ \A c, d \in Stoppers : c = d)

(* stop() does not bring a program down whose server has one thread or that  *)
(* calls stop() from one thread of its own.                                *)
THEOREM StopSafeCorrect == ASSUME CarefulStop PROVE Spec => []StopSafe
<1>1. Init => StopSafe
  BY Zenon DEF Init, StopSafe
<1>2. TypeOK /\ StopSafe /\ [Next]_vars => StopSafe'
  <2> SUFFICES ASSUME TypeOK, StopSafe, [Next]_vars PROVE StopSafe'
    OBVIOUS
  <2> USE DEF StopSafe, lifeVars
  <2>1. ASSUME NEW c \in Callers, StopSelfJoin(c) \/ StopRace(c) PROVE FALSE
    <3>1. pool \subseteq 1..(ThreadNum - 1) /\ pool # {}
      BY <2>1 DEF TypeOK, StopSelfJoin, StopRace
    <3>2. ThreadNum # 1
      <4>1. PICK t \in pool : t \in 1..(ThreadNum - 1)
        BY <3>1
      <4> QED
        BY <4>1, ServerAssumption
    <3>3. Callers = Stoppers /\ \A d, e \in Stoppers : d = e
      BY <3>2 DEF CarefulStop, Callers
    <3>4. ~StopRace(c)
      BY <3>3 DEF StopRace
    <3>5. c \notin pool
      <4>1. \A t \in pool : t \in Nat
        BY <3>1, ServerAssumption
      <4>2. c \notin Nat
        BY <3>3, ServerAssumption
      <4> QED
        BY <4>1, <4>2
    <3> QED
      BY <2>1, <3>4, <3>5 DEF StopSelfJoin
  <2>2. CASE UNCHANGED vars
    BY <2>2 DEF vars
  <2>3. CASE RunCall \/ RunNext
    BY <2>3 DEF RunCall, RunNext, RunReset, RunRestart, RunOpen, RunListen, RunThrows,
       RunAccept, RunSpawn, RunIo
  <2>4. CASE IoNext
    BY <2>4 DEF IoNext, AcceptFails, ThreadExit, OnAcceptError, HandlerEnd, HandlerStart,
       OnAccept, SessionEnd
  <2>5. CASE StopAny
    BY <2>1, <2>5 DEF StopAny, StopNext, StopCall, StopIo, StopJoin, StopClose
  <2>6. CASE Destroy
    BY <2>6 DEF Destroy
  <2> QED
    BY <2>2, <2>3, <2>4, <2>5, <2>6, NextCases
<1> QED
  BY <1>1, <1>2, TypeAll, PTL DEF Spec

-----------------------------------------------------------------------------
(* A larger multiple of m is larger by m at least. *)
LEMMA Multiples ==
  ASSUME NEW m \in Nat \ {0}, NEW p \in Int, NEW q \in Int, p > q
  PROVE  m * p >= m * q + m
OBVIOUS

(* What remains of a when m is taken from it as often as possible. *)
LEMMA Residue ==
  ASSUME NEW m \in Nat \ {0}, NEW a \in Nat
  PROVE  a % m \in 0..(m - 1) /\ \E q \in Int : a = m * q + (a % m)
<1>1. a = m * (a \div m) + (a % m) /\ a % m \in 0..(m - 1) /\ (a \div m) \in Int
  OBVIOUS
<1> QED
  BY <1>1

(* Numbers are equal modulo m if and only if they differ by a multiple of m. *)
LEMMA Congruent ==
  ASSUME NEW m \in Nat \ {0}, NEW a \in Nat, NEW b \in Nat
  PROVE  a % m = b % m <=> \E k \in Int : a = b + m * k
<1>1. PICK p \in Int : a = m * p + (a % m)
  BY Residue
<1>2. PICK q \in Int : b = m * q + (b % m)
  BY Residue
<1>3. a % m \in 0..(m - 1) /\ b % m \in 0..(m - 1)
  BY Residue
<1>4. ASSUME a % m = b % m PROVE \E k \in Int : a = b + m * k
  <2>1. m * (p - q) = m * p - m * q /\ m * p \in Int /\ m * q \in Int
    OBVIOUS
  <2>2. a = b + m * (p - q)
    BY <1>1, <1>2, <1>3, <1>4, <2>1
  <2>3. p - q \in Int
    OBVIOUS
  <2> QED
    BY <2>2, <2>3
<1>5. ASSUME NEW k \in Int, a = b + m * k PROVE a % m = b % m
  <2>1. m * (q + k) = m * q + m * k /\ q + k \in Int
    OBVIOUS
  <2>2. m * p \in Int /\ m * (q + k) \in Int /\ m * q \in Int /\ m * k \in Int
    OBVIOUS
  <2>3. m * p + (a % m) = m * (q + k) + (b % m)
    BY <1>1, <1>2, <1>3, <1>5, <2>1, <2>2
  <2>4. ~(p > q + k)
    <3>1. p > q + k => m * p >= m * (q + k) + m
      BY <2>1, Multiples
    <3> QED
      BY <1>3, <2>2, <2>3, <3>1
  <2>5. ~(q + k > p)
    <3>1. q + k > p => m * (q + k) >= m * p + m
      BY <2>1, Multiples
    <3> QED
      BY <1>3, <2>2, <2>3, <3>1
  <2>6. p = q + k
    BY <2>1, <2>4, <2>5
  <2> QED
    BY <1>3, <2>2, <2>3, <2>6
<1> QED
  BY <1>4, <1>5

(* The gauge differs from the number of live sessions by the survivors and   *)
(* by the times it has wrapped around.                                     *)
Counted ==
  /\ IsFiniteSet(Live)
  /\ IsFiniteSet(survivors)
  /\ cnt <= CntMax
  /\ \E k \in Int :
       cnt + Cardinality(survivors) = Cardinality(Live) + (CntMax + 1) * k

(* The gauge goes up with a session that is accepted. *)
LEMMA CountedAccept ==
  ASSUME TypeOK, Counted, NEW t \in Threads, NEW s \in Sessions, OnAccept(t, s)
  PROVE  Counted'
<1> DEFINE m == CntMax + 1
<1>1. Live' = Live \cup {s} /\ s \notin Live /\ survivors' = survivors
  BY DEF OnAccept, Live, TypeOK
<1>2. IsFiniteSet(Live') /\ Cardinality(Live') = Cardinality(Live) + 1
  BY <1>1, FS_AddElement DEF Counted
<1>3. Cardinality(Live) \in Nat /\ Cardinality(survivors) \in Nat /\ cnt \in Nat /\ m \in Nat
  BY FS_CardinalityType, ServerAssumption DEF Counted, TypeOK
<1>4. PICK k \in Int : cnt + Cardinality(survivors) = Cardinality(Live) + m * k
  BY DEF Counted
<1>5. m * (k - 1) = m * k - m /\ m * k \in Int /\ k - 1 \in Int
  BY <1>3
<1> HIDE DEF m
<1>6. cnt' = IF cnt = m - 1 THEN 0 ELSE cnt + 1
  BY ServerAssumption DEF OnAccept, Inc, m
<1>7. \E j \in Int : cnt' + Cardinality(survivors') = Cardinality(Live') + m * j
  <2>1. CASE cnt = m - 1
    <3>1. cnt' + Cardinality(survivors') = Cardinality(Live') + m * (k - 1)
      BY <1>1, <1>2, <1>3, <1>4, <1>5, <1>6, <2>1
    <3> QED
      BY <1>5, <3>1
  <2>2. CASE cnt # m - 1
    <3>1. cnt' + Cardinality(survivors') = Cardinality(Live') + m * k
      BY <1>1, <1>2, <1>3, <1>4, <1>5, <1>6, <2>2
    <3> QED
      BY <3>1
  <2> QED
    BY <2>1, <2>2
<1>8. cnt' <= CntMax
  BY <1>3, <1>6, ServerAssumption DEF Counted, m
<1> QED
  BY <1>1, <1>2, <1>7, <1>8 DEF Counted, m

(* The gauge goes down with a session that ends, counted before or not. *)
LEMMA CountedEnd ==
  ASSUME TypeOK, Counted, NEW s \in Sessions, SessionEnd(s)
  PROVE  Counted'
<1> DEFINE m == CntMax + 1
<1>1. Live' = Live \ {s} /\ s \in Live /\ survivors' = survivors
  BY DEF SessionEnd, Live, TypeOK
<1>2. IsFiniteSet(Live') /\ Cardinality(Live') = Cardinality(Live) - 1
  BY <1>1, FS_RemoveElement DEF Counted
<1>3. Cardinality(Live) \in Nat /\ Cardinality(survivors) \in Nat /\ cnt \in Nat /\ m \in Nat
  BY FS_CardinalityType, ServerAssumption DEF Counted, TypeOK
<1>4. PICK k \in Int : cnt + Cardinality(survivors) = Cardinality(Live) + m * k
  BY DEF Counted
<1>5. m * (k + 1) = m * k + m /\ m * k \in Int /\ k + 1 \in Int
  BY <1>3
<1> HIDE DEF m
<1>6. cnt' = IF cnt = 0 THEN m - 1 ELSE cnt - 1
  BY ServerAssumption DEF SessionEnd, Dec, m
<1>7. \E j \in Int : cnt' + Cardinality(survivors') = Cardinality(Live') + m * j
  <2>1. CASE cnt = 0
    <3>1. cnt' + Cardinality(survivors') = Cardinality(Live') + m * (k + 1)
      BY <1>1, <1>2, <1>3, <1>4, <1>5, <1>6, <2>1
    <3> QED
      BY <1>5, <3>1
  <2>2. CASE cnt # 0
    <3>1. cnt' + Cardinality(survivors') = Cardinality(Live') + m * k
      BY <1>1, <1>2, <1>3, <1>4, <1>5, <1>6, <2>2
    <3> QED
      BY <3>1
  <2> QED
    BY <2>1, <2>2
<1>8. cnt' <= CntMax
  BY <1>3, <1>6, ServerAssumption DEF Counted, m
<1> QED
  BY <1>1, <1>2, <1>7, <1>8 DEF Counted, m

(* session_cnt_ is the number of live sessions, modulo its width, unless     *)
(* some survived the last reset, for any number of sessions and restarts   *)
(* and any width of the counter.                                           *)
THEOREM SessionCountCorrect == Spec => []SessionCount
<1>1. Init => Counted
  <2> SUFFICES ASSUME Init PROVE Counted
    OBVIOUS
  <2>1. Live = {} /\ survivors = {} /\ cnt = 0
    BY DEF Init, Live
  <2>2. IsFiniteSet({}) /\ Cardinality({}) = 0
    BY FS_EmptySet
  <2>3. 0 + 0 = 0 + (CntMax + 1) * 0 /\ 0 \in Int /\ 0 <= CntMax
    BY ServerAssumption
  <2> QED
    BY <2>1, <2>2, <2>3 DEF Counted
<1>2. TypeOK /\ Counted /\ [Next]_vars => Counted'
  <2> SUFFICES ASSUME TypeOK, Counted, [Next]_vars PROVE Counted'
    OBVIOUS
  <2>1. ASSUME UNCHANGED sessVars PROVE Counted'
    <3>1. Live' = Live /\ survivors' = survivors /\ cnt' = cnt
      BY <2>1 DEF sessVars, Live
    <3> QED
      BY <3>1 DEF Counted
  <2>2. CASE RunCall \/ RunNext
    <3>1. CASE RunReset
      <4>1. Live' = Live /\ survivors' = Live /\ cnt' = 0
        BY <3>1 DEF RunReset, Live
      <4>2. Cardinality(Live) \in Nat
        BY FS_CardinalityType DEF Counted
      <4>3. 0 + Cardinality(Live) = Cardinality(Live) + (CntMax + 1) * 0 /\ 0 \in Int
            /\ 0 <= CntMax
        BY <4>2, ServerAssumption
      <4> QED
        BY <4>1, <4>3 DEF Counted
    <3> QED
      BY <2>1, <2>2, <3>1 DEF RunCall, RunNext, RunRestart, RunOpen, RunListen, RunThrows,
         RunAccept, RunSpawn, RunIo
  <2>3. CASE IoNext
    BY <2>1, <2>3, CountedAccept, CountedEnd DEF IoNext, AcceptFails, ThreadExit,
       OnAcceptError, HandlerEnd, HandlerStart
  <2>4. CASE StopAny
    BY <2>1, <2>4 DEF StopAny, StopNext, StopCall, StopIo, StopJoin, StopSelfJoin, StopRace,
       StopClose
  <2>5. CASE Destroy
    BY <2>1, <2>5 DEF Destroy
  <2>6. CASE UNCHANGED vars
    BY <2>1, <2>6 DEF vars
  <2> QED
    BY <2>2, <2>3, <2>4, <2>5, <2>6, NextCases
<1>3. TypeOK /\ Counted => SessionCount
  <2> SUFFICES ASSUME TypeOK, Counted, survivors = {}
               PROVE  cnt = Cardinality(Live) % (CntMax + 1)
    BY DEF SessionCount
  <2>1. /\ cnt \in Nat /\ Cardinality(Live) \in Nat /\ CntMax + 1 \in Nat \ {0}
        /\ cnt <= CntMax /\ CntMax \in Nat
    BY FS_CardinalityType, ServerAssumption DEF Counted, TypeOK
  <2>2. cnt + Cardinality(survivors) = cnt
    BY <2>1, FS_EmptySet
  <2>3. cnt % (CntMax + 1) = Cardinality(Live) % (CntMax + 1)
    <3>1. PICK k \in Int : cnt = Cardinality(Live) + (CntMax + 1) * k
      BY <2>2 DEF Counted
    <3> QED
      BY <2>1, <3>1, Congruent
  <2>4. cnt % (CntMax + 1) = cnt
    BY <2>1
  <2> QED
    BY <2>3, <2>4
<1> QED
  BY <1>1, <1>2, <1>3, TypeAll, PTL DEF Spec
=============================================================================
