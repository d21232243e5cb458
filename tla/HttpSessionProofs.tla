-------------------------- MODULE HttpSessionProofs --------------------------
(***************************************************************************)
(* Proofs about HttpSession, for every set of sessions, number of threads, *)
(* timeouts and number of requests.                                        *)
(***************************************************************************)
EXTENDS HttpSession, FiniteSetTheorems, SequenceTheorems, TLAPS

-----------------------------------------------------------------------------
(* TYPES *)

(* Release() leaves the object, its stream and the statistics well typed. *)
LEMMA ReleaseTypes ==
  ASSUME TypeOK, NEW s \in Sessions,
         NEW STATE st, st \in [Counters -> Nat],
         NEW STATE sk, sk \in [Sessions -> {"open", "closed"}],
         Release(s, st, sk)
  PROVE  /\ obj' \in [Sessions -> {"none", "alive", "gone"}]
         /\ sock' \in [Sessions -> {"open", "closed"}]
         /\ stat' \in [Counters -> Nat]
<1>1. obj \in [Sessions -> {"none", "alive", "gone"}] BY DEF TypeOK
<1>2. [st EXCEPT !["session"] = Dec(@)] \in [Counters -> Nat]
  BY ConstantsAssumption DEF Dec, Counters
<1>3. CASE Held(s)'
  BY <1>1, <1>3 DEF Release
<1>4. CASE ~Held(s)'
  BY <1>1, <1>2, <1>4 DEF Release, DoClose
<1> QED BY <1>3, <1>4

(* doRead() and doWrite() arm a deadline within the configured ones. *)
LEMMA ExpiryTypes ==
  /\ Expiry(ReadTimeOut) \in {Never} \cup 0..ReadTimeOut \cup 0..WriteTimeOut
  /\ Expiry(WriteTimeOut) \in {Never} \cup 0..ReadTimeOut \cup 0..WriteTimeOut
BY ConstantsAssumption DEF Expiry

(* Counting an event keeps the type of the statistics. *)
LEMMA BumpTypes ==
  ASSUME TypeOK, NEW c \in Counters
  PROVE  Bump(c) \in [Counters -> Nat]
BY DEF TypeOK, Bump

(* Closing a stream keeps the type of the sockets. *)
LEMMA CloseTypes ==
  ASSUME TypeOK, NEW s \in Sessions
  PROVE  DoClose(s, sock) \in [Sessions -> {"open", "closed"}]
BY DEF TypeOK, DoClose

(* onRead with an error keeps the types. *)
LEMMA OnReadErrorTypes ==
  ASSUME TypeOK, NEW s \in Sessions, NEW STATE st, st \in [Counters -> Nat],
         OnReadError(s, st)
  PROVE  TypeOK'
<1>1. Release(s, st, DoClose(s, sock)) BY DEF OnReadError
<1>2. DoClose(s, sock) \in [Sessions -> {"open", "closed"}] BY CloseTypes
<1>3. /\ obj' \in [Sessions -> {"none", "alive", "gone"}]
      /\ sock' \in [Sessions -> {"open", "closed"}]
      /\ stat' \in [Counters -> Nat]
  BY <1>1, <1>2, ReleaseTypes
<1>4. reads \in [Sessions -> Nat] BY DEF TypeOK
<1>5. reads' \in [Sessions -> Nat] BY <1>4 DEF OnReadError
<1> QED BY <1>3, <1>5 DEF OnReadError, peerVars, TypeOK

(* onWrite that closes the connection keeps the types. *)
LEMMA OnWriteCloseTypes ==
  ASSUME TypeOK, NEW s \in Sessions, NEW w \in writes[s],
         NEW STATE st, st \in [Counters -> Nat], OnWriteClose(s, w, st),
         got' = got \/ got' = [got EXCEPT ![s] = Append(@, w.req)]
  PROVE  TypeOK'
<1>1. Release(s, st, DoClose(s, sock)) BY DEF OnWriteClose
<1>2. DoClose(s, sock) \in [Sessions -> {"open", "closed"}] BY CloseTypes
<1>3. /\ obj' \in [Sessions -> {"none", "alive", "gone"}]
      /\ sock' \in [Sessions -> {"open", "closed"}]
      /\ stat' \in [Counters -> Nat]
  BY <1>1, <1>2, ReleaseTypes
<1>4. got' \in [Sessions -> Seq(Nat)]
  <2>1. w.req \in Nat /\ got \in [Sessions -> Seq(Nat)] BY DEF TypeOK, ToldWrites
  <2>2. Append(got[s], w.req) \in Seq(Nat) BY <2>1
  <2>3. CASE got' = got BY <2>1, <2>3
  <2>4. CASE got' = [got EXCEPT ![s] = Append(@, w.req)] BY <2>1, <2>2, <2>4
  <2> QED BY <2>3, <2>4
<1> QED BY <1>3, <1>4 DEF OnWriteClose, TypeOK

(* Every step keeps the types. *)
LEMMA TypeNext == TypeOK /\ [Next]_vars => TypeOK'
<1> SUFFICES ASSUME TypeOK, [Next]_vars PROVE TypeOK'
  OBVIOUS
<1>0. CASE UNCHANGED vars
  BY <1>0 DEF vars, objVars, peerVars, TypeOK, Counters
<1>1. ASSUME NEW s \in Sessions, Create(s) PROVE TypeOK'
  <2>1. stat' \in [Counters -> Nat]
    BY <1>1, ConstantsAssumption DEF Create, TypeOK, Inc, Counters
  <2> QED BY <2>1, <1>1 DEF Create, TypeOK
<1>2. ASSUME NEW s \in Sessions, RunRead(s) PROVE TypeOK'
  BY <1>2, ExpiryTypes DEF RunRead, DoRead, peerVars, TypeOK
<1>3. ASSUME NEW s \in Sessions, OnRead(s) PROVE TypeOK'
  <2>1. CASE OnReadEof(s)
    <3>1. stat \in [Counters -> Nat] BY DEF TypeOK
    <3> QED BY <2>1, <3>1, OnReadErrorTypes DEF OnReadEof
  <2>2. CASE OnReadTimeout(s)
    <3>1. Bump("read_timeout") \in [Counters -> Nat] BY BumpTypes DEF Counters
    <3> QED BY <2>2, <3>1, OnReadErrorTypes DEF OnReadTimeout
  <2>3. CASE OnReadFail(s)
    <3>1. Bump("read_fail") \in [Counters -> Nat] BY BumpTypes DEF Counters
    <3> QED BY <2>3, <3>1, OnReadErrorTypes DEF OnReadFail
  <2>4. CASE OnReadOk(s)
    <3>1. Bump("read_success") \in [Counters -> Nat] BY BumpTypes DEF Counters
    <3>2. stat' \in [Counters -> Nat] BY <3>1, <2>4 DEF OnReadOk
    <3> QED BY <2>4, <3>2 DEF OnReadOk, CanRun, TypeOK
  <2> QED BY <1>3, <2>1, <2>2, <2>3, <2>4 DEF OnRead
<1>4. ASSUME NEW s \in Sessions, NEW keep \in BOOLEAN, Reject(s, keep) PROVE TypeOK'
  <2>1. Bump("handle_request") \in [Counters -> Nat] BY BumpTypes DEF Counters
  <2>2. stat' \in [Counters -> Nat] BY <2>1, <1>4 DEF Reject
  <2>3. [req |-> reqid[s], nth |-> 0, keep |-> keep] \in ToldWrites
    BY DEF ToldWrites, TypeOK
  <2>4. writes' \in [Sessions -> SUBSET ToldWrites]
    BY <1>4, <2>3 DEF Reject, DoWrite, TypeOK
  <2> QED BY <1>4, <2>2, <2>4, ExpiryTypes DEF Reject, DoWrite, peerVars, TypeOK
<1>5. ASSUME NEW s \in Sessions, CallHandler(s) PROVE TypeOK'
  <2>1. stat' \in [Counters -> Nat]
    BY <1>5, ConstantsAssumption DEF CallHandler, TypeOK, Inc, Counters
  <2>2. [req |-> reqid[s], sends |-> 0] \in WriterTokens
    BY DEF WriterTokens, TypeOK
  <2>3. writers' \in [Sessions -> SUBSET WriterTokens]
    BY <1>5, <2>2 DEF CallHandler, TypeOK
  <2> QED BY <1>5, <2>1, <2>3 DEF CallHandler, peerVars, TypeOK
<1>6. ASSUME NEW s \in Sessions, HandleReturn(s) PROVE TypeOK'
  <2> DEFINE st == [stat EXCEPT !["working_handler"] = Dec(@), !["handle_request"] = @ + 1]
  <2>0. stat \in [Counters -> Nat] BY DEF TypeOK
  <2>1. st \in [Counters -> Nat]
    BY <2>0, ConstantsAssumption DEF Dec, Counters
  <2>2. Release(s, st, sock) BY <1>6 DEF HandleReturn
  <2>3. sock \in [Sessions -> {"open", "closed"}] BY DEF TypeOK
  <2> HIDE DEF st
  <2>4. /\ obj' \in [Sessions -> {"none", "alive", "gone"}]
        /\ sock' \in [Sessions -> {"open", "closed"}]
        /\ stat' \in [Counters -> Nat]
    BY <2>1, <2>2, <2>3, ReleaseTypes
  <2>5. idle \in Nat /\ strand \in [Sessions -> {"free", "process", "handler"}]
    BY DEF TypeOK
  <2>6. idle' \in Nat /\ strand' \in [Sessions -> {"free", "process", "handler"}]
    BY <1>6, <2>5 DEF HandleReturn
  <2> QED BY <1>6, <2>4, <2>6 DEF HandleReturn, peerVars, TypeOK
<1>7. ASSUME NEW s \in Sessions, OnWrite(s) PROVE TypeOK'
  <2> PICK w \in writes[s] : \/ OnWriteTimeout(s, w) \/ OnWriteFail(s, w)
                             \/ OnWriteLast(s, w) \/ OnWriteOk(s, w)
    BY <1>7 DEF OnWrite
  <2>1. CASE OnWriteTimeout(s, w)
    <3>1. Bump("write_timeout") \in [Counters -> Nat] BY BumpTypes DEF Counters
    <3> QED BY <2>1, <3>1, OnWriteCloseTypes DEF OnWriteTimeout
  <2>2. CASE OnWriteFail(s, w)
    <3>1. Bump("write_fail") \in [Counters -> Nat] BY BumpTypes DEF Counters
    <3> QED BY <2>2, <3>1, OnWriteCloseTypes DEF OnWriteFail
  <2>3. CASE OnWriteLast(s, w)
    <3>1. Bump("write_success") \in [Counters -> Nat] BY BumpTypes DEF Counters
    <3> QED BY <2>3, <3>1, OnWriteCloseTypes DEF OnWriteLast
  <2>4. CASE OnWriteOk(s, w)
    <3>1. Bump("write_success") \in [Counters -> Nat] BY BumpTypes DEF Counters
    <3>2. stat' \in [Counters -> Nat] BY <3>1, <2>4 DEF OnWriteOk
    <3>3. w.req \in Nat /\ got \in [Sessions -> Seq(Nat)] BY DEF TypeOK, ToldWrites
    <3>4. got' \in [Sessions -> Seq(Nat)] BY <2>4, <3>3 DEF OnWriteOk
    <3>5. reads \in [Sessions -> Nat] /\ reqid \in [Sessions -> Nat] BY DEF TypeOK
    <3>6. reads' \in [Sessions -> Nat] /\ reqid' \in [Sessions -> Nat]
      BY <2>4, <3>5 DEF OnWriteOk, DoRead
    <3> QED BY <2>4, <3>2, <3>4, <3>6, ExpiryTypes DEF OnWriteOk, DoRead, TypeOK
  <2> QED BY <2>1, <2>2, <2>3, <2>4
<1>8. ASSUME NEW s \in Sessions, NEW w \in writers[s], DropWriter(s, w) PROVE TypeOK'
  <2>1. Release(s, stat, sock) BY <1>8 DEF DropWriter
  <2>2. /\ obj' \in [Sessions -> {"none", "alive", "gone"}]
        /\ sock' \in [Sessions -> {"open", "closed"}]
        /\ stat' \in [Counters -> Nat]
    BY <2>1, ReleaseTypes DEF TypeOK
  <2> QED BY <1>8, <2>2 DEF DropWriter, peerVars, TypeOK
<1>9. ASSUME NEW s \in Sessions, NEW w \in writers[s], NEW keep \in BOOLEAN,
             Send(s, w, keep)
      PROVE TypeOK'
  <2>1. w.req \in Nat /\ w.sends \in Nat BY DEF TypeOK, WriterTokens
  <2>2. [req |-> w.req, nth |-> w.sends + 1, keep |-> keep] \in ToldWrites
    BY <2>1 DEF ToldWrites
  <2>3. [w EXCEPT !.sends = @ + 1] \in WriterTokens
    <3>1. w \in [req : Nat, sends : Nat] BY DEF TypeOK, WriterTokens
    <3> QED BY <3>1 DEF WriterTokens
  <2>4. writes' \in [Sessions -> SUBSET ToldWrites]
    BY <1>9, <2>2 DEF Send, DoWrite, TypeOK
  <2>5. writers' \in [Sessions -> SUBSET WriterTokens]
    BY <1>9, <2>3 DEF Send, TypeOK
  <2> QED BY <1>9, <2>4, <2>5, ExpiryTypes DEF Send, DoWrite, peerVars, TypeOK
<1>10. ASSUME NEW s \in Sessions, PeerNext(s) PROVE TypeOK'
  <2>1. sent \in [Sessions -> Nat] /\ client \in [Sessions -> {"open", "fin", "gone"}]
    BY DEF TypeOK
  <2>2. sent' \in [Sessions -> Nat] /\ client' \in [Sessions -> {"open", "fin", "gone"}]
    BY <1>10, <2>1 DEF PeerNext, ClientSend, ClientLeave
  <2> QED BY <1>10, <2>2 DEF PeerNext, ClientSend, ClientLeave, objVars, TypeOK
<1>11. ASSUME NEW s \in Sessions, Tick(s) PROVE TypeOK'
  <2> DEFINE T == {Never} \cup 0..ReadTimeOut \cup 0..WriteTimeOut
  <2>1. timer \in [Sessions -> T] BY DEF TypeOK
  <2>2. timer' \in [Sessions -> T]
    <3>1. timer[s] - 1 \in T
      BY <1>11, <2>1, ConstantsAssumption DEF Tick, Never
    <3> HIDE DEF T
    <3> QED BY <1>11, <2>1, <3>1 DEF Tick
  <2> QED BY <1>11, <2>2 DEF Tick, peerVars, TypeOK
<1> QED BY <1>0, <1>1, <1>2, <1>3, <1>4, <1>5, <1>6, <1>7, <1>8, <1>9, <1>10, <1>11
        DEF Next, IONext, AppNext

(* Every variable keeps its type; in particular no thread is used twice and *)
(* no deadline of doRead() or doWrite() exceeds the configured ones.       *)
THEOREM TypeCorrect == Spec => []TypeOK
<1>1. Init => TypeOK
  BY ConstantsAssumption DEF Init, TypeOK, Counters
<1> QED BY <1>1, TypeNext, PTL DEF Spec

-----------------------------------------------------------------------------
(* THE CHAIN OF HANDLERS *)

(* The application answers a request at most once, as processRequest() and  *)
(* writeResponse() take for granted.                                       *)
SendOnce == MaxSends <= 1

(* Session t does not change. *)
Same(t) ==
  /\ obj'[t] = obj[t] /\ sock'[t] = sock[t] /\ disp'[t] = disp[t]
  /\ reads'[t] = reads[t] /\ writes'[t] = writes[t] /\ strand'[t] = strand[t]
  /\ writers'[t] = writers[t] /\ reqid'[t] = reqid[t]
  /\ taken'[t] = taken[t] /\ got'[t] = got[t]

(* A step of one session leaves the chains of the others alone. *)
LEMMA ChainFrame ==
  ASSUME NEW t \in Sessions, ChainOf(t), Same(t)
  PROVE  ChainOf(t)'
BY DEF ChainOf, Same, Serving, Unsent, Held

(* What Release() does to s, and that it leaves the others alone. *)
LEMMA ReleaseAt ==
  ASSUME TypeOK, NEW s \in Sessions, NEW STATE st,
         NEW STATE sk, sk \in [Sessions -> {"open", "closed"}],
         Release(s, st, sk)
  PROVE  /\ Held(s)' => obj'[s] = obj[s] /\ sock'[s] = sk[s]
         /\ ~Held(s)' => obj'[s] = "gone" /\ sock'[s] = "closed"
         /\ \A t \in Sessions \ {s} : obj'[t] = obj[t] /\ sock'[t] = sk[t]
<1>1. obj \in [Sessions -> {"none", "alive", "gone"}] BY DEF TypeOK
<1> QED BY <1>1 DEF Release, DoClose

(* The types of the state of one session. *)
LEMMA TypesAt ==
  ASSUME TypeOK, NEW s \in Sessions
  PROVE  /\ reads[s] \in Nat /\ reqid[s] \in Nat /\ taken[s] \in Nat
         /\ got[s] \in Seq(Nat) /\ Len(got[s]) \in Nat
         /\ disp[s] \in BOOLEAN
         /\ \A w \in writers[s] : w \in [req : Nat, sends : Nat]
<1>1. got[s] \in Seq(Nat) BY DEF TypeOK
<1>2. Len(got[s]) \in Nat BY <1>1
<1> QED BY <1>1, <1>2 DEF TypeOK, WriterTokens

(* One more response in order. *)
LEMMA AppendInOrder ==
  ASSUME NEW q \in Seq(Nat), q = [i \in 1..Len(q) |-> i],
         NEW n \in Nat, n = Len(q) + 1
  PROVE  /\ Len(Append(q, n)) = Len(q) + 1
         /\ Append(q, n) = [i \in 1..Len(Append(q, n)) |-> i]
<1>1. Len(Append(q, n)) = Len(q) + 1 OBVIOUS
<1>2. Append(q, n) \in [1..(Len(q) + 1) -> Nat] BY <1>1, AppendProperties, LenProperties
<1>3. ASSUME NEW i \in 1..(Len(q) + 1) PROVE Append(q, n)[i] = i
  <2>1. \A j \in 1..Len(q) : q[j] = j OBVIOUS
  <2>2. Append(q, n)[i] = IF i \in 1..Len(q) THEN q[i] ELSE n OBVIOUS
  <2> QED BY <2>1, <2>2
<1> QED BY <1>1, <1>2, <1>3

(* onRead with an error ends the chain. *)
LEMMA OnReadErrorChain ==
  ASSUME TypeOK, Chain, NEW s \in Sessions, NEW STATE st, OnReadError(s, st)
  PROVE  Chain'
<1> DEFINE sk == DoClose(s, sock)
<1>1. sk \in [Sessions -> {"open", "closed"}] /\ sk[s] = "closed"
      /\ \A t \in Sessions \ {s} : sk[t] = sock[t]
  BY DEF DoClose, TypeOK
<1>2. Release(s, st, sk) BY DEF OnReadError
<1> HIDE DEF sk
<1>3. /\ Held(s)' => obj'[s] = obj[s] /\ sock'[s] = "closed"
      /\ ~Held(s)' => obj'[s] = "gone" /\ sock'[s] = "closed"
      /\ \A t \in Sessions \ {s} : obj'[t] = obj[t] /\ sock'[t] = sock[t]
  BY <1>1, <1>2, ReleaseAt
<1>4. ASSUME NEW t \in Sessions \ {s} PROVE ChainOf(t)'
  <2>1. Same(t) BY <1>3 DEF OnReadError, Same, TypeOK, peerVars
  <2> QED BY <2>1, ChainFrame DEF Chain
<1>5. ChainOf(s)'
  <2>1. ChainOf(s) BY DEF Chain
  <2>2. /\ disp'[s] = disp[s] /\ reads'[s] = reads[s] - 1 /\ writes'[s] = writes[s]
        /\ strand'[s] = strand[s] /\ writers'[s] = writers[s] /\ reqid'[s] = reqid[s]
        /\ taken'[s] = taken[s] /\ got'[s] = got[s] /\ reads[s] > 0
    BY DEF OnReadError, TypeOK, peerVars
  <2>3. reads[s] = 1 /\ reads'[s] = 0 BY <2>1, <2>2, TypesAt DEF ChainOf
  <2> QED BY <2>1, <2>2, <2>3, <1>3, TypesAt DEF ChainOf, Serving, Unsent, Held
<1> QED BY <1>4, <1>5 DEF Chain

(* For a handler that ends in doClose() after a write. *)
LEMMA OnWriteCloseChain ==
  ASSUME TypeOK, Chain, NEW s \in Sessions, NEW w \in writes[s], NEW STATE st,
         OnWriteClose(s, w, st),
         got' = got \/ got' = [got EXCEPT ![s] = Append(@, w.req)]
  PROVE  Chain'
<1> DEFINE sk == DoClose(s, sock)
<1>1. sk \in [Sessions -> {"open", "closed"}] /\ sk[s] = "closed"
      /\ \A t \in Sessions \ {s} : sk[t] = sock[t]
  BY DEF DoClose, TypeOK
<1>2. Release(s, st, sk) BY DEF OnWriteClose
<1> HIDE DEF sk
<1>3. /\ Held(s)' => obj'[s] = obj[s] /\ sock'[s] = "closed"
      /\ ~Held(s)' => obj'[s] = "gone" /\ sock'[s] = "closed"
      /\ \A t \in Sessions \ {s} : obj'[t] = obj[t] /\ sock'[t] = sock[t]
  BY <1>1, <1>2, ReleaseAt
<1>4. ASSUME NEW t \in Sessions \ {s} PROVE ChainOf(t)'
  <2>1. Same(t) BY <1>3 DEF OnWriteClose, Same, TypeOK
  <2> QED BY <2>1, ChainFrame DEF Chain
<1>5. ChainOf(s)'
  <2>1. ChainOf(s) BY DEF Chain
  <2>2. /\ disp'[s] = disp[s] /\ reads'[s] = reads[s] /\ writes'[s] = writes[s] \ {w}
        /\ strand'[s] = strand[s] /\ writers'[s] = writers[s] /\ reqid'[s] = reqid[s]
        /\ taken'[s] = taken[s] /\ strand[s] = "free"
    BY DEF OnWriteClose, CanRun, TypeOK
  <2>3. writes'[s] = {} BY <2>1, <2>2 DEF ChainOf
  <2>4. w.req = Len(got[s]) + 1 /\ Len(got[s]) + 1 = taken[s] /\ Unsent(s) = {} /\ reads[s] = 0
        /\ ~disp[s] /\ obj[s] = "alive"
    BY <2>1, TypesAt DEF ChainOf, Serving
  <2>5. Len(got'[s]) <= taken[s] /\ got'[s] = [i \in 1..Len(got'[s]) |-> i]
    <3>1. got \in [Sessions -> Seq(Nat)] /\ got[s] = [i \in 1..Len(got[s]) |-> i]
      BY <2>1 DEF TypeOK, ChainOf
    <3>2. CASE got' = got BY <3>1, <3>2, <2>1, <2>4, TypesAt
    <3>3. CASE got' = [got EXCEPT ![s] = Append(@, w.req)]
      <4>1. got'[s] = Append(got[s], w.req) BY <3>1, <3>3
      <4>2. w.req \in Nat BY <2>4, TypesAt
      <4> QED BY <4>1, <4>2, <3>1, <2>4, TypesAt, AppendInOrder
    <3> QED BY <3>2, <3>3
  <2>6. Unsent(s)' = {} BY <2>2, <2>4 DEF Unsent
  <2> QED BY <2>1, <2>2, <2>3, <2>4, <2>5, <2>6, <1>3, TypesAt DEF ChainOf, Serving, Held
<1> QED BY <1>4, <1>5 DEF Chain

(* onWrite that keeps the connection goes on with a read. *)
LEMMA OnWriteOkChain ==
  ASSUME TypeOK, Chain, NEW s \in Sessions, NEW w \in writes[s], OnWriteOk(s, w)
  PROVE  Chain'
<1>1. ASSUME NEW t \in Sessions \ {s} PROVE ChainOf(t)'
  <2>1. Same(t) BY DEF OnWriteOk, DoRead, Same, TypeOK
  <2> QED BY <2>1, ChainFrame DEF Chain
<1>2. ChainOf(s)'
  <2>1. ChainOf(s) BY DEF Chain
  <2>2. /\ obj'[s] = obj[s] /\ sock'[s] = sock[s] /\ sock[s] = "open"
        /\ disp'[s] = disp[s] /\ reads'[s] = reads[s] + 1 /\ writes'[s] = writes[s] \ {w}
        /\ strand'[s] = strand[s] /\ writers'[s] = writers[s] /\ reqid'[s] = reqid[s] + 1
        /\ taken'[s] = taken[s] /\ strand[s] = "free" /\ got'[s] = Append(got[s], w.req)
    BY DEF OnWriteOk, DoRead, CanRun, TypeOK
  <2>3. writes'[s] = {} BY <2>1, <2>2 DEF ChainOf
  <2>4. w.req = Len(got[s]) + 1 /\ Len(got[s]) + 1 = taken[s] /\ Unsent(s) = {} /\ reads[s] = 0
        /\ ~disp[s] /\ obj[s] = "alive" /\ reqid[s] = taken[s]
    BY <2>1, TypesAt DEF ChainOf, Serving
  <2>5. Len(got'[s]) = taken[s] /\ got'[s] = [i \in 1..Len(got'[s]) |-> i]
    <3>1. got[s] = [i \in 1..Len(got[s]) |-> i] BY <2>1 DEF ChainOf
    <3>2. w.req \in Nat BY <2>4, TypesAt
    <3> QED BY <2>2, <2>4, <3>1, <3>2, TypesAt, AppendInOrder
  <2>6. Unsent(s)' = {} BY <2>2, <2>4 DEF Unsent
  <2>7. reads'[s] = 1 /\ reqid'[s] = taken'[s] + 1 /\ Held(s)'
    BY <2>2, <2>4, TypesAt DEF Held
  <2>8. ~Serving(s)' BY <2>2, <2>3, <2>6 DEF Serving
  <2>9. ~disp'[s] /\ obj'[s] = "alive" /\ sock'[s] = "open" /\ strand'[s] = "free"
    BY <2>2, <2>4
  <2>10. Len(got'[s]) = taken'[s] /\ Len(got'[s]) <= taken'[s]
    BY <2>2, <2>5, TypesAt
  <2> QED BY <2>3, <2>5, <2>6, <2>7, <2>8, <2>9, <2>10 DEF ChainOf
<1> QED BY <1>1, <1>2 DEF Chain
(* A new session starts its chain with the dispatched doRead. *)
LEMMA CreateChain ==
  ASSUME TypeOK, Chain, NEW s \in Sessions, Create(s)
  PROVE  Chain'
<1>1. ASSUME NEW t \in Sessions \ {s} PROVE ChainOf(t)'
  <2>1. Same(t) BY DEF Create, Same, TypeOK
  <2> QED BY <2>1, ChainFrame DEF Chain
<1>2. ChainOf(s)'
  <2>1. ChainOf(s) BY DEF Chain
  <2>2. /\ obj[s] = "none" /\ obj'[s] = "alive" /\ sock'[s] = "open" /\ disp'[s]
        /\ reads'[s] = reads[s] /\ writes'[s] = writes[s] /\ strand'[s] = strand[s]
        /\ writers'[s] = writers[s] /\ reqid'[s] = reqid[s]
        /\ taken'[s] = taken[s] /\ got'[s] = got[s]
    BY DEF Create, TypeOK
  <2>3. /\ reads[s] = 0 /\ writes[s] = {} /\ strand[s] = "free" /\ writers[s] = {}
        /\ reqid[s] = 0 /\ taken[s] = 0
    BY <2>1, <2>2, TypesAt DEF ChainOf, Held
  <2>4. ~Serving(s)' /\ Unsent(s)' = {} /\ Held(s)'
    BY <2>2, <2>3 DEF Serving, Unsent, Held
  <2>5. Len(got'[s]) <= taken'[s] /\ got'[s] = [i \in 1..Len(got'[s]) |-> i]
    BY <2>1, <2>2 DEF ChainOf
  <2> QED BY <2>2, <2>3, <2>4, <2>5 DEF ChainOf
<1> QED BY <1>1, <1>2 DEF Chain

(* The dispatched doRead starts the first read. *)
LEMMA RunReadChain ==
  ASSUME TypeOK, Chain, NEW s \in Sessions, RunRead(s)
  PROVE  Chain'
<1>1. ASSUME NEW t \in Sessions \ {s} PROVE ChainOf(t)'
  <2>1. Same(t) BY DEF RunRead, DoRead, peerVars, Same, TypeOK
  <2> QED BY <2>1, ChainFrame DEF Chain
<1>2. ChainOf(s)'
  <2>1. ChainOf(s) BY DEF Chain
  <2>2. /\ disp[s] /\ ~disp'[s] /\ obj'[s] = obj[s] /\ sock'[s] = sock[s]
        /\ reads'[s] = reads[s] + 1 /\ writes'[s] = writes[s] /\ strand'[s] = strand[s]
        /\ writers'[s] = writers[s] /\ reqid'[s] = reqid[s] + 1
        /\ taken'[s] = taken[s] /\ got'[s] = got[s]
    BY DEF RunRead, DoRead, peerVars, TypeOK
  <2>3. /\ reads[s] = 0 /\ writes[s] = {} /\ strand[s] = "free" /\ Unsent(s) = {}
        /\ reqid[s] = 0 /\ taken[s] = 0 /\ Len(got[s]) = 0
        /\ sock[s] = "open" /\ obj[s] = "alive"
    BY <2>1, <2>2, TypesAt DEF ChainOf, Serving
  <2>4. Unsent(s)' = {} BY <2>2, <2>3 DEF Unsent
  <2>5. reads'[s] = 1 BY <2>2, <2>3
  <2>6. ~Serving(s)' /\ Held(s)' BY <2>2, <2>3, <2>4, <2>5 DEF Serving, Held
  <2>7. Len(got'[s]) = taken'[s] /\ got'[s] = [i \in 1..Len(got'[s]) |-> i]
    BY <2>1, <2>2, <2>3 DEF ChainOf
  <2> QED BY <2>2, <2>3, <2>4, <2>5, <2>6, <2>7 DEF ChainOf
<1> QED BY <1>1, <1>2 DEF Chain

(* A request that was read is processed. *)
LEMMA OnReadOkChain ==
  ASSUME TypeOK, Chain, NEW s \in Sessions, OnReadOk(s)
  PROVE  Chain'
<1>1. ASSUME NEW t \in Sessions \ {s} PROVE ChainOf(t)'
  <2>1. Same(t) BY DEF OnReadOk, Same, TypeOK
  <2> QED BY <2>1, ChainFrame DEF Chain
<1>2. ChainOf(s)'
  <2>1. ChainOf(s) BY DEF Chain
  <2>2. /\ disp'[s] = disp[s] /\ obj'[s] = obj[s] /\ sock'[s] = sock[s]
        /\ reads[s] > 0 /\ reads'[s] = reads[s] - 1 /\ writes'[s] = writes[s]
        /\ strand'[s] = "process" /\ writers'[s] = writers[s] /\ reqid'[s] = reqid[s]
        /\ taken'[s] = taken[s] + 1 /\ got'[s] = got[s]
    BY DEF OnReadOk, TypeOK
  <2>3. reads[s] = 1 BY <2>1, <2>2, TypesAt DEF ChainOf
  <2>4. /\ writes[s] = {} /\ Unsent(s) = {} /\ ~disp[s] /\ reqid[s] = taken[s] + 1
        /\ taken[s] = Len(got[s]) /\ sock[s] = "open" /\ obj[s] = "alive"
    BY <2>1, <2>3, TypesAt DEF ChainOf, Serving
  <2>5. Unsent(s)' = {} BY <2>2, <2>4 DEF Unsent
  <2>6. reads'[s] = 0 /\ reqid'[s] = taken'[s] /\ taken'[s] = Len(got'[s]) + 1
        /\ Len(got'[s]) <= taken'[s]
    BY <2>2, <2>3, <2>4, TypesAt
  <2>7. Held(s)' BY <2>2 DEF Held
  <2>8. got'[s] = [i \in 1..Len(got'[s]) |-> i] BY <2>1, <2>2 DEF ChainOf
  <2> QED BY <2>2, <2>4, <2>5, <2>6, <2>7, <2>8 DEF ChainOf
<1> QED BY <1>1, <1>2 DEF Chain

(* A request that is turned down is answered at once. *)
LEMMA RejectChain ==
  ASSUME TypeOK, Chain, NEW s \in Sessions, NEW keep \in BOOLEAN, Reject(s, keep)
  PROVE  Chain'
<1>1. ASSUME NEW t \in Sessions \ {s} PROVE ChainOf(t)'
  <2>1. Same(t) BY DEF Reject, DoWrite, peerVars, Same, TypeOK
  <2> QED BY <2>1, ChainFrame DEF Chain
<1>2. ChainOf(s)'
  <2>1. ChainOf(s) BY DEF Chain
  <2> DEFINE w == [req |-> reqid[s], nth |-> 0, keep |-> keep]
  <2>2. /\ disp'[s] = disp[s] /\ obj'[s] = obj[s] /\ sock'[s] = sock[s]
        /\ reads'[s] = reads[s] /\ writes'[s] = writes[s] \cup {w}
        /\ strand[s] = "process" /\ strand'[s] = "free"
        /\ writers'[s] = writers[s] /\ reqid'[s] = reqid[s]
        /\ taken'[s] = taken[s] /\ got'[s] = got[s]
    BY DEF Reject, DoWrite, peerVars, TypeOK
  <2>3. w.req = reqid[s] OBVIOUS
  <2> HIDE DEF w
  <2>4. /\ writes[s] = {} /\ Unsent(s) = {} /\ ~disp[s] /\ reqid[s] = taken[s]
        /\ taken[s] = Len(got[s]) + 1 /\ sock[s] = "open" /\ obj[s] = "alive"
        /\ reads[s] = 0
    BY <2>1, <2>2, TypesAt DEF ChainOf, Serving
  <2>5. Unsent(s)' = {} BY <2>2, <2>4 DEF Unsent
  <2>6. writes'[s] = {w} BY <2>2, <2>4
  <2>7. Held(s)' BY <2>6 DEF Held
  <2>8. Len(got'[s]) <= taken'[s] /\ got'[s] = [i \in 1..Len(got'[s]) |-> i]
    BY <2>1, <2>2 DEF ChainOf
  <2> QED BY <2>2, <2>3, <2>4, <2>5, <2>6, <2>7, <2>8 DEF ChainOf
<1> QED BY <1>1, <1>2 DEF Chain

(* The handler gets the only writer that was not used. *)
LEMMA CallHandlerChain ==
  ASSUME TypeOK, Chain, NEW s \in Sessions, CallHandler(s)
  PROVE  Chain'
<1>1. ASSUME NEW t \in Sessions \ {s} PROVE ChainOf(t)'
  <2>1. Same(t) BY DEF CallHandler, peerVars, Same, TypeOK
  <2> QED BY <2>1, ChainFrame DEF Chain
<1>2. ChainOf(s)'
  <2>1. ChainOf(s) BY DEF Chain
  <2> DEFINE w == [req |-> reqid[s], sends |-> 0]
  <2>2. /\ disp'[s] = disp[s] /\ obj'[s] = obj[s] /\ sock'[s] = sock[s]
        /\ reads'[s] = reads[s] /\ writes'[s] = writes[s]
        /\ strand[s] = "process" /\ strand'[s] = "handler"
        /\ writers'[s] = writers[s] \cup {w} /\ reqid'[s] = reqid[s]
        /\ taken'[s] = taken[s] /\ got'[s] = got[s]
    BY DEF CallHandler, peerVars, TypeOK
  <2>3. w.req = reqid[s] /\ w.sends = 0 OBVIOUS
  <2> HIDE DEF w
  <2>4. /\ writes[s] = {} /\ Unsent(s) = {} /\ ~disp[s] /\ reqid[s] = taken[s]
        /\ taken[s] = Len(got[s]) + 1 /\ sock[s] = "open" /\ obj[s] = "alive"
        /\ reads[s] = 0
    BY <2>1, <2>2, TypesAt DEF ChainOf, Serving
  <2>5. Unsent(s)' = {w} BY <2>2, <2>3, <2>4 DEF Unsent
  <2>6. Held(s)' BY <2>2 DEF Held
  <2>7. Len(got'[s]) <= taken'[s] /\ got'[s] = [i \in 1..Len(got'[s]) |-> i]
    BY <2>1, <2>2 DEF ChainOf
  <2> QED BY <2>2, <2>3, <2>4, <2>5, <2>6, <2>7 DEF ChainOf
<1> QED BY <1>1, <1>2 DEF Chain

(* An answer uses the writer up and starts the only write. *)
LEMMA SendChain ==
  ASSUME TypeOK, Chain, NEW s \in Sessions, NEW w \in writers[s], NEW keep \in BOOLEAN,
         SendOnce, Send(s, w, keep)
  PROVE  Chain'
<1>1. ASSUME NEW t \in Sessions \ {s} PROVE ChainOf(t)'
  <2>1. Same(t) BY DEF Send, DoWrite, peerVars, Same, TypeOK
  <2> QED BY <2>1, ChainFrame DEF Chain
<1>2. ChainOf(s)'
  <2>1. ChainOf(s) BY DEF Chain
  <2> DEFINE x == [req |-> w.req, nth |-> w.sends + 1, keep |-> keep]
  <2> DEFINE v == [w EXCEPT !.sends = @ + 1]
  <2>2. /\ disp'[s] = disp[s] /\ obj'[s] = obj[s] /\ sock'[s] = sock[s]
        /\ reads'[s] = reads[s] /\ writes'[s] = writes[s] \cup {x}
        /\ strand'[s] = strand[s]
        /\ writers'[s] = (writers[s] \ {w}) \cup {v} /\ reqid'[s] = reqid[s]
        /\ taken'[s] = taken[s] /\ got'[s] = got[s]
    BY DEF Send, DoWrite, peerVars, TypeOK
  <2>3. w.sends = 0 /\ v.sends = 1 /\ x.req = w.req
    BY TypesAt, ConstantsAssumption DEF Send, SendOnce
  <2> HIDE DEF x, v
  <2>4. w \in Unsent(s) BY <2>3 DEF Unsent
  <2>5. /\ writes[s] = {} /\ Unsent(s) = {w} /\ ~disp[s] /\ reqid[s] = taken[s]
        /\ taken[s] = Len(got[s]) + 1 /\ sock[s] = "open" /\ obj[s] = "alive"
        /\ reads[s] = 0 /\ w.req = reqid[s] /\ strand[s] # "process"
    BY <2>1, <2>4, TypesAt DEF ChainOf, Serving
  <2>6. Unsent(s)' = {} BY <2>2, <2>3, <2>5 DEF Unsent
  <2>7. writes'[s] = {x} /\ x.req = reqid'[s] BY <2>2, <2>3, <2>5
  <2>8. Held(s)' BY <2>7 DEF Held
  <2>9. Len(got'[s]) <= taken'[s] /\ got'[s] = [i \in 1..Len(got'[s]) |-> i]
    BY <2>1, <2>2 DEF ChainOf
  <2> QED BY <2>2, <2>5, <2>6, <2>7, <2>8, <2>9 DEF ChainOf
<1> QED BY <1>1, <1>2 DEF Chain

(* The return of handle() leaves the chain to the writer or the write. *)
LEMMA HandleReturnChain ==
  ASSUME TypeOK, Chain, NEW s \in Sessions, HandleReturn(s)
  PROVE  Chain'
<1> DEFINE st == [stat EXCEPT !["working_handler"] = Dec(@), !["handle_request"] = @ + 1]
<1>1. Release(s, st, sock) BY DEF HandleReturn
<1> HIDE DEF st
<1>2. sock \in [Sessions -> {"open", "closed"}] BY DEF TypeOK
<1>3. /\ Held(s)' => obj'[s] = obj[s] /\ sock'[s] = sock[s]
      /\ ~Held(s)' => obj'[s] = "gone" /\ sock'[s] = "closed"
      /\ \A t \in Sessions \ {s} : obj'[t] = obj[t] /\ sock'[t] = sock[t]
  BY <1>1, <1>2, ReleaseAt
<1>4. ASSUME NEW t \in Sessions \ {s} PROVE ChainOf(t)'
  <2>1. Same(t) BY <1>3 DEF HandleReturn, Same, TypeOK, peerVars
  <2> QED BY <2>1, ChainFrame DEF Chain
<1>5. ChainOf(s)'
  <2>1. ChainOf(s) BY DEF Chain
  <2>2. /\ disp'[s] = disp[s] /\ reads'[s] = reads[s] /\ writes'[s] = writes[s]
        /\ strand[s] = "handler" /\ strand'[s] = "free"
        /\ writers'[s] = writers[s] /\ reqid'[s] = reqid[s]
        /\ taken'[s] = taken[s] /\ got'[s] = got[s]
    BY DEF HandleReturn, TypeOK, peerVars
  <2>3. sock[s] = "open" /\ obj[s] = "alive" BY <2>1, <2>2 DEF ChainOf
  <2> QED BY <2>1, <2>2, <2>3, <1>3, TypesAt DEF ChainOf, Serving, Unsent, Held
<1> QED BY <1>4, <1>5 DEF Chain

(* A writer that is dropped takes the session along if it is the last reference. *)
LEMMA DropWriterChain ==
  ASSUME TypeOK, Chain, NEW s \in Sessions, NEW w \in writers[s], DropWriter(s, w)
  PROVE  Chain'
<1> DEFINE st == stat
<1>1. Release(s, st, sock) BY DEF DropWriter
<1> HIDE DEF st
<1>2. sock \in [Sessions -> {"open", "closed"}] BY DEF TypeOK
<1>3. /\ Held(s)' => obj'[s] = obj[s] /\ sock'[s] = sock[s]
      /\ ~Held(s)' => obj'[s] = "gone" /\ sock'[s] = "closed"
      /\ \A t \in Sessions \ {s} : obj'[t] = obj[t] /\ sock'[t] = sock[t]
  BY <1>1, <1>2, ReleaseAt
<1>4. ASSUME NEW t \in Sessions \ {s} PROVE ChainOf(t)'
  <2>1. Same(t) BY <1>3 DEF DropWriter, Same, TypeOK, peerVars
  <2> QED BY <2>1, ChainFrame DEF Chain
<1>5. ChainOf(s)'
  <2>1. ChainOf(s) BY DEF Chain
  <2>2. /\ disp'[s] = disp[s] /\ reads'[s] = reads[s] /\ writes'[s] = writes[s]
        /\ strand'[s] = strand[s]
        /\ writers'[s] = writers[s] \ {w} /\ reqid'[s] = reqid[s]
        /\ taken'[s] = taken[s] /\ got'[s] = got[s]
    BY DEF DropWriter, TypeOK, peerVars
  <2>3. obj[s] = "alive" BY <2>1 DEF ChainOf, Held
  <2>4. Unsent(s)' \subseteq Unsent(s) BY <2>2 DEF Unsent
  <2>5. ~Held(s)' => ~Serving(s)' /\ ~disp'[s] /\ reads'[s] = 0 /\ strand'[s] = "free"
    BY <2>2, TypesAt DEF Held, Serving, Unsent
  <2>6. Serving(s)' => Serving(s) BY <2>2, <2>4 DEF Serving
  <2> QED BY <2>1, <2>2, <2>3, <2>4, <2>5, <2>6, <1>3, TypesAt DEF ChainOf
<1> QED BY <1>4, <1>5 DEF Chain

(* Every step keeps all chains. *)
LEMMA ChainNext ==
  ASSUME SendOnce, TypeOK, Chain, [Next]_vars
  PROVE  Chain'
<1>0. ASSUME \A t \in Sessions : Same(t) PROVE Chain'
  BY <1>0, ChainFrame DEF Chain
<1>1. CASE UNCHANGED vars
  BY <1>0, <1>1 DEF vars, objVars, peerVars, Same
<1>2. ASSUME NEW s \in Sessions, OnRead(s) PROVE Chain'
  BY <1>2, OnReadErrorChain, OnReadOkChain DEF OnRead, OnReadEof, OnReadTimeout, OnReadFail
<1>3. ASSUME NEW s \in Sessions, OnWrite(s) PROVE Chain'
  <2> PICK w \in writes[s] : \/ OnWriteTimeout(s, w) \/ OnWriteFail(s, w)
                             \/ OnWriteLast(s, w) \/ OnWriteOk(s, w)
    BY <1>3 DEF OnWrite
  <2>1. CASE OnWriteTimeout(s, w)
    BY <2>1, OnWriteCloseChain DEF OnWriteTimeout
  <2>2. CASE OnWriteFail(s, w)
    BY <2>2, OnWriteCloseChain DEF OnWriteFail
  <2>3. CASE OnWriteLast(s, w)
    BY <2>3, OnWriteCloseChain DEF OnWriteLast
  <2> QED BY <2>1, <2>2, <2>3, OnWriteOkChain
<1>4. ASSUME NEW s \in Sessions, PeerNext(s) PROVE Chain'
  BY <1>0, <1>4 DEF PeerNext, ClientSend, ClientLeave, objVars, Same
<1>5. ASSUME NEW s \in Sessions, Tick(s) PROVE Chain'
  BY <1>0, <1>5 DEF Tick, peerVars, Same
<1> QED BY <1>1, <1>2, <1>3, <1>4, <1>5, CreateChain, RunReadChain, RejectChain,
           CallHandlerChain, HandleReturnChain, SendChain, DropWriterChain
        DEF Next, IONext, AppNext

(* No chain has begun at first. *)
LEMMA ChainInit == Init => Chain
BY DEF Init, Chain, ChainOf, Serving, Unsent, Held

(* With one send() per request, the handler chain of doRead(), onRead(),    *)
(* processRequest(), writeResponse() and onWrite() is never forked and      *)
(* never resumed on a closed stream, for any number of connections and IO  *)
(* threads and whatever thread send() is called from.                      *)
THEOREM ChainCorrect ==
  ASSUME SendOnce
  PROVE  Spec => []Chain
<1>1. TypeOK /\ Chain /\ [Next]_vars => Chain' BY ChainNext
<1> QED BY <1>1, ChainInit, TypeCorrect, PTL DEF Spec

(* Beast's rule of one outstanding operation is kept. *)
THEOREM OneOperationCorrect ==
  ASSUME SendOnce
  PROVE  Spec => []OneOperation
<1>1. TypeOK /\ Chain => OneOperation
  BY TypesAt DEF Chain, ChainOf, OneOperation, Serving
<1> QED BY <1>1, ChainCorrect, TypeCorrect, PTL

(* The peer receives the responses in the order of its requests, one each. *)
THEOREM ResponsesInOrderCorrect ==
  ASSUME SendOnce
  PROVE  Spec => []ResponsesInOrder
<1>1. Chain => ResponsesInOrder
  BY DEF Chain, ChainOf, ResponsesInOrder
<1> QED BY <1>1, ChainCorrect, PTL

(* A handler that answers late finds its stream open and unused. *)
THEOREM SafeToSendCorrect ==
  ASSUME SendOnce
  PROVE  Spec => []SafeToSend
<1>1. TypeOK /\ Chain => SafeToSend
  <2> SUFFICES ASSUME TypeOK, Chain, NEW s \in Sessions, Unsent(s) # {}
               PROVE  sock[s] = "open" /\ reads[s] = 0 /\ writes[s] = {}
    BY DEF SafeToSend
  <2>1. ChainOf(s) BY DEF Chain
  <2> QED BY <2>1, TypesAt DEF ChainOf, Serving
<1> QED BY <1>1, ChainCorrect, TypeCorrect, PTL

(* Nothing is left on a closed stream. *)
THEOREM ClosedIsQuietCorrect ==
  ASSUME SendOnce
  PROVE  Spec => []ClosedIsQuiet
<1>1. TypeOK /\ Chain => ClosedIsQuiet
  <2> SUFFICES ASSUME TypeOK, Chain, NEW s \in Sessions, sock[s] = "closed"
               PROVE  /\ ~disp[s] /\ reads[s] = 0 /\ writes[s] = {}
                      /\ strand[s] = "free" /\ Unsent(s) = {}
    BY DEF ClosedIsQuiet
  <2>1. ChainOf(s) BY DEF Chain
  <2> QED BY <2>1, TypesAt DEF ChainOf, Serving
<1> QED BY <1>1, ChainCorrect, TypeCorrect, PTL

-----------------------------------------------------------------------------
(* REFINEMENT: HttpSession implements HttpConnection; what the peer of     *)
(* every connection sees is a behaviour of the abstract specification.      *)

(* A step of session s. *)
StepOf(s) == Create(s) \/ IONext(s) \/ AppNext(s) \/ PeerNext(s) \/ Tick(s)

(* A step of one session leaves the others as they are. *)
LEMMA OthersSame ==
  ASSUME TypeOK, NEW s \in Sessions, StepOf(s), NEW t \in Sessions \ {s}
  PROVE  Same(t)
<1> DEFINE Sk == [Sessions -> {"open", "closed"}]
<1>1. ASSUME NEW STATE st, NEW STATE sk, sk \in Sk, sk[t] = sock[t], Release(s, st, sk)
      PROVE  obj'[t] = obj[t] /\ sock'[t] = sock[t]
  BY <1>1, ReleaseAt
<1>2. sock \in Sk /\ DoClose(s, sock) \in Sk /\ DoClose(s, sock)[t] = sock[t]
  BY DEF TypeOK, DoClose
<1> HIDE DEF Sk
<1>3. CASE Create(s) BY <1>3 DEF Create, Same, TypeOK
<1>4. CASE RunRead(s) BY <1>4 DEF RunRead, DoRead, peerVars, Same, TypeOK
<1>5. ASSUME NEW STATE st, OnReadError(s, st) PROVE Same(t)
  <2>1. obj'[t] = obj[t] /\ sock'[t] = sock[t] BY <1>1, <1>2, <1>5 DEF OnReadError
  <2> QED BY <1>5, <2>1 DEF OnReadError, peerVars, Same, TypeOK
<1>6. CASE OnReadOk(s) BY <1>6 DEF OnReadOk, Same, TypeOK
<1>7. ASSUME NEW keep \in BOOLEAN, Reject(s, keep) PROVE Same(t)
  BY <1>7 DEF Reject, DoWrite, peerVars, Same, TypeOK
<1>8. CASE CallHandler(s) BY <1>8 DEF CallHandler, peerVars, Same, TypeOK
<1>9. CASE HandleReturn(s)
  <2>1. obj'[t] = obj[t] /\ sock'[t] = sock[t] BY <1>1, <1>2, <1>9 DEF HandleReturn
  <2> QED BY <1>9, <2>1 DEF HandleReturn, peerVars, Same, TypeOK
<1>10. ASSUME NEW w \in writes[s], NEW STATE st, OnWriteClose(s, w, st), got'[t] = got[t]
       PROVE Same(t)
  <2>1. obj'[t] = obj[t] /\ sock'[t] = sock[t] BY <1>1, <1>2, <1>10 DEF OnWriteClose
  <2> QED BY <1>10, <2>1 DEF OnWriteClose, Same, TypeOK
<1>11. CASE OnWrite(s)
  <2> PICK w \in writes[s] : \/ OnWriteTimeout(s, w) \/ OnWriteFail(s, w)
                             \/ OnWriteLast(s, w) \/ OnWriteOk(s, w)
    BY <1>11 DEF OnWrite
  <2>1. CASE OnWriteTimeout(s, w) BY <1>10, <2>1 DEF OnWriteTimeout
  <2>2. CASE OnWriteFail(s, w) BY <1>10, <2>2 DEF OnWriteFail
  <2>3. CASE OnWriteLast(s, w)
    <3>1. got'[t] = got[t] BY <2>3 DEF OnWriteLast, TypeOK
    <3> QED BY <1>10, <2>3, <3>1 DEF OnWriteLast
  <2>4. CASE OnWriteOk(s, w) BY <2>4 DEF OnWriteOk, DoRead, Same, TypeOK
  <2> QED BY <2>1, <2>2, <2>3, <2>4
<1>12. ASSUME NEW w \in writers[s], NEW keep \in BOOLEAN, Send(s, w, keep) PROVE Same(t)
  BY <1>12 DEF Send, DoWrite, peerVars, Same, TypeOK
<1>13. ASSUME NEW w \in writers[s], DropWriter(s, w) PROVE Same(t)
  <2>1. obj'[t] = obj[t] /\ sock'[t] = sock[t] BY <1>1, <1>2, <1>13 DEF DropWriter
  <2> QED BY <1>13, <2>1 DEF DropWriter, peerVars, Same, TypeOK
<1>14. CASE PeerNext(s) BY <1>14 DEF PeerNext, ClientSend, ClientLeave, objVars, Same
<1>15. CASE Tick(s) BY <1>15 DEF Tick, peerVars, Same
<1> QED BY <1>3, <1>4, <1>5, <1>6, <1>7, <1>8, <1>9, <1>11, <1>12, <1>13, <1>14, <1>15
        DEF StepOf, IONext, AppNext, OnRead, OnReadEof, OnReadTimeout, OnReadFail

-----------------------------------------------------------------------------
(* What the peer of s sees of a step: nothing, or a step of HttpConnection. *)
Seen(s) ==
  \/ /\ StateOf(s)' = StateOf(s) /\ taken'[s] = taken[s] /\ got'[s] = got[s]
  \/ /\ StateOf(s) = "none" /\ StateOf(s)' = "idle"
     /\ taken'[s] = taken[s] /\ got'[s] = got[s]
  \/ /\ StateOf(s) = "idle" /\ StateOf(s)' = "busy"
     /\ taken'[s] = taken[s] + 1 /\ got'[s] = got[s]
  \/ /\ StateOf(s) = "busy" /\ StateOf(s)' \in {"idle", "closed"}
     /\ taken'[s] = taken[s] /\ got'[s] = Append(got[s], taken[s])
  \/ /\ StateOf(s) \in {"idle", "busy"} /\ StateOf(s)' = "closed"
     /\ taken'[s] = taken[s] /\ got'[s] = got[s]

(* What the peer may see of a session is a step of HttpConnection. *)
LEMMA SeenIsStep ==
  ASSUME TypeOK, TypeOK', NEW s \in Sessions, Seen(s),
         \A t \in Sessions \ {s} : Same(t)
  PROVE  [Conn!Next]_(Conn!vars)
<1>1. ConnState' = [ConnState EXCEPT ![s] = StateOf(s)']
  <2>1. \A t \in Sessions \ {s} : StateOf(t)' = StateOf(t)
    BY DEF StateOf, Same
  <2> QED BY <2>1 DEF ConnState
<1>2. taken' = [taken EXCEPT ![s] = taken'[s]] /\ got' = [got EXCEPT ![s] = got'[s]]
  <2>1. /\ taken \in [Sessions -> Nat] /\ taken' \in [Sessions -> Nat]
        /\ got \in [Sessions -> Seq(Nat)] /\ got' \in [Sessions -> Seq(Nat)]
    BY DEF TypeOK
  <2>2. \A t \in Sessions \ {s} : taken'[t] = taken[t] /\ got'[t] = got[t]
    BY DEF Same
  <2>3. taken' = [taken EXCEPT ![s] = taken'[s]] BY <2>1, <2>2
  <2>4. got' = [got EXCEPT ![s] = got'[s]] BY <2>1, <2>2
  <2> QED BY <2>3, <2>4
<1>3. ConnState[s] = StateOf(s) /\ ConnState \in [Sessions -> {"none", "idle", "busy", "closed"}]
  BY DEF ConnState, StateOf
<1>4. taken \in [Sessions -> Nat] /\ got \in [Sessions -> Seq(Nat)] BY DEF TypeOK
<1>5. CASE StateOf(s)' = StateOf(s) /\ taken'[s] = taken[s] /\ got'[s] = got[s]
  BY <1>1, <1>2, <1>3, <1>4, <1>5 DEF Conn!vars
<1>6. CASE StateOf(s) = "none" /\ StateOf(s)' = "idle"
           /\ taken'[s] = taken[s] /\ got'[s] = got[s]
  <2>1. Conn!Open(s) BY <1>1, <1>2, <1>3, <1>4, <1>6 DEF Conn!Open
  <2> QED BY <2>1 DEF Conn!Next
<1>7. CASE StateOf(s) = "idle" /\ StateOf(s)' = "busy"
           /\ taken'[s] = taken[s] + 1 /\ got'[s] = got[s]
  <2>1. Conn!Take(s) BY <1>1, <1>2, <1>3, <1>4, <1>7 DEF Conn!Take
  <2> QED BY <2>1 DEF Conn!Next
<1>8. CASE StateOf(s) = "busy" /\ StateOf(s)' \in {"idle", "closed"}
           /\ taken'[s] = taken[s] /\ got'[s] = Append(got[s], taken[s])
  <2>1. Conn!Reply(s, StateOf(s)') BY <1>1, <1>2, <1>3, <1>4, <1>8 DEF Conn!Reply
  <2> QED BY <1>8, <2>1 DEF Conn!Next
<1>9. CASE StateOf(s) \in {"idle", "busy"} /\ StateOf(s)' = "closed"
           /\ taken'[s] = taken[s] /\ got'[s] = got[s]
  <2>1. Conn!Close(s) BY <1>1, <1>2, <1>3, <1>4, <1>9 DEF Conn!Close
  <2> QED BY <2>1 DEF Conn!Next
<1> QED BY <1>5, <1>6, <1>7, <1>8, <1>9 DEF Seen

(* Closing the stream of a session that lives, with or without its end. *)
LEMMA CloseSeen ==
  ASSUME NEW s \in Sessions, obj[s] = "alive",
         obj'[s] \in {"alive", "gone"}, sock'[s] = "closed",
         taken'[s] = taken[s], got'[s] = got[s]
  PROVE  Seen(s)
BY DEF Seen, StateOf

(* A step that changes nothing the peer sees is a stutter. *)
LEMMA NothingSeen ==
  ASSUME NEW s \in Sessions, obj'[s] = obj[s], sock'[s] = sock[s],
         taken'[s] = taken[s], got'[s] = got[s]
  PROVE  Seen(s)
BY DEF Seen, StateOf

(* The peer sees onRead with an error as a close. *)
LEMMA OnReadErrorSeen ==
  ASSUME TypeOK, Chain, NEW s \in Sessions, NEW STATE st, OnReadError(s, st)
  PROVE  Seen(s)
<1>1. DoClose(s, sock) \in [Sessions -> {"open", "closed"}]
      /\ DoClose(s, sock)[s] = "closed"
  BY DEF DoClose, TypeOK
<1>2. obj[s] = "alive" BY DEF Chain, ChainOf, Held, OnReadError
<1>3. Release(s, st, DoClose(s, sock)) BY DEF OnReadError
<1>4. obj'[s] \in {"alive", "gone"} /\ sock'[s] = "closed"
  BY <1>1, <1>2, <1>3, ReleaseAt
<1>5. taken'[s] = taken[s] /\ got'[s] = got[s] BY DEF OnReadError, peerVars
<1> QED BY <1>2, <1>4, <1>5, CloseSeen

(* The peer sees onWrite as a reply or as a close. *)
LEMMA OnWriteSeen ==
  ASSUME TypeOK, Chain, Chain', NEW s \in Sessions, OnWrite(s)
  PROVE  Seen(s)
<1> PICK w \in writes[s] : \/ OnWriteTimeout(s, w) \/ OnWriteFail(s, w)
                           \/ OnWriteLast(s, w) \/ OnWriteOk(s, w)
  BY DEF OnWrite
<1>1. /\ obj[s] = "alive" /\ sock[s] = "open" /\ w.req = taken[s]
      /\ taken[s] = Len(got[s]) + 1 /\ taken[s] > Len(got[s])
  <2>1. ChainOf(s) BY DEF Chain
  <2> QED BY <2>1, TypesAt DEF ChainOf, Serving
<1>2. DoClose(s, sock) \in [Sessions -> {"open", "closed"}]
      /\ DoClose(s, sock)[s] = "closed"
  BY DEF DoClose, TypeOK
<1>3. ASSUME NEW STATE st, OnWriteClose(s, w, st)
      PROVE  obj'[s] \in {"alive", "gone"} /\ sock'[s] = "closed" /\ taken'[s] = taken[s]
  BY <1>1, <1>2, <1>3, ReleaseAt DEF OnWriteClose
<1>4. CASE OnWriteTimeout(s, w)
  BY <1>1, <1>3, <1>4, CloseSeen DEF OnWriteTimeout
<1>5. CASE OnWriteFail(s, w)
  BY <1>1, <1>3, <1>5, CloseSeen DEF OnWriteFail
<1>6. CASE OnWriteLast(s, w)
  <2>1. got'[s] = Append(got[s], taken[s]) BY <1>1, <1>6 DEF OnWriteLast, TypeOK
  <2> QED BY <1>1, <1>3, <1>6, <2>1 DEF OnWriteLast, Seen, StateOf
<1>7. CASE OnWriteOk(s, w)
  <2>1. got'[s] = Append(got[s], taken[s]) /\ taken'[s] = taken[s]
        /\ obj'[s] = obj[s] /\ sock'[s] = sock[s]
    BY <1>1, <1>7 DEF OnWriteOk, TypeOK
  <2>2. Len(got'[s]) = taken'[s] BY <1>1, <2>1, TypesAt
  <2>3. StateOf(s)' = "idle" BY <1>1, <2>1, <2>2, TypesAt DEF StateOf
  <2>4. StateOf(s) = "busy" BY <1>1 DEF StateOf
  <2> QED BY <2>1, <2>3, <2>4 DEF Seen
<1> QED BY <1>4, <1>5, <1>6, <1>7

(* The peer sees every step of a session as a step or a stutter. *)
LEMMA StepSeen ==
  ASSUME TypeOK, Chain, Chain', NEW s \in Sessions, StepOf(s)
  PROVE  Seen(s)
<1>0. ChainOf(s) BY DEF Chain
<1>1. CASE Create(s)
  <2>1. /\ obj[s] = "none" /\ obj'[s] = "alive" /\ sock'[s] = "open"
        /\ taken'[s] = taken[s] /\ got'[s] = got[s]
    BY <1>1 DEF Create, TypeOK
  <2>2. ~(taken'[s] > Len(got'[s])) BY <1>0, <2>1, TypesAt DEF ChainOf
  <2> QED BY <2>1, <2>2 DEF Seen, StateOf
<1>2. CASE OnRead(s)
  <2>1. CASE OnReadOk(s)
    <3>1. /\ reads[s] > 0 /\ obj'[s] = obj[s] /\ sock'[s] = sock[s]
          /\ taken'[s] = taken[s] + 1 /\ got'[s] = got[s]
      BY <2>1 DEF OnReadOk, TypeOK
    <3>2. /\ obj[s] = "alive" /\ sock[s] = "open" /\ taken[s] = Len(got[s])
      BY <1>0, <3>1, TypesAt DEF ChainOf
    <3>3. ~(taken[s] > Len(got[s])) /\ taken'[s] > Len(got'[s]) BY <3>1, <3>2, TypesAt
    <3> QED BY <3>1, <3>2, <3>3 DEF Seen, StateOf
  <2> QED BY <1>2, <2>1, OnReadErrorSeen DEF OnRead, OnReadEof, OnReadTimeout, OnReadFail
<1>3. ASSUME obj[s] = "alive", NEW STATE st, Release(s, st, sock),
             taken'[s] = taken[s], got'[s] = got[s]
      PROVE  Seen(s)
  <2>1. sock \in [Sessions -> {"open", "closed"}] BY DEF TypeOK
  <2>2. CASE Held(s)' BY <1>3, <2>1, <2>2, ReleaseAt, NothingSeen
  <2>3. CASE ~Held(s)'
    <3>1. obj'[s] = "gone" /\ sock'[s] = "closed" BY <1>3, <2>1, <2>3, ReleaseAt
    <3> QED BY <1>3, <3>1, CloseSeen
  <2> QED BY <2>2, <2>3
<1>4. CASE HandleReturn(s)
  <2>1. obj[s] = "alive" BY <1>0, <1>4 DEF HandleReturn, ChainOf, Held
  <2> QED BY <1>3, <1>4, <2>1 DEF HandleReturn, peerVars
<1>5. ASSUME NEW w \in writers[s], DropWriter(s, w) PROVE Seen(s)
  <2>1. obj[s] = "alive" BY <1>0, <1>5 DEF ChainOf, Held
  <2> QED BY <1>3, <1>5, <2>1 DEF DropWriter, peerVars
<1>6. CASE RunRead(s) BY <1>6, NothingSeen DEF RunRead, peerVars
<1>7. ASSUME NEW keep \in BOOLEAN, Reject(s, keep) PROVE Seen(s)
  BY <1>7, NothingSeen DEF Reject, peerVars
<1>8. CASE CallHandler(s) BY <1>8, NothingSeen DEF CallHandler, peerVars
<1>9. ASSUME NEW w \in writers[s], NEW keep \in BOOLEAN, Send(s, w, keep) PROVE Seen(s)
  BY <1>9, NothingSeen DEF Send, peerVars
<1>10. CASE PeerNext(s)
  BY <1>10, NothingSeen DEF PeerNext, ClientSend, ClientLeave, objVars
<1>11. CASE Tick(s) BY <1>11, NothingSeen DEF Tick, peerVars
<1> QED BY <1>1, <1>2, <1>4, <1>5, <1>6, <1>7, <1>8, <1>9, <1>10, <1>11, OnWriteSeen
        DEF StepOf, IONext, AppNext

(* Every connection behaves as HttpConnection promises: one request at a    *)
(* time, answers in order and none after the close, however the IO threads, *)
(* the application's threads, the deadlines and the peers interleave.      *)
THEOREM Refinement ==
  ASSUME SendOnce
  PROVE  Spec => KeepsPromise
<1>1. Init => Conn!Init
  BY DEF Init, Conn!Init, ConnState, StateOf
<1>2. ASSUME TypeOK, TypeOK', Chain, Chain', [Next]_vars PROVE [Conn!Next]_(Conn!vars)
  <2>1. CASE UNCHANGED vars
    <3>1. ConnState' = ConnState /\ taken' = taken /\ got' = got
      BY <2>1 DEF vars, objVars, peerVars, ConnState, StateOf
    <3> QED BY <3>1 DEF Conn!vars
  <2>2. CASE Next
    <3>1. PICK s \in Sessions : StepOf(s) BY <2>2 DEF Next, StepOf
    <3>2. Seen(s) BY <1>2, <3>1, StepSeen
    <3>3. \A t \in Sessions \ {s} : Same(t) BY <1>2, <3>1, OthersSame
    <3> QED BY <1>2, <3>2, <3>3, SeenIsStep
  <2> QED BY <1>2, <2>1, <2>2
<1> QED BY <1>1, <1>2, TypeCorrect, ChainCorrect, PTL DEF Spec, KeepsPromise, Conn!Spec

-----------------------------------------------------------------------------
(* DEADLINES *)

(* What is left of a deadline that was armed with an option. *)
Left(option) == IF option # 0 THEN 0..option ELSE {Never}

(* A session has one deadline for reads and writes, which expires_after()    *)
(* moves.  Whatever is outstanding is under a deadline of its own kind: no *)
(* read waits under the deadline of the write before it, no write under    *)
(* that of a read, and with an option that is not 0 none waits without.    *)
OwnDeadline ==
  \A s \in Sessions :
    /\ reads[s] > 0 => timer[s] \in Left(ReadTimeOut)
    /\ writes[s] # {} => timer[s] \in Left(WriteTimeOut)

(* expires_after() and expires_never() set a deadline of the kind asked for. *)
LEMMA Armed ==
  /\ Expiry(ReadTimeOut) \in Left(ReadTimeOut)
  /\ Expiry(WriteTimeOut) \in Left(WriteTimeOut)
BY ConstantsAssumption DEF Expiry, Left, Never

(* A session that waits for no more than before keeps its deadline. *)
LEMMA DeadlineKept ==
  ASSUME OwnDeadline, NEW t \in Sessions, timer'[t] = timer[t],
         reads'[t] > 0 => reads[t] > 0, writes'[t] # {} => writes[t] # {}
  PROVE  /\ reads'[t] > 0 => timer'[t] \in Left(ReadTimeOut)
         /\ writes'[t] # {} => timer'[t] \in Left(WriteTimeOut)
BY DEF OwnDeadline

(* What a step does to the deadline of its session. *)
LEMMA DeadlineAt ==
  ASSUME TypeOK, Chain, Chain', OwnDeadline, NEW s \in Sessions, StepOf(s)
  PROVE  /\ reads'[s] > 0 => timer'[s] \in Left(ReadTimeOut)
         /\ writes'[s] # {} => timer'[s] \in Left(WriteTimeOut)
<1> DEFINE Goal == /\ reads'[s] > 0 => timer'[s] \in Left(ReadTimeOut)
                   /\ writes'[s] # {} => timer'[s] \in Left(WriteTimeOut)
<1>1. ChainOf(s) /\ ChainOf(s)' BY DEF Chain
<1>2. reads[s] \in Nat BY DEF TypeOK
<1>3. ASSUME UNCHANGED <<reads, writes, timer>> PROVE Goal
  BY <1>3, DeadlineKept
<1>4. ASSUME DoRead(s), writes'[s] = {} PROVE Goal
  <2>1. timer'[s] = Expiry(ReadTimeOut) BY <1>4 DEF DoRead, TypeOK
  <2> QED BY <1>4, <2>1, Armed
<1>5. ASSUME NEW r, NEW nth, NEW keep, DoWrite(s, r, nth, keep), reads'[s] = 0 PROVE Goal
  <2>1. timer'[s] = Expiry(WriteTimeOut) BY <1>5 DEF DoWrite, TypeOK
  <2> QED BY <1>5, <2>1, Armed
<1>6. CASE Create(s) BY <1>3, <1>6 DEF Create
<1>7. CASE RunRead(s)
  <2>1. writes'[s] = {}
    <3>1. disp[s] /\ writes' = writes BY <1>7 DEF RunRead
    <3> QED BY <1>1, <3>1 DEF ChainOf, Serving
  <2> QED BY <1>4, <1>7, <2>1 DEF RunRead
<1>8. ASSUME NEW STATE st, OnReadError(s, st) PROVE Goal
  <2>1. reads'[s] > 0 => reads[s] > 0 BY <1>2, <1>8 DEF OnReadError, TypeOK
  <2> QED BY <1>8, <2>1, DeadlineKept DEF OnReadError
<1>9. CASE OnReadOk(s)
  <2>1. reads'[s] > 0 => reads[s] > 0 BY <1>2, <1>9 DEF OnReadOk, TypeOK
  <2> QED BY <1>9, <2>1, DeadlineKept DEF OnReadOk
<1>10. ASSUME NEW keep \in BOOLEAN, Reject(s, keep) PROVE Goal
  <2>1. strand[s] = "process" /\ reads' = reads BY <1>10 DEF Reject
  <2>2. reads'[s] = 0 BY <1>1, <1>2, <2>1 DEF ChainOf
  <2> QED BY <1>5, <1>10, <2>2 DEF Reject
<1>11. CASE CallHandler(s) BY <1>3, <1>11 DEF CallHandler
<1>12. CASE HandleReturn(s) BY <1>3, <1>12 DEF HandleReturn
<1>13. ASSUME NEW w \in writes[s], NEW STATE st, OnWriteClose(s, w, st) PROVE Goal
  BY <1>13, DeadlineKept DEF OnWriteClose
<1>14. ASSUME NEW w \in writes[s], OnWriteOk(s, w) PROVE Goal
  <2>1. writes'[s] = writes[s] \ {w} BY <1>14 DEF OnWriteOk, TypeOK
  <2>2. \A a, b \in writes[s] : a = b BY <1>1 DEF ChainOf
  <2>3. writes'[s] = {} BY <2>1, <2>2
  <2> QED BY <1>4, <1>14, <2>3 DEF OnWriteOk
<1>15. CASE OnWrite(s)
  BY <1>13, <1>14, <1>15 DEF OnWrite, OnWriteTimeout, OnWriteFail, OnWriteLast
<1>16. ASSUME NEW w \in writers[s], NEW keep \in BOOLEAN, Send(s, w, keep) PROVE Goal
  <2>1. writes'[s] # {} /\ reads' = reads BY <1>16 DEF Send, DoWrite, TypeOK
  <2>2. reads'[s] = 0 BY <1>1, <1>2, <2>1 DEF ChainOf, Serving
  <2> QED BY <1>5, <1>16, <2>2 DEF Send
<1>17. ASSUME NEW w \in writers[s], DropWriter(s, w) PROVE Goal
  BY <1>3, <1>17 DEF DropWriter
<1>18. CASE PeerNext(s) BY <1>3, <1>18 DEF PeerNext, ClientSend, ClientLeave, objVars
<1>19. CASE Tick(s)
  <2>1. /\ timer[s] > 0 /\ timer'[s] = timer[s] - 1
        /\ reads' = reads /\ writes' = writes
    BY <1>19 DEF Tick, TypeOK
  <2>2. \A option \in {ReadTimeOut, WriteTimeOut} :
          timer[s] \in Left(option) => timer'[s] \in Left(option)
    BY <2>1, ConstantsAssumption DEF Left, Never
  <2> QED BY <2>1, <2>2 DEF OwnDeadline
<1> QED
  BY <1>6, <1>7, <1>8, <1>9, <1>10, <1>11, <1>12, <1>15, <1>16, <1>17, <1>18, <1>19
     DEF StepOf, IONext, AppNext, OnRead, OnReadEof, OnReadTimeout, OnReadFail

(* A step of one session leaves the deadlines of the others. *)
LEMMA OthersTimer ==
  ASSUME TypeOK, NEW s \in Sessions, StepOf(s), NEW t \in Sessions \ {s}
  PROVE  timer'[t] = timer[t]
<1> USE DEF TypeOK, peerVars, objVars
<1>1. CASE Create(s) BY <1>1 DEF Create
<1>2. CASE RunRead(s) BY <1>2 DEF RunRead, DoRead
<1>3. CASE OnRead(s)
  BY <1>3 DEF OnRead, OnReadEof, OnReadTimeout, OnReadFail, OnReadOk, OnReadError
<1>4. ASSUME NEW keep, Reject(s, keep) PROVE timer'[t] = timer[t]
  BY <1>4 DEF Reject, DoWrite
<1>5. CASE CallHandler(s) BY <1>5 DEF CallHandler
<1>6. CASE HandleReturn(s) BY <1>6 DEF HandleReturn
<1>7. CASE OnWrite(s)
  BY <1>7 DEF OnWrite, OnWriteTimeout, OnWriteFail, OnWriteLast, OnWriteOk,
              OnWriteClose, DoRead
<1>8. CASE AppNext(s) BY <1>8 DEF AppNext, DropWriter, Send, DoWrite
<1>9. CASE PeerNext(s) BY <1>9 DEF PeerNext, ClientSend, ClientLeave
<1>10. CASE Tick(s) BY <1>10 DEF Tick
<1> QED
  BY <1>1, <1>2, <1>3, <1>4, <1>5, <1>6, <1>7, <1>8, <1>9, <1>10 DEF StepOf, IONext

(* Every outstanding read and write of every session has the deadline that   *)
(* its option calls for, if a handler sends at most once.                  *)
THEOREM OwnDeadlineCorrect ==
  ASSUME SendOnce
  PROVE  Spec => []OwnDeadline
<1>1. Init => OwnDeadline BY DEF Init, OwnDeadline
<1>2. ASSUME TypeOK, Chain, Chain', OwnDeadline, [Next]_vars PROVE OwnDeadline'
  <2>1. CASE UNCHANGED vars BY <1>2, <2>1 DEF vars, objVars, peerVars, OwnDeadline
  <2>2. CASE Next
    <3>1. PICK s \in Sessions : StepOf(s) BY <2>2 DEF Next, StepOf
    <3>2. ASSUME NEW t \in Sessions
          PROVE  /\ reads'[t] > 0 => timer'[t] \in Left(ReadTimeOut)
                 /\ writes'[t] # {} => timer'[t] \in Left(WriteTimeOut)
      <4>1. CASE t = s BY <1>2, <3>1, <4>1, DeadlineAt
      <4>2. CASE t # s
        <5>1. reads'[t] = reads[t] /\ writes'[t] = writes[t]
          BY <1>2, <3>1, <4>2, OthersSame DEF Same
        <5>2. timer'[t] = timer[t] BY <1>2, <3>1, <4>2, OthersTimer
        <5> QED BY <1>2, <5>1, <5>2, DeadlineKept
      <4> QED BY <4>1, <4>2
    <3> QED BY <3>2 DEF OwnDeadline, Left
  <2> QED BY <1>2, <2>1, <2>2
<1> QED BY <1>1, <1>2, TypeCorrect, ChainCorrect, PTL DEF Spec
=============================================================================
