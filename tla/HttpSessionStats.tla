--------------------------- MODULE HttpSessionStats ---------------------------
(***************************************************************************)
(* The statistics of HttpServer::getHttpStatistics() add up, for every     *)
(* number of sessions the 32-bit session counter can hold.                 *)
(***************************************************************************)
EXTENDS HttpSessionProofs

(* The gauges are wide enough for the sessions there are. *)
WideEnough == Cardinality(Sessions) <= CntMax

(* The requests that were handled and whose response is still to be written. *)
Owed == {s \in Sessions : strand[s] = "free" /\ (writes[s] # {} \/ Unsent(s) # {})}

(* WritesDone <= handle_request is not inductive: a write that completes    *)
(* needs a request that was handled and not answered yet.                  *)
StatInv ==
  /\ stat["session"] = Cardinality(Alive)
  /\ stat["working_handler"] = Cardinality(Working)
  /\ stat["read_success"] = stat["handle_request"] + Cardinality(Processing)
  /\ WritesDone + Cardinality(Owed) <= stat["handle_request"]

Bit(b) == IF b THEN 1 ELSE 0

(* Changing whether one element belongs to a set. *)
LEMMA CardBit ==
  ASSUME NEW U, IsFiniteSet(U), NEW A \in SUBSET U, NEW B \in SUBSET U,
         NEW s \in U, A \ {s} = B \ {s}
  PROVE  /\ Cardinality(A) \in Nat
         /\ Cardinality(B) \in Nat
         /\ Cardinality(B) = Cardinality(A) - Bit(s \in A) + Bit(s \in B)
         /\ s \in A => Cardinality(A) >= 1
         /\ s \notin A => Cardinality(A) < Cardinality(U)
<1>1. IsFiniteSet(A) /\ IsFiniteSet(B) BY FS_Subset
<1>2. Cardinality(A) \in Nat /\ Cardinality(B) \in Nat /\ Cardinality(U) \in Nat
  BY <1>1, FS_CardinalityType
<1>3. /\ IsFiniteSet(A \ {s}) /\ Cardinality(A \ {s}) \in Nat
      /\ Cardinality(A \ {s}) = Cardinality(A) - Bit(s \in A)
  BY <1>1, <1>2, FS_RemoveElement, FS_CardinalityType DEF Bit
<1>4. Cardinality(B \ {s}) = Cardinality(B) - Bit(s \in B)
  <2>1. CASE s \in B BY <1>1, <1>2, <2>1, FS_RemoveElement DEF Bit
  <2>2. CASE s \notin B
    <3>1. B \ {s} = B BY <2>2
    <3> QED BY <1>2, <2>2, <3>1 DEF Bit
  <2> QED BY <2>1, <2>2
<1>5. s \notin A => Cardinality(A) < Cardinality(U)
  <2> SUFFICES ASSUME s \notin A PROVE Cardinality(A) < Cardinality(U) OBVIOUS
  <2>1. A \subseteq U \ {s} OBVIOUS
  <2>2. IsFiniteSet(U \ {s}) /\ Cardinality(U \ {s}) = Cardinality(U) - 1
    BY FS_RemoveElement
  <2>3. Cardinality(A) <= Cardinality(U \ {s}) BY <2>1, <2>2, FS_Subset
  <2> QED BY <1>2, <2>2, <2>3
<1> QED BY <1>2, <1>3, <1>4, <1>5 DEF Bit

(* The four sets when only session s takes a step. *)
LEMMA Counts ==
  ASSUME TypeOK, NEW s \in Sessions, \A t \in Sessions \ {s} : Same(t)
  PROVE  /\ Cardinality(Alive) \in Nat
         /\ Cardinality(Alive') = Cardinality(Alive) - Bit(s \in Alive) + Bit(s \in Alive')
         /\ s \in Alive => Cardinality(Alive) >= 1
         /\ s \notin Alive => Cardinality(Alive) < Cardinality(Sessions)
         /\ Cardinality(Working) \in Nat
         /\ Cardinality(Working') = Cardinality(Working) - Bit(s \in Working) + Bit(s \in Working')
         /\ s \in Working => Cardinality(Working) >= 1
         /\ s \notin Working => Cardinality(Working) < Cardinality(Sessions)
         /\ Cardinality(Processing) \in Nat
         /\ Cardinality(Processing') = Cardinality(Processing)
              - Bit(s \in Processing) + Bit(s \in Processing')
         /\ Cardinality(Owed) \in Nat
         /\ Cardinality(Owed') = Cardinality(Owed) - Bit(s \in Owed) + Bit(s \in Owed')
<1>1. IsFiniteSet(Sessions) BY ConstantsAssumption
<1>2. /\ Alive \in SUBSET Sessions /\ Alive' \in SUBSET Sessions
      /\ Alive \ {s} = Alive' \ {s}
  BY DEF Alive, Same
<1>3. /\ Working \in SUBSET Sessions /\ Working' \in SUBSET Sessions
      /\ Working \ {s} = Working' \ {s}
  BY DEF Working, Same
<1>4. /\ Processing \in SUBSET Sessions /\ Processing' \in SUBSET Sessions
      /\ Processing \ {s} = Processing' \ {s}
  BY DEF Processing, Same
<1>5. /\ Owed \in SUBSET Sessions /\ Owed' \in SUBSET Sessions
      /\ Owed \ {s} = Owed' \ {s}
  <2>1. \A t \in Sessions \ {s} : Unsent(t)' = Unsent(t) BY DEF Unsent, Same
  <2> QED BY <2>1 DEF Owed, Same
<1>6. /\ Cardinality(Alive) \in Nat
      /\ Cardinality(Alive') = Cardinality(Alive) - Bit(s \in Alive) + Bit(s \in Alive')
      /\ s \in Alive => Cardinality(Alive) >= 1
      /\ s \notin Alive => Cardinality(Alive) < Cardinality(Sessions)
  BY <1>1, <1>2, CardBit
<1>7. /\ Cardinality(Working) \in Nat
      /\ Cardinality(Working') = Cardinality(Working) - Bit(s \in Working) + Bit(s \in Working')
      /\ s \in Working => Cardinality(Working) >= 1
      /\ s \notin Working => Cardinality(Working) < Cardinality(Sessions)
  BY <1>1, <1>3, CardBit
<1>8. /\ Cardinality(Processing) \in Nat
      /\ Cardinality(Processing') = Cardinality(Processing)
           - Bit(s \in Processing) + Bit(s \in Processing')
  BY <1>1, <1>4, CardBit
<1>9. /\ Cardinality(Owed) \in Nat
      /\ Cardinality(Owed') = Cardinality(Owed) - Bit(s \in Owed) + Bit(s \in Owed')
  BY <1>1, <1>5, CardBit
<1> QED BY <1>6, <1>7, <1>8, <1>9

-----------------------------------------------------------------------------
(* The membership of s in the four sets, in terms of its own state. *)
LEMMA Members ==
  ASSUME NEW s \in Sessions
  PROVE  /\ s \in Alive <=> obj[s] = "alive"
         /\ s \in Alive' <=> obj'[s] = "alive"
         /\ s \in Working <=> strand[s] = "handler"
         /\ s \in Working' <=> strand'[s] = "handler"
         /\ s \in Processing <=> strand[s] # "free"
         /\ s \in Processing' <=> strand'[s] # "free"
         /\ s \in Owed <=> strand[s] = "free" /\ (writes[s] # {} \/ Unsent(s) # {})
         /\ s \in Owed' <=> strand'[s] = "free" /\ (writes'[s] # {} \/ Unsent(s)' # {})
BY DEF Alive, Working, Processing, Owed

(* A step that counts nothing and moves s out of Owed at most. *)
LEMMA QuietStat ==
  ASSUME TypeOK, StatInv, NEW s \in Sessions, \A t \in Sessions \ {s} : Same(t),
         stat' = stat, obj'[s] = obj[s], strand'[s] = strand[s],
         s \in Owed' => s \in Owed
  PROVE  StatInv'
<1>1. /\ s \in Alive' <=> s \in Alive
      /\ s \in Working' <=> s \in Working
      /\ s \in Processing' <=> s \in Processing
  BY Members
<1>2. \A c \in Counters : stat[c] \in Nat BY DEF TypeOK
<1>3. WritesDone \in Nat /\ WritesDone' = WritesDone BY <1>2 DEF WritesDone, Counters
<1>4. stat["session"] \in Nat /\ stat["handle_request"] \in Nat BY <1>2 DEF Counters
<1> QED BY <1>1, <1>3, <1>4, Counts DEF StatInv, Bit

(* The end of a handler that may end the object too.  Before the destructor *)
(* the statistics are st, which differ from stat in the other counters.    *)
LEMMA ReleaseStat ==
  ASSUME TypeOK, StatInv, Chain, Chain', NEW s \in Sessions,
         \A t \in Sessions \ {s} : Same(t), obj[s] = "alive",
         NEW STATE st, st \in [Counters -> Nat], NEW STATE sk,
         Release(s, st, sk), st["session"] = stat["session"]
  PROVE  /\ stat'["session"] = Cardinality(Alive')
         /\ \A c \in Counters \ {"session"} : stat'[c] = st[c]
<1>1. ChainOf(s)' BY DEF Chain
<1>2. obj'[s] = "alive" <=> Held(s)' BY <1>1 DEF ChainOf
<1>3. stat["session"] = Cardinality(Alive) BY DEF StatInv
<1>4. s \in Alive BY Members
<1>5. CASE Held(s)'
  <2>1. s \in Alive' BY <1>2, <1>5, Members
  <2>2. stat' = st BY <1>5 DEF Release
  <2> QED BY <1>3, <1>4, <2>1, <2>2, Counts DEF Bit
<1>6. CASE ~Held(s)'
  <2>1. s \notin Alive' BY <1>2, <1>6, Members
  <2>2. stat' = [st EXCEPT !["session"] = Dec(@)] BY <1>6 DEF Release
  <2>3. Cardinality(Alive') = Cardinality(Alive) - 1 BY <1>4, <2>1, Counts DEF Bit
  <2>4. stat'["session"] = Cardinality(Alive) - 1
    BY <1>3, <1>4, <2>2, Counts DEF Dec, Counters
  <2> QED BY <2>2, <2>3, <2>4
<1> QED BY <1>5, <1>6

(* An onRead() or onWrite() that counts in c and closes the stream. *)
LEMMA OnReadErrorStat ==
  ASSUME TypeOK, StatInv, Chain, Chain', NEW s \in Sessions,
         \A t \in Sessions \ {s} : Same(t),
         NEW STATE st, st \in [Counters -> Nat], OnReadError(s, st),
         \A c \in Counters \ {"read_timeout", "read_fail"} : st[c] = stat[c]
  PROVE  StatInv'
<1>1. obj[s] = "alive" BY DEF Chain, ChainOf, Held, OnReadError
<1>2. Release(s, st, DoClose(s, sock)) BY DEF OnReadError
<1>3. st["session"] = stat["session"] BY DEF Counters
<1>4. /\ stat'["session"] = Cardinality(Alive')
      /\ \A c \in Counters \ {"session"} : stat'[c] = st[c]
  BY <1>1, <1>2, <1>3, ReleaseStat
<1>5. /\ stat'["working_handler"] = stat["working_handler"]
      /\ stat'["read_success"] = stat["read_success"]
      /\ stat'["handle_request"] = stat["handle_request"]
      /\ WritesDone' = WritesDone
  BY <1>4 DEF Counters, WritesDone
<1>6. /\ strand'[s] = strand[s] /\ writes'[s] = writes[s] /\ Unsent(s)' = Unsent(s)
  BY DEF OnReadError, Unsent
<1>7. /\ s \in Working' <=> s \in Working
      /\ s \in Processing' <=> s \in Processing
      /\ s \in Owed' <=> s \in Owed
  BY <1>6, Members
<1> QED BY <1>4, <1>5, <1>7, Counts DEF StatInv, Bit

(* onWrite keeps the balance of the totals. *)
LEMMA OnWriteStat ==
  ASSUME TypeOK, StatInv, Chain, Chain', NEW s \in Sessions,
         \A t \in Sessions \ {s} : Same(t), OnWrite(s)
  PROVE  StatInv'
<1> PICK w \in writes[s] : \/ OnWriteTimeout(s, w) \/ OnWriteFail(s, w)
                           \/ OnWriteLast(s, w) \/ OnWriteOk(s, w)
  BY DEF OnWrite
<1>0. \A c \in Counters : stat[c] \in Nat BY DEF TypeOK
<1>1. ChainOf(s) BY DEF Chain
<1>2. obj[s] = "alive" /\ Unsent(s) = {} /\ \A x \in writes[s] : x = w
  BY <1>1 DEF ChainOf, Held
<1> DEFINE Done(c) ==
      /\ stat'["session"] = Cardinality(Alive')
      /\ \A d \in Counters \ {"session"} : stat'[d] = Bump(c)[d]
      /\ strand'[s] = strand[s] /\ strand[s] = "free"
      /\ writes'[s] = writes[s] \ {w} /\ writers'[s] = writers[s]
<1>3. ASSUME NEW c \in Counters \ {"session"}, OnWriteClose(s, w, Bump(c)) PROVE Done(c)
  <2>1. Bump(c) \in [Counters -> Nat] /\ Bump(c)["session"] = stat["session"]
    BY BumpTypes DEF Bump, TypeOK, Counters
  <2>2. Release(s, Bump(c), DoClose(s, sock)) BY <1>3 DEF OnWriteClose
  <2>3. /\ stat'["session"] = Cardinality(Alive')
        /\ \A d \in Counters \ {"session"} : stat'[d] = Bump(c)[d]
    BY <1>2, <2>1, <2>2, ReleaseStat
  <2>4. /\ strand'[s] = strand[s] /\ strand[s] = "free"
        /\ writes'[s] = writes[s] \ {w} /\ writers'[s] = writers[s]
    BY <1>3 DEF OnWriteClose, CanRun, TypeOK
  <2> QED BY <2>3, <2>4
<1>4. ASSUME OnWriteOk(s, w) PROVE Done("write_success")
  <2>1. stat' = Bump("write_success") /\ obj'[s] = obj[s] BY <1>4 DEF OnWriteOk
  <2>2. s \in Alive /\ s \in Alive' BY <1>2, <2>1, Members
  <2>3. stat'["session"] = stat["session"] BY <2>1 DEF Bump, TypeOK, Counters
  <2>4. stat'["session"] = Cardinality(Alive') BY <2>2, <2>3, Counts DEF StatInv, Bit
  <2>5. /\ strand'[s] = strand[s] /\ strand[s] = "free"
        /\ writes'[s] = writes[s] \ {w} /\ writers'[s] = writers[s]
    BY <1>4 DEF OnWriteOk, CanRun, TypeOK
  <2> QED BY <2>1, <2>4, <2>5
<1>5. PICK c \in {"write_success", "write_fail", "write_timeout"} : Done(c)
  BY <1>3, <1>4 DEF OnWriteTimeout, OnWriteFail, OnWriteLast, Counters
<1>6. /\ s \in Working' <=> s \in Working
      /\ s \in Processing' <=> s \in Processing
      /\ s \in Owed /\ s \notin Owed'
  <2>1. writes'[s] = {} BY <1>2, <1>5
  <2>2. Unsent(s)' = {} BY <1>2, <1>5 DEF Unsent
  <2> QED BY <1>5, <2>1, <2>2, Members
<1>7. /\ stat'["working_handler"] = stat["working_handler"]
      /\ stat'["read_success"] = stat["read_success"]
      /\ stat'["handle_request"] = stat["handle_request"]
      /\ WritesDone' = WritesDone + 1 /\ WritesDone \in Nat
  <2>1. \A d \in Counters \ {"session"} : stat'[d] = IF d = c THEN stat[d] + 1 ELSE stat[d]
    BY <1>5 DEF Bump, TypeOK
  <2> QED BY <1>0, <2>1 DEF WritesDone, Counters
<1>8. stat'["session"] = Cardinality(Alive') BY <1>5
<1>9. stat["handle_request"] \in Nat BY <1>0 DEF Counters
<1> QED BY <1>6, <1>7, <1>8, <1>9, Counts DEF StatInv, Bit

(* The return of handle() keeps gauges and totals in balance. *)
LEMMA HandleReturnStat ==
  ASSUME TypeOK, StatInv, Chain, Chain', NEW s \in Sessions,
         \A t \in Sessions \ {s} : Same(t), HandleReturn(s)
  PROVE  StatInv'
<1> DEFINE st == [stat EXCEPT !["working_handler"] = Dec(@), !["handle_request"] = @ + 1]
<1>0. stat \in [Counters -> Nat] BY DEF TypeOK
<1>1. /\ st \in [Counters -> Nat]
      /\ st["working_handler"] = Dec(stat["working_handler"])
      /\ st["handle_request"] = stat["handle_request"] + 1
      /\ \A c \in Counters \ {"working_handler", "handle_request"} : st[c] = stat[c]
  BY <1>0, ConstantsAssumption DEF Counters, Dec
<1>2. Release(s, st, sock) BY DEF HandleReturn
<1> HIDE DEF st
<1>3. obj[s] = "alive" BY DEF Chain, ChainOf, Held, HandleReturn
<1>4. st["session"] = stat["session"] BY <1>1 DEF Counters
<1>5. /\ stat'["session"] = Cardinality(Alive')
      /\ \A c \in Counters \ {"session"} : stat'[c] = st[c]
  BY <1>1, <1>2, <1>3, <1>4, ReleaseStat
<1>6. /\ s \in Working /\ s \notin Working' /\ s \in Processing /\ s \notin Processing'
      /\ s \notin Owed
  BY Members DEF HandleReturn, TypeOK
<1>7. /\ stat'["working_handler"] = stat["working_handler"] - 1
      /\ stat'["read_success"] = stat["read_success"]
      /\ stat'["handle_request"] = stat["handle_request"] + 1
      /\ WritesDone' = WritesDone
  <2>1. stat["working_handler"] >= 1 BY <1>6, Counts DEF StatInv
  <2> QED BY <1>0, <1>1, <1>5, <2>1 DEF Counters, WritesDone, Dec
<1>8. stat["handle_request"] \in Nat /\ WritesDone \in Nat BY <1>0 DEF Counters, WritesDone
<1> QED BY <1>5, <1>6, <1>7, <1>8, Counts DEF StatInv, Bit

(* Every step keeps gauges and totals in balance. *)
LEMMA StatNext ==
  ASSUME SendOnce, WideEnough, TypeOK, StatInv, Chain, Chain',
         NEW s \in Sessions, StepOf(s)
  PROVE  StatInv'
<1>0. /\ stat \in [Counters -> Nat] /\ \A c \in Counters : stat[c] \in Nat BY DEF TypeOK
<1>1. \A t \in Sessions \ {s} : Same(t) BY OthersSame
<1>2. stat["handle_request"] \in Nat /\ WritesDone \in Nat BY <1>0 DEF Counters, WritesDone
<1>3. Cardinality(Sessions) \in Nat BY ConstantsAssumption, FS_CardinalityType
<1>4. CASE Create(s)
  <2>1. s \notin Alive /\ s \in Alive' BY <1>4, Members DEF Create, TypeOK
  <2>2. /\ s \in Working' <=> s \in Working
        /\ s \in Processing' <=> s \in Processing
        /\ s \in Owed' <=> s \in Owed
    BY <1>4, Members DEF Create, Unsent
  <2>3. stat'["session"] = stat["session"] + 1
    BY <1>0, <1>1, <1>3, <1>4, <2>1, Counts, ConstantsAssumption
    DEF Create, Inc, Counters, StatInv, WideEnough
  <2>4. \A c \in Counters \ {"session"} : stat'[c] = stat[c] BY <1>0, <1>4 DEF Create
  <2> QED BY <1>1, <1>2, <2>1, <2>2, <2>3, <2>4, Counts
          DEF StatInv, Bit, Counters, WritesDone
<1>5. CASE OnRead(s)
  <2>1. CASE OnReadOk(s)
    <3>1. /\ obj'[s] = obj[s] /\ strand[s] = "free" /\ strand'[s] = "process"
          /\ writes'[s] = writes[s] /\ Unsent(s)' = Unsent(s)
      BY <2>1 DEF OnReadOk, CanRun, Unsent, TypeOK
    <3>2. writes[s] = {} /\ Unsent(s) = {}
      <4>1. ChainOf(s) /\ reads[s] > 0 BY <2>1 DEF Chain, OnReadOk
      <4>2. reads[s] = 1 BY <4>1, TypesAt DEF ChainOf
      <4> QED BY <4>1, <4>2 DEF ChainOf, Serving
    <3>3. /\ s \in Alive' <=> s \in Alive
          /\ s \notin Working /\ s \notin Working'
          /\ s \notin Processing /\ s \in Processing'
          /\ s \notin Owed /\ s \notin Owed'
      BY <3>1, <3>2, Members
    <3>4. /\ stat'["read_success"] = stat["read_success"] + 1
          /\ \A c \in Counters \ {"read_success"} : stat'[c] = stat[c]
      BY <1>0, <2>1 DEF OnReadOk, Bump, Counters
    <3> QED BY <1>1, <1>2, <3>3, <3>4, Counts DEF StatInv, Bit, Counters, WritesDone
  <2>2. CASE OnReadEof(s) BY <1>0, <1>1, <2>2, OnReadErrorStat DEF OnReadEof
  <2>3. CASE OnReadTimeout(s)
    <3>1. Bump("read_timeout") \in [Counters -> Nat]
          /\ \A c \in Counters \ {"read_timeout", "read_fail"} :
               Bump("read_timeout")[c] = stat[c]
      BY <1>0, BumpTypes DEF Bump, Counters
    <3> QED BY <1>1, <2>3, <3>1, OnReadErrorStat DEF OnReadTimeout
  <2>4. CASE OnReadFail(s)
    <3>1. Bump("read_fail") \in [Counters -> Nat]
          /\ \A c \in Counters \ {"read_timeout", "read_fail"} :
               Bump("read_fail")[c] = stat[c]
      BY <1>0, BumpTypes DEF Bump, Counters
    <3> QED BY <1>1, <2>4, <3>1, OnReadErrorStat DEF OnReadFail
  <2> QED BY <1>5, <2>1, <2>2, <2>3, <2>4 DEF OnRead
<1>6. ASSUME NEW keep \in BOOLEAN, Reject(s, keep) PROVE StatInv'
  <2>1. /\ obj'[s] = obj[s] /\ strand[s] = "process" /\ strand'[s] = "free"
    BY <1>6 DEF Reject, TypeOK
  <2>2. /\ s \in Alive' <=> s \in Alive
        /\ s \notin Working /\ s \notin Working'
        /\ s \in Processing /\ s \notin Processing'
        /\ s \notin Owed
    BY <2>1, Members
  <2>3. /\ stat'["handle_request"] = stat["handle_request"] + 1
        /\ \A c \in Counters \ {"handle_request"} : stat'[c] = stat[c]
    BY <1>0, <1>6 DEF Reject, Bump, Counters
  <2> QED BY <1>1, <1>2, <2>2, <2>3, Counts DEF StatInv, Bit, Counters, WritesDone
<1>7. CASE CallHandler(s)
  <2>1. /\ obj'[s] = obj[s] /\ strand[s] = "process" /\ strand'[s] = "handler"
    BY <1>7 DEF CallHandler, TypeOK
  <2>2. /\ s \in Alive' <=> s \in Alive
        /\ s \notin Working /\ s \in Working'
        /\ s \in Processing /\ s \in Processing'
        /\ s \notin Owed /\ s \notin Owed'
    BY <2>1, Members
  <2>3. stat'["working_handler"] = stat["working_handler"] + 1
    BY <1>0, <1>1, <1>3, <1>7, <2>2, Counts, ConstantsAssumption
    DEF CallHandler, Inc, Counters, StatInv, WideEnough
  <2>4. \A c \in Counters \ {"working_handler"} : stat'[c] = stat[c]
    BY <1>0, <1>7 DEF CallHandler
  <2> QED BY <1>1, <1>2, <2>2, <2>3, <2>4, Counts DEF StatInv, Bit, Counters, WritesDone
<1>8. ASSUME NEW w \in writers[s], DropWriter(s, w) PROVE StatInv'
  <2>1. obj[s] = "alive" BY DEF Chain, ChainOf, Held
  <2>2. /\ stat'["session"] = Cardinality(Alive')
        /\ \A c \in Counters \ {"session"} : stat'[c] = stat[c]
    BY <1>0, <1>1, <1>8, <2>1, ReleaseStat DEF DropWriter
  <2>3. Unsent(s)' \subseteq Unsent(s) /\ strand'[s] = strand[s] /\ writes'[s] = writes[s]
    BY <1>8 DEF DropWriter, Unsent, TypeOK
  <2>4. /\ s \in Working' <=> s \in Working
        /\ s \in Processing' <=> s \in Processing
        /\ s \in Owed' => s \in Owed
    BY <2>3, Members
  <2> QED BY <1>1, <1>2, <2>2, <2>4, Counts DEF StatInv, Bit, Counters, WritesDone
<1>9. ASSUME NEW w \in writers[s], NEW keep \in BOOLEAN, Send(s, w, keep) PROVE StatInv'
  <2>1. w.sends = 0 BY <1>9, TypesAt, ConstantsAssumption DEF Send, SendOnce
  <2>2. w \in Unsent(s) BY <2>1 DEF Unsent
  <2>3. stat' = stat /\ obj'[s] = obj[s] /\ strand'[s] = strand[s] BY <1>9 DEF Send
  <2>4. s \in Owed' => s \in Owed BY <2>2, <2>3, Members
  <2> QED BY <1>1, <2>3, <2>4, QuietStat
<1>10. CASE RunRead(s)
  <2>1. /\ stat' = stat /\ obj'[s] = obj[s] /\ strand'[s] = strand[s]
        /\ writes'[s] = writes[s] /\ Unsent(s)' = Unsent(s)
    BY <1>10 DEF RunRead, Unsent
  <2> QED BY <1>1, <2>1, QuietStat, Members
<1>11. CASE PeerNext(s) \/ Tick(s)
  <2>1. /\ stat' = stat /\ obj'[s] = obj[s] /\ strand'[s] = strand[s]
        /\ writes'[s] = writes[s] /\ Unsent(s)' = Unsent(s)
    BY <1>11 DEF PeerNext, ClientSend, ClientLeave, Tick, objVars, Unsent
  <2> QED BY <1>1, <2>1, QuietStat, Members
<1> QED BY <1>1, <1>4, <1>5, <1>6, <1>7, <1>8, <1>9, <1>10, <1>11,
           HandleReturnStat, OnWriteStat
        DEF StepOf, IONext, AppNext

(* The statistics add up in every state: session_cnt_ and                   *)
(* working_handler_cnt_ are the sizes of the sets they count and never wrap *)
(* around, every request read is handled or in a handler, and no response   *)
(* is counted for a request that was not.                                  *)
THEOREM StatisticsCorrect ==
  ASSUME SendOnce, WideEnough
  PROVE  Spec => []StatisticsAddUp
<1>1. Init => StatInv
  <2> SUFFICES ASSUME Init PROVE StatInv OBVIOUS
  <2>1. Alive = {} /\ Working = {} /\ Processing = {} /\ Owed = {}
    BY DEF Init, Alive, Working, Processing, Owed, Unsent
  <2>2. Cardinality({}) = 0 BY FS_EmptySet
  <2>3. \A c \in Counters : stat[c] = 0 BY DEF Init
  <2> QED BY <2>1, <2>2, <2>3 DEF StatInv, WritesDone, Counters
<1>2. TypeOK /\ Chain /\ Chain' /\ StatInv /\ [Next]_vars => StatInv'
  <2> SUFFICES ASSUME TypeOK, Chain, Chain', StatInv, [Next]_vars PROVE StatInv'
    OBVIOUS
  <2>1. CASE UNCHANGED vars
    BY <2>1 DEF vars, objVars, StatInv, WritesDone, Alive, Working, Processing, Owed, Unsent
  <2>2. CASE Next
    <3>1. PICK s \in Sessions : StepOf(s) BY <2>2 DEF Next, StepOf
    <3> QED BY <3>1, StatNext
  <2> QED BY <2>1, <2>2
<1>3. TypeOK /\ StatInv => StatisticsAddUp
  <2> SUFFICES ASSUME TypeOK, StatInv PROVE StatisticsAddUp OBVIOUS
  <2>1. IsFiniteSet(Owed) BY ConstantsAssumption, FS_Subset DEF Owed
  <2>2. Cardinality(Owed) \in Nat BY <2>1, FS_CardinalityType
  <2>3. stat["handle_request"] \in Nat /\ WritesDone \in Nat
    BY DEF TypeOK, Counters, WritesDone
  <2> QED BY <2>2, <2>3 DEF StatInv, StatisticsAddUp
<1> QED BY <1>1, <1>2, <1>3, TypeCorrect, ChainCorrect, PTL DEF Spec
=============================================================================
