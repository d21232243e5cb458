----------------------------- MODULE HttpLogProofs -----------------------------
(***************************************************************************)
(* Proofs about HttpLog for any number of threads, messages and workers    *)
(* and any size of the queue.                                              *)
(***************************************************************************)
EXTENDS HttpLog, SequenceTheorems, TLAPS

(* What an appended message changes in a queue or a sink. *)
LEMMA AppendRange ==
  ASSUME NEW S, NEW q \in Seq(S), NEW m \in S
  PROVE  /\ Append(q, m) \in Seq(S)
         /\ ToSet(Append(q, m)) = ToSet(q) \cup {m}
         /\ IsInjective(q) /\ m \notin ToSet(q) => IsInjective(Append(q, m))
<1>1. /\ Append(q, m) \in Seq(S) /\ Len(Append(q, m)) = Len(q) + 1 /\ Len(q) \in Nat
      /\ DOMAIN q = 1..Len(q) /\ DOMAIN Append(q, m) = 1..(Len(q) + 1)
      /\ \A i \in 1..Len(q) : Append(q, m)[i] = q[i]
      /\ Append(q, m)[Len(q) + 1] = m
  BY AppendProperties, LenProperties
<1>2. \A i \in 1..(Len(q) + 1) : i \in 1..Len(q) \/ i = Len(q) + 1
  BY <1>1
<1>3. ToSet(Append(q, m)) = ToSet(q) \cup {m}
  BY <1>1, <1>2 DEF ToSet
<1>4. IsInjective(q) /\ m \notin ToSet(q) => IsInjective(Append(q, m))
  BY <1>1, <1>2 DEF ToSet, IsInjective
<1> QED
  BY <1>1, <1>3, <1>4

(* What remains of a queue without doubles when its head is taken. *)
LEMMA TailRange ==
  ASSUME NEW S, NEW q \in Seq(S), q # <<>>, IsInjective(q)
  PROVE  /\ Tail(q) \in Seq(S) /\ Head(q) \in ToSet(q)
         /\ Len(Tail(q)) = Len(q) - 1
         /\ IsInjective(Tail(q))
         /\ ToSet(Tail(q)) = ToSet(q) \ {Head(q)}
<1>1. /\ Tail(q) \in Seq(S) /\ Len(Tail(q)) = Len(q) - 1 /\ Len(q) \in Nat /\ Len(q) > 0
      /\ DOMAIN q = 1..Len(q) /\ DOMAIN Tail(q) = 1..(Len(q) - 1)
      /\ \A i \in 1..(Len(q) - 1) : Tail(q)[i] = q[i + 1]
      /\ Head(q) = q[1]
  BY HeadTailProperties, LenProperties, EmptySeq
<1>2. Head(q) \in ToSet(q)
  BY <1>1 DEF ToSet
<1>3. IsInjective(Tail(q))
  BY <1>1 DEF IsInjective
<1>4. ASSUME NEW x \in ToSet(Tail(q)) PROVE x \in ToSet(q) \ {Head(q)}
  <2>1. PICK i \in 1..(Len(q) - 1) : x = q[i + 1]
    BY <1>1 DEF ToSet
  <2> QED
    BY <1>1, <2>1 DEF ToSet, IsInjective
<1>5. ASSUME NEW x \in ToSet(q), x # Head(q) PROVE x \in ToSet(Tail(q))
  <2>1. PICK i \in 1..Len(q) : x = q[i]
    BY <1>1 DEF ToSet
  <2>2. i # 1 /\ (i - 1) \in 1..(Len(q) - 1) /\ Tail(q)[i - 1] = q[i]
    BY <1>1, <1>5, <2>1
  <2> QED
    BY <1>1, <2>1, <2>2 DEF ToSet
<1> QED
  BY <1>1, <1>2, <1>3, <1>4, <1>5

-----------------------------------------------------------------------------
(* NoMsg is no message. *)
LEMMA NoMsgIsNone == NoMsg \notin Messages
BY DEF NoMsg, Messages

(* The logger that spdlog starts with. *)
LEMMA DefaultFields ==
  /\ DefaultLogger.name # "http server" /\ DefaultLogger.async = FALSE
  /\ DefaultLogger.queue = 0 /\ DefaultLogger.threads = 0
<1>1. DefaultLogger.name = "" /\ DefaultLogger.queue = 0 /\ DefaultLogger.threads = 0
  BY DEF DefaultLogger
<1>2. DefaultLogger.async = FALSE
  BY Zenon DEF DefaultLogger
<1>3. "" # "http server"
  OBVIOUS
<1> QED
  BY <1>1, <1>2, <1>3, Zenon

(* What initLog() does with valid options. *)
LEMMA Replaced ==
  ASSUME NEW o \in Options, InitOk(o)
  PROVE  /\ Quiet /\ ~initFlag /\ initFlag' = TRUE /\ outcome' = "ok" /\ patterned' = TRUE
         /\ logger' \in Loggers /\ logger'.name = "http server"
         /\ ~logger'.async => logger'.queue = 0 /\ logger'.threads = 0
         /\ level' = 2 /\ accepted' = {} /\ out' = [s \in Sinks |-> <<>>]
         /\ once' = once /\ pc' = pc /\ msg' = msg
         /\ queue' = queue /\ held' = held /\ plain' = plain
<1>1. o.async \in BOOLEAN /\ o.queue \in 0..MaxQueue /\ o.threads \in 0..MaxWorkers
  BY DEF Options
<1>2. o.queue \in Nat /\ o.threads \in Nat
  BY <1>1, LogAssumption
<1>3. Sinked(o) \in (SUBSET Sinks) \ {{}}
  BY DEF Sinked, InitOk, Replace, Invalid
<1> DEFINE q == IF o.async THEN o.queue ELSE 0
<1> DEFINE n == IF o.async THEN o.threads ELSE 0
<1>4. q \in Nat /\ n \in Nat /\ (~o.async => q = 0 /\ n = 0)
  BY <1>2
<1>5. logger' = [name |-> "http server", sinks |-> Sinked(o), async |-> o.async,
                 queue |-> q, threads |-> n]
  BY DEF InitOk, Replace
<1> HIDE DEF q, n
<1>6. logger' \in Loggers /\ logger'.name = "http server"
  BY <1>1, <1>3, <1>4, <1>5 DEF Loggers
<1>7. ~logger'.async => logger'.queue = 0 /\ logger'.threads = 0
  BY <1>4, <1>5
<1>8. /\ Quiet /\ ~initFlag /\ initFlag' = TRUE /\ outcome' = "ok" /\ patterned' = TRUE
      /\ level' = 2 /\ accepted' = {} /\ out' = [s \in Sinks |-> <<>>]
      /\ once' = once /\ pc' = pc /\ msg' = msg
      /\ queue' = queue /\ held' = held /\ plain' = plain
  BY Zenon DEF InitOk, Replace, Info
<1> QED
  BY <1>6, <1>7, <1>8

(* initLog() keeps the types, if there is no queue to shorten. *)
LEMMA TypeInitLog ==
  ASSUME TypeOK, ~initFlag => queue = <<>>,
         InitAgain \/ \E o \in Options : InitInvalid(o) \/ InitOk(o)
  PROVE  TypeOK'
<1>1. CASE InitAgain
  BY <1>1 DEF InitAgain, TypeOK, outVars
<1>2. ASSUME NEW o \in Options, InitInvalid(o) PROVE TypeOK'
  <2>1. initFlag' \in BOOLEAN
    BY <1>2, Zenon DEF InitInvalid
  <2> QED
    BY <1>2, <2>1 DEF InitInvalid, TypeOK, outVars
<1>3. ASSUME NEW o \in Options, InitOk(o) PROVE TypeOK'
  <2>1. /\ logger' \in Loggers /\ outcome' = "ok" /\ level' = 2 /\ accepted' = {}
        /\ out' = [s \in Sinks |-> <<>>]
        /\ once' = once /\ pc' = pc /\ msg' = msg
        /\ held' = held /\ plain' = plain
    BY <1>3, Replaced, Zenon
  <2>2. initFlag' \in BOOLEAN /\ patterned' \in BOOLEAN /\ queue' = <<>>
    BY <1>3, Replaced, Zenon
  <2>3. <<>> \in Seq(Messages) /\ Len(<<>>) = 0 /\ logger'.queue \in Nat
    BY <2>1, EmptySeq DEF Loggers
  <2> QED
    BY <2>1, <2>2, <2>3 DEF TypeOK
<1> QED
  BY <1>1, <1>2, <1>3

(* Every sink gets messages only. *)
LEMMA TypeWrite ==
  ASSUME TypeOK, NEW m \in Messages, Write(m), plain = {}, patterned
  PROVE  out' \in [Sinks -> Seq(Messages)] /\ plain' = {}
BY AppendProperties DEF TypeOK, Write

-----------------------------------------------------------------------------
(* What initLog() has done: a logger that is not spdlog's first one has the  *)
(* pattern, and only an asynchronous one has a queue and workers.          *)
Setup ==
  /\ initFlag <=> outcome # "none"
  /\ ~initFlag => logger = DefaultLogger
  /\ logger # DefaultLogger => patterned
  /\ ~logger.async => logger.queue = 0 /\ logger.threads = 0

(* Whoever can write a message comes after a thread that set the pattern. *)
Format ==
  /\ once = "done" => patterned
  /\ \A t \in Threads : pc[t] = "log" => once = "done"
  /\ \A t \in Threads : pc[t] = "queue" => logger.async
  /\ \A w \in Workers : held[w] # NoMsg => logger.async
  /\ Patterned

(* A thread logs its own messages, each with a number of its own. *)
Own ==
  /\ \A t \in Threads : msg[t] # NoMsg => msg[t].by = t
  /\ \A t \in Threads : pc[t] # "idle" => msg[t] \in Messages
  /\ \A m \in accepted : m.n <= msg[m.by].n
  /\ \A t \in Threads : pc[t] \in {"once", "init", "log"} => msg[t] \notin accepted

(* A message that was accepted and is not written is in one place: with its  *)
(* thread, in the queue or with a worker.                                  *)
Where ==
  /\ Own
  /\ IsInjective(queue) /\ ToSet(queue) \subseteq accepted
  /\ \A t \in Threads : pc[t] = "queue" =>
       /\ msg[t] \in accepted \ ToSet(queue)
       /\ \A w \in Workers : held[w] # msg[t]
  /\ \A w \in Workers : held[w] # NoMsg => held[w] \in accepted \ ToSet(queue)
  /\ \A v, w \in Workers : held[v] # NoMsg /\ held[v] = held[w] => v = w

Base == TypeOK /\ Setup /\ Format

(* Workers have the pattern, and before initLog() there is nothing for them. *)
LEMMA BaseFacts ==
  ASSUME Base
  PROVE  /\ logger.async => patterned
         /\ ~logger.async => queue = <<>>
         /\ ~initFlag => ~logger.async
<1>1. logger.async => logger # DefaultLogger
  BY DefaultFields, Zenon
<1>2. ~initFlag => ~logger.async
  BY <1>1, Zenon DEF Base, Setup
<1>3. logger.async => patterned
  BY <1>1, Zenon DEF Base, Setup
<1>4. ~logger.async => queue = <<>>
  <2> SUFFICES ASSUME ~logger.async PROVE queue = <<>>
    OBVIOUS
  <2>1. logger.queue = 0
    BY Zenon DEF Base, Setup
  <2> QED
    BY <2>1, EmptySeq DEF Base, TypeOK
<1> QED
  BY <1>2, <1>3, <1>4

(* At the start. *)
LEMMA BaseInit == Init => Base
<1> SUFFICES ASSUME Init PROVE Base
  OBVIOUS
<1>1. DefaultLogger \in Loggers /\ DefaultLogger.queue = 0 /\ DefaultLogger.threads = 0
  BY DEF DefaultLogger, Loggers, Sinks
<1>2. <<>> \in Seq(Messages) /\ Len(<<>>) = 0
  BY EmptySeq
<1>3. initFlag = FALSE /\ patterned = FALSE /\ initFlag \in BOOLEAN /\ patterned \in BOOLEAN
  BY Zenon DEF Init
<1>4. TypeOK
  BY <1>1, <1>2, <1>3 DEF Init, TypeOK, Info
<1>5. Setup
  BY <1>1, <1>3, Zenon DEF Init, Setup
<1>6. Format
  BY DEF Init, Format, Patterned
<1> QED
  BY <1>4, <1>5, <1>6 DEF Base

(* initLog(). *)
LEMMA BaseInitLog ==
  ASSUME Base, InitAgain \/ \E o \in Options : InitInvalid(o) \/ InitOk(o)
  PROVE  Base'
<1>1. TypeOK'
  BY BaseFacts, TypeInitLog, Zenon DEF Base
<1>2. CASE InitAgain
  <2>1. Setup'
    BY <1>2, Zenon DEF InitAgain, Base, Setup
  <2>2. Format'
    BY <1>2, Zenon DEF InitAgain, Base, Format, Patterned, outVars
  <2> QED
    BY <1>1, <2>1, <2>2 DEF Base
<1>3. ASSUME NEW o \in Options, InitInvalid(o) PROVE Base'
  <2>1. outcome' # "none"
    BY <1>3 DEF InitInvalid
  <2>2. Setup'
    BY <1>3, <2>1, Zenon DEF InitInvalid, Base, Setup
  <2>3. Format'
    BY <1>3, Zenon DEF InitInvalid, Base, Format, Patterned, outVars
  <2> QED
    BY <1>1, <2>2, <2>3 DEF Base
<1>4. ASSUME NEW o \in Options, InitOk(o) PROVE Base'
  <2>1. logger' # DefaultLogger /\ outcome' # "none"
    <3>1. logger'.name = "http server" /\ outcome' = "ok"
      BY <1>4, Replaced, Zenon
    <3>2. "ok" # "none"
      OBVIOUS
    <3> QED
      BY <3>1, <3>2, DefaultFields, Zenon
  <2>2. Setup'
    BY <1>4, <2>1, Replaced, Zenon DEF Setup, Info
  <2>3. Format'
    <3>1. \A w \in Workers : held[w] = NoMsg
      BY <1>4, Replaced, BaseFacts, Zenon DEF Base, Format
    <3>2. \A u \in Threads : pc[u] = "idle"
      BY <1>4, Replaced, Zenon DEF Quiet
    <3>3. pc' = pc /\ held' = held /\ plain' = plain /\ patterned' = TRUE /\ plain = {}
      BY <1>4, Replaced, Zenon DEF Base, Format, Patterned
    <3> QED
      BY <3>1, <3>2, <3>3 DEF Format, Patterned
  <2> QED
    BY <1>1, <2>2, <2>3 DEF Base
<1> QED
  BY <1>2, <1>3, <1>4

(* setLogLevel(). *)
LEMMA BaseLevel ==
  ASSUME Base, NEW l \in SetLevels, SetLogLevel(l) PROVE Base'
<1>1. /\ level' = l /\ l \in 0..6
      /\ UNCHANGED <<initVars, patterned, once, pc, msg, outVars>>
  BY LogAssumption DEF SetLogLevel
<1>2. TypeOK'
  BY <1>1 DEF Base, TypeOK, initVars, outVars
<1>3. Setup' /\ Format'
  BY <1>1, Zenon DEF Base, Setup, Format, Patterned, initVars, outVars
<1> QED
  BY <1>2, <1>3 DEF Base

(* A macro up to the call of spdlog::log(). *)
LEMMA BaseMacro ==
  ASSUME Base, NEW t \in Threads,
         (\E l \in MsgLevels : LogCheck(t, l)) \/ OnceEnter(t) \/ OncePattern(t) \/ OncePass(t)
  PROVE  Base'
<1> USE DEF initVars, outVars
<1>0. /\ pc \in [Threads -> {"idle", "once", "init", "log", "queue"}]
      /\ msg \in [Threads -> Messages \cup {NoMsg}]
      /\ once \in {"no", "busy", "done"} /\ patterned \in BOOLEAN
  BY DEF Base, TypeOK
<1>1. ASSUME NEW l \in MsgLevels, LogCheck(t, l) PROVE Base'
  <2>1. msg[t].n \in 0..MaxLogs
    BY <1>0, LogAssumption DEF Messages, NoMsg
  <2>2. [by |-> t, n |-> msg[t].n + 1, lvl |-> l] \in Messages
    BY <1>1, <2>1, LogAssumption DEF LogCheck, Messages
  <2>3. TypeOK'
    BY <1>1, <2>2 DEF LogCheck, Base, TypeOK
  <2>4. Setup'
    BY <1>1, Zenon DEF LogCheck, Base, Setup
  <2>5. Format'
    BY <1>0, <1>1 DEF LogCheck, Base, Format, Patterned
  <2> QED
    BY <2>3, <2>4, <2>5 DEF Base
<1>2. CASE OnceEnter(t)
  <2>1. TypeOK'
    BY <1>2 DEF OnceEnter, Base, TypeOK
  <2>2. Setup'
    BY <1>2, Zenon DEF OnceEnter, Base, Setup
  <2>3. Format'
    BY <1>0, <1>2 DEF OnceEnter, Base, Format, Patterned
  <2> QED
    BY <2>1, <2>2, <2>3 DEF Base
<1>3. CASE OncePattern(t)
  <2>1. patterned' = TRUE /\ patterned' \in BOOLEAN
    BY <1>3, Zenon DEF OncePattern
  <2>2. TypeOK'
    BY <1>3, <2>1 DEF OncePattern, Base, TypeOK
  <2>3. Setup'
    BY <1>3, Zenon DEF OncePattern, Base, Setup
  <2>4. Format'
    BY <1>0, <1>3, <2>1 DEF OncePattern, Base, Format, Patterned
  <2> QED
    BY <2>2, <2>3, <2>4 DEF Base
<1>4. CASE OncePass(t)
  <2>1. TypeOK'
    BY <1>4 DEF OncePass, Base, TypeOK
  <2>2. Setup'
    BY <1>4, Zenon DEF OncePass, Base, Setup
  <2>3. Format'
    BY <1>0, <1>4 DEF OncePass, Base, Format, Patterned
  <2> QED
    BY <2>1, <2>2, <2>3 DEF Base
<1> QED
  BY <1>1, <1>2, <1>3, <1>4

(* spdlog::log(): the message is written or waits for room in the queue. *)
LEMMA BaseSpdlog ==
  ASSUME Base, Where, NEW t \in Threads, Log(t) \/ Enqueue(t)
  PROVE  Base'
<1> USE DEF initVars, outVars
<1>0. /\ pc \in [Threads -> {"idle", "once", "init", "log", "queue"}]
      /\ msg \in [Threads -> Messages \cup {NoMsg}] /\ queue \in Seq(Messages)
      /\ out \in [Sinks -> Seq(Messages)]
  BY DEF Base, TypeOK
<1>1. pc[t] # "idle" => msg[t] \in Messages
  BY DEF Where, Own
<1>2. CASE Log(t)
  <2>0. /\ pc[t] = "log" /\ msg[t] \in Messages /\ patterned
        /\ UNCHANGED <<initVars, level, patterned, once, msg, queue, held>>
    BY <1>1, <1>2 DEF Log, Base, Format
  <2>1. /\ \/ pc' = [pc EXCEPT ![t] = "idle"]
           \/ pc' = [pc EXCEPT ![t] = "queue"] /\ logger.async
        /\ accepted' \subseteq accepted \cup {msg[t]}
        /\ UNCHANGED <<out, plain>> \/ Write(msg[t])
    BY <1>2 DEF Log
  <2>2. out' \in [Sinks -> Seq(Messages)] /\ plain' = {}
    <3>1. plain = {}
      BY DEF Base, Format, Patterned
    <3> QED
      BY <1>0, <2>0, <2>1, <3>1, TypeWrite DEF Base
  <2>3. TypeOK'
    BY <2>0, <2>1, <2>2 DEF Base, TypeOK
  <2>4. Setup'
    BY <2>0, Zenon DEF Base, Setup
  <2>5. Format'
    BY <1>0, <2>0, <2>1, <2>2 DEF Base, Format, Patterned
  <2> QED
    BY <2>3, <2>4, <2>5 DEF Base
<1>3. CASE Enqueue(t)
  <2>1. /\ Append(queue, msg[t]) \in Seq(Messages)
        /\ Len(Append(queue, msg[t])) = Len(queue) + 1 /\ Len(queue) \in Nat
    BY <1>0, <1>1, <1>3, AppendProperties, LenProperties DEF Enqueue
  <2>2. logger.queue \in Nat
    BY DEF Base, TypeOK, Loggers
  <2>3. TypeOK'
    BY <1>3, <2>1, <2>2 DEF Enqueue, Base, TypeOK
  <2>4. Setup'
    BY <1>3, Zenon DEF Enqueue, Base, Setup
  <2>5. Format'
    BY <1>0, <1>3 DEF Enqueue, Base, Format, Patterned
  <2> QED
    BY <2>3, <2>4, <2>5 DEF Base
<1> QED
  BY <1>2, <1>3

(* A worker thread. *)
LEMMA BaseWorker ==
  ASSUME Base, NEW w \in Workers, Worker(w) PROVE Base'
<1> USE DEF initVars, outVars
<1>0. /\ held \in [Workers -> Messages \cup {NoMsg}] /\ queue \in Seq(Messages)
      /\ out \in [Sinks -> Seq(Messages)]
  BY DEF Base, TypeOK
<1>1. CASE WorkerTake(w)
  <2>1. /\ Head(queue) \in Messages /\ Tail(queue) \in Seq(Messages)
        /\ Len(Tail(queue)) = Len(queue) - 1 /\ Len(queue) \in Nat
    BY <1>0, <1>1, HeadTailProperties, LenProperties DEF WorkerTake
  <2>2. logger.async /\ logger.queue \in Nat
    <3>1. queue # <<>>
      BY <1>1 DEF WorkerTake
    <3>2. logger.async
      BY <3>1, BaseFacts, Zenon
    <3> QED
      BY <3>2 DEF Base, TypeOK, Loggers
  <2>3. TypeOK'
    BY <1>1, <2>1, <2>2 DEF WorkerTake, Base, TypeOK
  <2>4. Setup'
    BY <1>1, Zenon DEF WorkerTake, Base, Setup
  <2>5. Format'
    BY <1>0, <1>1, <2>2 DEF WorkerTake, Base, Format, Patterned
  <2> QED
    BY <2>3, <2>4, <2>5 DEF Base
<1>2. CASE WorkerWrite(w)
  <2>1. held[w] \in Messages /\ patterned
    <3>1. logger.async
      BY <1>2 DEF WorkerWrite, Base, Format
    <3> QED
      BY <1>0, <1>2, <3>1, BaseFacts DEF WorkerWrite
  <2>2. out' \in [Sinks -> Seq(Messages)] /\ plain' = {}
    BY <1>2, <2>1, TypeWrite DEF WorkerWrite, Base, Format, Patterned
  <2>3. TypeOK'
    BY <1>2, <2>2 DEF WorkerWrite, Base, TypeOK
  <2>4. Setup'
    BY <1>2, Zenon DEF WorkerWrite, Base, Setup
  <2>5. Format'
    BY <1>0, <1>2, <2>2 DEF WorkerWrite, Base, Format, Patterned
  <2> QED
    BY <2>3, <2>4, <2>5 DEF Base
<1> QED
  BY <1>1, <1>2 DEF Worker

-----------------------------------------------------------------------------
(* Message m was accepted and waits to be written. *)
Waits(m) ==
  \/ \E t \in Threads : pc[t] = "queue" /\ msg[t] = m
  \/ m \in ToSet(queue)
  \/ \E w \in Workers : held[w] = m

Written(m) == m \in accepted /\ ~Waits(m)

(* Conserved, message by message. *)
Sunk ==
  \A s \in Sinks :
    /\ IsInjective(out[s])
    /\ \A m : m \in ToSet(out[s]) <=> s \in logger.sinks /\ Written(m)

LEMMA SunkIsConserved == (Sunk <=> Conserved) /\ (Sunk' <=> Conserved')
<1>1. /\ \A m : m \in Pending <=> Waits(m)
      /\ \A m : m \in Pending' <=> Waits(m)'
  BY DEF Pending, Waits
<1> QED
  BY <1>1 DEF Sunk, Conserved, Written

(* A step that writes nothing and after which the same messages are written. *)
LEMMA SunkSame ==
  ASSUME Sunk, out' = out, logger' = logger, \A m : Written(m)' <=> Written(m)
  PROVE  Sunk'
BY DEF Sunk

(* A step in which the sinks write one message that was not written yet. *)
LEMMA SunkWrite ==
  ASSUME Base, Sunk, NEW m \in Messages, Write(m), logger' = logger, ~Written(m),
         \A x : Written(x)' <=> Written(x) \/ x = m
  PROVE  Sunk'
<1> SUFFICES ASSUME NEW s \in Sinks
             PROVE  /\ IsInjective(out'[s])
                    /\ \A x : x \in ToSet(out'[s]) <=> s \in logger.sinks /\ Written(x)'
  BY DEF Sunk
<1>1. /\ out[s] \in Seq(Messages) /\ IsInjective(out[s])
      /\ \A x : x \in ToSet(out[s]) <=> s \in logger.sinks /\ Written(x)
  BY DEF Base, TypeOK, Sunk
<1>2. CASE s \in logger.sinks
  <2>1. out'[s] = Append(out[s], m)
    BY <1>2 DEF Write
  <2>2. m \notin ToSet(out[s])
    BY <1>1
  <2>3. /\ ToSet(out'[s]) = ToSet(out[s]) \cup {m}
        /\ IsInjective(out'[s])
    BY <1>1, <2>1, <2>2, AppendRange
  <2> QED
    BY <1>1, <1>2, <2>3
<1>3. CASE s \notin logger.sinks
  <2>1. out'[s] = out[s]
    BY <1>3 DEF Write
  <2> QED
    BY <1>1, <1>3, <2>1
<1> QED
  BY <1>2, <1>3

(* A step of a thread that leaves the messages where they are. *)
LEMMA WherePassive ==
  ASSUME Base, Where, Sunk,
         UNCHANGED <<logger, msg, accepted, queue, held, out>>,
         \A t \in Threads :
           \/ pc'[t] = pc[t]
           \/ pc[t] \in {"once", "init"} /\ pc'[t] \in {"init", "log"}
           \/ pc[t] = "log" /\ pc'[t] = "idle"
  PROVE  Where' /\ Sunk'
<1>1. Where'
  BY DEF Where, Own
<1>2. \A m : Written(m)' <=> Written(m)
  BY DEF Written, Waits
<1> QED
  BY <1>1, <1>2, SunkSame

(* initLog() finds no message on its way, as there was no queue before. *)
LEMMA WhereInitLog ==
  ASSUME Base, Where, Sunk, InitAgain \/ \E o \in Options : InitInvalid(o) \/ InitOk(o)
  PROVE  Where' /\ Sunk'
<1>1. CASE InitAgain
  BY <1>1, WherePassive DEF InitAgain, outVars
<1>2. ASSUME NEW o \in Options, InitInvalid(o) PROVE Where' /\ Sunk'
  BY <1>2, WherePassive DEF InitInvalid, outVars
<1>3. ASSUME NEW o \in Options, InitOk(o) PROVE Where' /\ Sunk'
  <2>1. /\ accepted' = {} /\ out' = [s \in Sinks |-> <<>>] /\ pc' = pc /\ msg' = msg
        /\ queue' = <<>> /\ held' = held /\ \A t \in Threads : pc[t] = "idle"
    BY <1>3, Replaced, BaseFacts, Zenon DEF Quiet
  <2>2. \A w \in Workers : held[w] = NoMsg
    BY <1>3, Replaced, BaseFacts, Zenon DEF Base, Format
  <2>3. ToSet(<<>>) = {} /\ IsInjective(<<>>)
    BY DEF ToSet, IsInjective
  <2>4. Where'
    BY <2>1, <2>2, <2>3 DEF Where, Own
  <2>5. Sunk'
    BY <2>1, <2>3 DEF Sunk, Written
  <2> QED
    BY <2>4, <2>5
<1> QED
  BY <1>1, <1>2, <1>3

(* A macro: the message it makes is new. *)
LEMMA WhereMacro ==
  ASSUME Base, Where, Sunk, NEW t \in Threads,
         (\E l \in MsgLevels : LogCheck(t, l)) \/ OnceEnter(t) \/ OncePattern(t) \/ OncePass(t)
  PROVE  Where' /\ Sunk'
<1>0. /\ pc \in [Threads -> {"idle", "once", "init", "log", "queue"}]
      /\ msg \in [Threads -> Messages \cup {NoMsg}] /\ accepted \subseteq Messages
  BY DEF Base, TypeOK
<1>1. ASSUME NEW l \in MsgLevels, LogCheck(t, l) PROVE Where' /\ Sunk'
  <2> DEFINE m == [by |-> t, n |-> msg[t].n + 1, lvl |-> l]
  <2>1. /\ pc[t] = "idle" /\ pc'[t] \in {"once", "idle"} /\ msg' = [msg EXCEPT ![t] = m]
        /\ \A u \in Threads \ {t} : pc'[u] = pc[u]
        /\ accepted' = accepted /\ queue' = queue /\ held' = held /\ out' = out
        /\ logger' = logger
    BY <1>0, <1>1 DEF LogCheck, outVars, initVars
  <2>2. msg[t].n \in 0..MaxLogs
    BY <1>0, LogAssumption DEF Messages, NoMsg
  <2>3. m \in Messages /\ m.by = t /\ m.n = msg[t].n + 1
    BY <1>1, <2>2, LogAssumption DEF LogCheck, Messages
  <2> HIDE DEF m
  <2>4. \A x \in accepted : x.n \in Nat /\ x.by \in Threads
    BY <1>0 DEF Messages
  <2>5. m \notin accepted
    BY <2>2, <2>3, <2>4 DEF Where, Own
  <2>6. Own'
    <3>1. \A u \in Threads : msg'[u] # NoMsg => msg'[u].by = u
      BY <1>0, <2>1, <2>3 DEF Where, Own
    <3>2. \A u \in Threads : pc'[u] # "idle" => msg'[u] \in Messages
      BY <1>0, <2>1, <2>3 DEF Where, Own
    <3>3. \A x \in accepted' : x.n <= msg'[x.by].n
      BY <1>0, <2>1, <2>2, <2>3, <2>4 DEF Where, Own
    <3>4. \A u \in Threads : pc'[u] \in {"once", "init", "log"} => msg'[u] \notin accepted'
      BY <1>0, <2>1, <2>5 DEF Where, Own
    <3> QED
      BY <3>1, <3>2, <3>3, <3>4 DEF Own
  <2>7. \A u \in Threads : pc'[u] = "queue" <=> pc[u] = "queue"
    BY <2>1
  <2>8. \A u \in Threads : pc[u] = "queue" => msg'[u] = msg[u]
    BY <1>0, <2>1
  <2>9. Where'
    BY <2>1, <2>6, <2>7, <2>8 DEF Where
  <2>10. \A x : Written(x)' <=> Written(x)
    BY <2>1, <2>7, <2>8 DEF Written, Waits
  <2> QED
    BY <2>1, <2>9, <2>10, SunkSame
<1>2. CASE OnceEnter(t)
  BY <1>0, <1>2, WherePassive DEF OnceEnter, initVars, outVars
<1>3. CASE OncePattern(t)
  BY <1>0, <1>3, WherePassive DEF OncePattern, initVars, outVars
<1>4. CASE OncePass(t)
  BY <1>0, <1>4, WherePassive DEF OncePass, initVars, outVars
<1> QED
  BY <1>1, <1>2, <1>3, <1>4

(* spdlog::log(): an accepted message is written at once, or waits with its  *)
(* thread and then in the queue.                                           *)
LEMMA WhereSpdlog ==
  ASSUME Base, Where, Sunk, NEW t \in Threads, Log(t) \/ Enqueue(t)
  PROVE  Where' /\ Sunk'
<1>0. /\ pc \in [Threads -> {"idle", "once", "init", "log", "queue"}]
      /\ msg \in [Threads -> Messages \cup {NoMsg}] /\ accepted \subseteq Messages
      /\ queue \in Seq(Messages) /\ NoMsg \notin Messages
  BY NoMsgIsNone DEF Base, TypeOK
<1> DEFINE m == msg[t]
<1>1. m \in Messages /\ \A u \in Threads : m = msg[u] => u = t
  <2>1. pc[t] # "idle"
    BY DEF Log, Enqueue
  <2>2. m \in Messages
    BY <2>1 DEF Where, Own
  <2> QED
    BY <1>0, <2>2 DEF Where, Own
<1>2. CASE Log(t) /\ level > msg[t].lvl
  BY <1>0, <1>2, WherePassive DEF Log, initVars, outVars
<1>3. CASE Log(t) /\ ~(level > msg[t].lvl)
  <2>1. /\ pc[t] = "log" /\ accepted' = accepted \cup {m} /\ UNCHANGED <<logger, msg, queue, held>>
        /\ \/ logger.async /\ pc' = [pc EXCEPT ![t] = "queue"] /\ out' = out
           \/ ~logger.async /\ pc' = [pc EXCEPT ![t] = "idle"] /\ Write(m)
    BY <1>3 DEF Log, initVars
  <2> HIDE DEF m
  <2>2. m \notin accepted /\ ~Written(m)
    BY <2>1 DEF Where, Own, Written, m
  <2>3. m \notin ToSet(queue) /\ \A w \in Workers : held[w] # m
    BY <1>0, <1>1, <2>2 DEF Where
  <2>4. \A u \in Threads \ {t} : pc'[u] = pc[u]
    BY <1>0, <2>1
  <2>5. pc'[t] \in {"queue", "idle"} /\ m.n <= msg[m.by].n
    <3>1. m.by = t /\ m.n \in Nat
      BY <1>0, <1>1 DEF Where, Own, m, Messages
    <3> QED
      BY <1>0, <2>1, <3>1 DEF m
  <2>6. Own'
    BY <1>1, <2>1, <2>4, <2>5 DEF Where, Own
  <2>7. Where'
    BY <2>1, <2>3, <2>4, <2>5, <2>6 DEF Where, m
  <2>8. CASE logger.async
    <3>1. pc'[t] = "queue" /\ out' = out
      BY <1>0, <2>1, <2>8
    <3>2. \A x : Written(x)' <=> Written(x)
      BY <1>1, <2>1, <2>2, <2>4, <3>1 DEF Written, Waits, m
    <3> QED
      BY <2>1, <2>7, <3>1, <3>2, SunkSame
  <2>9. CASE ~logger.async
    <3>1. pc'[t] = "idle" /\ Write(m)
      BY <1>0, <2>1, <2>9
    <3>2. \A u \in Threads : pc[u] # "queue"
      BY <2>9 DEF Base, Format
    <3>3. \A x : Written(x)' <=> Written(x) \/ x = m
      BY <2>1, <2>3, <2>4, <3>1, <3>2 DEF Written, Waits
    <3> QED
      BY <1>1, <2>1, <2>2, <2>7, <3>1, <3>3, SunkWrite
  <2> QED
    BY <2>8, <2>9
<1>4. CASE Enqueue(t)
  <2>1. /\ pc[t] = "queue" /\ pc' = [pc EXCEPT ![t] = "idle"] /\ queue' = Append(queue, m)
        /\ UNCHANGED <<logger, msg, accepted, held, out>>
    BY <1>4 DEF Enqueue, initVars
  <2>2. /\ m \in accepted /\ m \notin ToSet(queue) /\ \A w \in Workers : held[w] # m
    BY <2>1 DEF Where
  <2> HIDE DEF m
  <2>3. ToSet(queue') = ToSet(queue) \cup {m} /\ IsInjective(queue')
    BY <1>0, <1>1, <2>1, <2>2, AppendRange DEF Where
  <2>4. pc'[t] = "idle" /\ \A u \in Threads \ {t} : pc'[u] = pc[u]
    BY <1>0, <2>1
  <2>5. Own'
    BY <2>1, <2>4 DEF Where, Own
  <2>6. Where'
    BY <1>0, <1>1, <2>1, <2>2, <2>3, <2>4, <2>5 DEF Where
  <2>7. \A x : Waits(x)' <=> Waits(x)
    BY <1>1, <2>1, <2>3, <2>4 DEF Waits, m
  <2>8. \A x : Written(x)' <=> Written(x)
    BY <2>1, <2>7 DEF Written
  <2> QED
    BY <2>1, <2>6, <2>8, SunkSame
<1> QED
  BY <1>2, <1>3, <1>4

(* A worker takes the oldest message, and writes it. *)
LEMMA WhereWorker ==
  ASSUME Base, Where, Sunk, NEW w \in Workers, Worker(w)
  PROVE  Where' /\ Sunk'
<1>0. /\ held \in [Workers -> Messages \cup {NoMsg}] /\ accepted \subseteq Messages
      /\ queue \in Seq(Messages) /\ NoMsg \notin Messages
  BY NoMsgIsNone DEF Base, TypeOK
<1>1. CASE WorkerTake(w)
  <2> DEFINE m == Head(queue)
  <2>1. /\ held[w] = NoMsg /\ queue # <<>> /\ queue' = Tail(queue)
        /\ held' = [held EXCEPT ![w] = m]
        /\ UNCHANGED <<logger, pc, msg, accepted, out>>
    BY <1>1 DEF WorkerTake, initVars
  <2>2. /\ m \in ToSet(queue) /\ IsInjective(queue')
        /\ ToSet(queue') = ToSet(queue) \ {m}
    BY <1>0, <2>1, TailRange DEF Where
  <2> HIDE DEF m
  <2>3. m \in accepted /\ m # NoMsg /\ \A v \in Workers : held[v] # m
    BY <1>0, <2>2 DEF Where
  <2>4. held'[w] = m /\ \A v \in Workers \ {w} : held'[v] = held[v]
    BY <1>0, <2>1
  <2>5. Own'
    BY <2>1 DEF Where, Own
  <2>6. Where'
    <3>1. \A u \in Threads : pc'[u] = "queue" =>
            /\ msg'[u] \in accepted' \ ToSet(queue')
            /\ \A v \in Workers : held'[v] # msg'[u]
      BY <2>1, <2>2, <2>4 DEF Where
    <3>2. \A v \in Workers : held'[v] # NoMsg => held'[v] \in accepted' \ ToSet(queue')
      BY <2>1, <2>2, <2>3, <2>4 DEF Where
    <3>3. \A v, x \in Workers : held'[v] # NoMsg /\ held'[v] = held'[x] => v = x
      BY <2>1, <2>3, <2>4 DEF Where
    <3>4. ToSet(queue') \subseteq accepted'
      BY <2>1, <2>2 DEF Where
    <3> QED
      BY <2>2, <2>5, <3>1, <3>2, <3>3, <3>4 DEF Where
  <2>7. \A x : Written(x)' <=> Written(x)
    BY <1>0, <2>1, <2>2, <2>4 DEF Written, Waits
  <2> QED
    BY <2>1, <2>6, <2>7, SunkSame
<1>2. CASE WorkerWrite(w)
  <2> DEFINE m == held[w]
  <2>1. /\ m # NoMsg /\ Write(m) /\ held' = [held EXCEPT ![w] = NoMsg]
        /\ UNCHANGED <<logger, pc, msg, accepted, queue>>
    BY <1>2 DEF WorkerWrite, initVars
  <2>2. /\ m \in accepted /\ m \in Messages /\ m \notin ToSet(queue)
        /\ \A v \in Workers \ {w} : held[v] # m
        /\ \A u \in Threads : pc[u] = "queue" => msg[u] # m
    BY <1>0, <2>1 DEF Where
  <2>3. ~Written(m)
    BY DEF Written, Waits
  <2> HIDE DEF m
  <2>4. held'[w] = NoMsg /\ \A v \in Workers \ {w} : held'[v] = held[v]
    BY <1>0, <2>1
  <2>5. Own'
    BY <2>1 DEF Where, Own
  <2>6. Where'
    BY <1>0, <2>1, <2>4, <2>5 DEF Where, Own
  <2>7. \A x : Written(x)' <=> Written(x) \/ x = m
    BY <1>0, <2>1, <2>2, <2>4 DEF Written, Waits, m
  <2> QED
    BY <2>1, <2>2, <2>3, <2>6, <2>7, SunkWrite
<1> QED
  BY <1>1, <1>2 DEF Worker

-----------------------------------------------------------------------------
Inv == Base /\ Where /\ Sunk

(* Every step keeps the invariant. *)
LEMMA InvStep == Inv /\ [Next]_vars => Inv'
<1> SUFFICES ASSUME Base, Where, Sunk, [Next]_vars PROVE Inv'
  BY DEF Inv
<1>1. CASE InitAgain \/ \E o \in Options : InitInvalid(o) \/ InitOk(o)
  BY <1>1, BaseInitLog, WhereInitLog DEF Inv
<1>2. ASSUME NEW l \in SetLevels, SetLogLevel(l) PROVE Inv'
  <2>1. Where' /\ Sunk'
    BY <1>2, WherePassive DEF SetLogLevel, initVars, outVars
  <2> QED
    BY <1>2, <2>1, BaseLevel DEF Inv
<1>3. ASSUME NEW t \in Threads, NEW l \in MsgLevels, LogCheck(t, l) PROVE Inv'
  BY <1>3, BaseMacro, WhereMacro DEF Inv
<1>4. ASSUME NEW t \in Threads, Call(t) PROVE Inv'
  BY <1>4, BaseMacro, WhereMacro, BaseSpdlog, WhereSpdlog DEF Inv, Call
<1>5. ASSUME NEW w \in Workers, Worker(w) PROVE Inv'
  BY <1>5, BaseWorker, WhereWorker DEF Inv
<1>6. CASE UNCHANGED vars
  <2>1. TypeOK'
    BY <1>6 DEF Base, TypeOK, vars, initVars, outVars
  <2>2. Setup' /\ Format'
    BY <1>6, Zenon DEF Base, Setup, Format, Patterned, vars, initVars, outVars
  <2>3. Where' /\ Sunk'
    BY <1>6, WherePassive DEF vars, initVars, outVars
  <2> QED
    BY <2>1, <2>2, <2>3 DEF Inv, Base
<1> QED
  BY <1>1, <1>2, <1>3, <1>4, <1>5, <1>6 DEF Next

(* The inductive invariant. *)
LEMMA Invariant == Spec => []Inv
<1>1. Init => Inv
  <2> SUFFICES ASSUME Init PROVE Inv
    OBVIOUS
  <2>1. ToSet(<<>>) = {} /\ IsInjective(<<>>)
    BY DEF ToSet, IsInjective
  <2>2. Where
    BY <2>1 DEF Init, Where, Own
  <2>3. Sunk
    BY <2>1 DEF Init, Sunk, Written
  <2> QED
    BY <2>2, <2>3, BaseInit DEF Inv
<1> QED
  BY <1>1, InvStep, PTL DEF Spec

(* Type correctness: the logger always has a sink, and no thread makes the   *)
(* queue longer than its size.                                             *)
THEOREM TypeCorrect == Spec => []TypeOK
<1>1. Inv => TypeOK
  BY DEF Inv, Base
<1> QED
  BY <1>1, Invariant, PTL

(* The static in httpLog() sets default_log_pattern before any message is    *)
(* written, for any number of threads that race for it; one that waits     *)
(* never goes on before the thread that entered it has set the pattern.    *)
THEOREM PatternedCorrect == Spec => []Patterned
<1>1. Inv => Patterned
  BY DEF Inv, Base, Format
<1> QED
  BY <1>1, Invariant, PTL

(* No message is lost or doubled, for any number of threads and workers and  *)
(* any size of the queue.                                                  *)
THEOREM ConservedCorrect == Spec => []Conserved
<1>1. Inv => Conserved
  BY SunkIsConserved DEF Inv
<1> QED
  BY <1>1, Invariant, PTL

(* Only the first initLog() can replace the logger, and only by returning    *)
(* normally: a call with invalid options, or a second call, leaves it.     *)
THEOREM ReplacedOnceCorrect == Spec => ReplacedOnce
<1> DEFINE Once == logger' # logger =>
                     logger = DefaultLogger /\ outcome = "none" /\ outcome' = "ok"
<1>1. Inv /\ [Next]_vars => [Once]_vars
  <2> SUFFICES ASSUME Inv, [Next]_vars, logger' # logger
               PROVE  logger = DefaultLogger /\ outcome = "none" /\ outcome' = "ok"
    OBVIOUS
  <2>1. PICK o \in Options : InitOk(o)
    BY DEF Next, InitAgain, InitInvalid, SetLogLevel, LogCheck, Call, OnceEnter, OncePattern,
       OncePass, Log, Enqueue, Worker, WorkerTake, WorkerWrite, vars, initVars
  <2>2. ~initFlag /\ outcome' = "ok"
    BY <2>1, Replaced, Zenon
  <2> QED
    BY <2>2, Zenon DEF Inv, Base, Setup
<1> QED
  BY <1>1, Invariant, PTL DEF Spec, ReplacedOnce

-----------------------------------------------------------------------------
(* WAITING *)

(* The static is initialised by a thread that is at it, and an asynchronous  *)
(* logger has room for a message and a worker.                             *)
Staffed ==
  /\ once = "busy" => \E t \in Threads : pc[t] = "init"
  /\ logger.async => /\ logger.queue >= 1
                     /\ logger.threads >= 1
                     /\ 1 \in Workers

(* Whoever waits in a logging macro waits for somebody who can go on: for    *)
(* the static of httpLog() while a thread initialises it, for room in the  *)
(* queue while a worker has a message to write or to take.                 *)
NobodyStuck ==
  \A t \in Threads :
    /\ pc[t] = "once" => once # "busy" \/ \E u \in Threads : pc[u] = "init"
    /\ pc[t] = "queue" =>
         \/ Len(queue) < logger.queue
         \/ \E w \in Workers :
              \/ held[w] # NoMsg
              \/ w <= logger.threads /\ queue # <<>>

(* Only an initLog() with a queue and threads makes an asynchronous logger. *)
LEMMA StaffedReplace ==
  ASSUME NEW o \in Options, Replace(o), logger'.async
  PROVE  logger'.queue >= 1 /\ logger'.threads >= 1 /\ 1 \in Workers
<1>1. o.async /\ ~(o.queue = 0 \/ o.threads = 0)
  BY Zenon DEF Replace, Invalid
<1>2. o.queue \in 0..MaxQueue /\ o.threads \in 0..MaxWorkers
  BY DEF Options
<1>3. logger'.queue = o.queue /\ logger'.threads = o.threads
  BY <1>1, Zenon DEF Replace
<1> QED
  BY <1>1, <1>2, <1>3, LogAssumption DEF Workers

(* Every step keeps that. *)
LEMMA StaffedStep ==
  ASSUME Inv, Staffed, [Next]_vars
  PROVE  Staffed'
<1> USE DEF initVars, outVars
<1>1. CASE \E o \in Options : InitOk(o)
  <2> PICK o \in Options : InitOk(o) BY <1>1
  <2>1. Replace(o) BY DEF InitOk
  <2>2. once' = once /\ pc' = pc BY <2>1 DEF Replace
  <2> QED
    BY <2>1, <2>2, StaffedReplace, Zenon DEF Staffed
<1>2. CASE InitAgain \/ (\E o \in Options : InitInvalid(o)) \/ (\E l \in SetLevels : SetLogLevel(l))
  <2>1. UNCHANGED <<once, pc, logger>>
    BY <1>2 DEF InitAgain, InitInvalid, SetLogLevel
  <2> QED BY <2>1, Zenon DEF Staffed
<1>3. ASSUME NEW t \in Threads, NEW l \in MsgLevels, LogCheck(t, l) PROVE Staffed'
  <2>1. UNCHANGED <<once, logger>> /\ \A u \in Threads : pc[u] = "init" => pc'[u] = "init"
    BY <1>3 DEF LogCheck, Inv, Base, TypeOK
  <2> QED BY <2>1, Zenon DEF Staffed
<1>4. ASSUME NEW t \in Threads, Call(t) PROVE Staffed'
  <2>1. UNCHANGED logger
    BY <1>4 DEF Call, OnceEnter, OncePattern, OncePass, Log, Enqueue
  <2>2. CASE OnceEnter(t)
    <3>1. pc'[t] = "init" BY <2>2 DEF OnceEnter, Inv, Base, TypeOK
    <3> QED BY <2>1, <3>1, Zenon DEF Staffed
  <2>3. CASE OncePattern(t)
    <3>1. once' # "busy" BY <2>3 DEF OncePattern
    <3> QED BY <2>1, <3>1, Zenon DEF Staffed
  <2>4. CASE OncePass(t) \/ Log(t) \/ Enqueue(t)
    <3>1. UNCHANGED once /\ \A u \in Threads : pc[u] = "init" => pc'[u] = "init"
      BY <2>4 DEF OncePass, Log, Enqueue, Inv, Base, TypeOK
    <3> QED BY <2>1, <3>1, Zenon DEF Staffed
  <2> QED BY <1>4, <2>2, <2>3, <2>4 DEF Call
<1>5. CASE (\E w \in Workers : Worker(w)) \/ UNCHANGED vars
  <2>1. UNCHANGED <<once, pc, logger>>
    BY <1>5 DEF Worker, WorkerTake, WorkerWrite, vars
  <2> QED BY <2>1, Zenon DEF Staffed
<1> QED
  BY <1>1, <1>2, <1>3, <1>4, <1>5 DEF Next

(* No thread that logs is ever left waiting for a static nobody initialises  *)
(* or for a queue nobody empties, for any number of threads and workers.   *)
THEOREM NobodyStuckCorrect == Spec => []NobodyStuck
<1>1. Init => Staffed
  <2> SUFFICES ASSUME Init PROVE Staffed
    OBVIOUS
  <2>1. once # "busy" BY DEF Init
  <2>2. ~logger.async BY DefaultFields, Zenon DEF Init
  <2> QED BY <2>1, <2>2, Zenon DEF Staffed
<1>2. ASSUME Inv, Staffed PROVE NobodyStuck
  <2> SUFFICES ASSUME NEW t \in Threads
               PROVE  /\ pc[t] = "once" => once # "busy" \/ \E u \in Threads : pc[u] = "init"
                      /\ pc[t] = "queue" =>
                           \/ Len(queue) < logger.queue
                           \/ \E w \in Workers : w <= logger.threads /\ queue # <<>>
    BY Zenon DEF NobodyStuck
  <2>1. pc[t] = "once" => once # "busy" \/ \E u \in Threads : pc[u] = "init"
    BY <1>2, Zenon DEF Staffed
  <2>2. ASSUME pc[t] = "queue", ~(Len(queue) < logger.queue)
        PROVE  \E w \in Workers : w <= logger.threads /\ queue # <<>>
    <3>1. logger.async BY <1>2, <2>2, Zenon DEF Inv, Base, Format
    <3>2. logger.queue >= 1 /\ 1 <= logger.threads /\ 1 \in Workers
      <4>1. logger.queue >= 1 /\ logger.threads >= 1 /\ 1 \in Workers
        BY <1>2, <3>1, Zenon DEF Staffed
      <4> QED BY <4>1
    <3>3. logger.queue \in Nat BY <1>2 DEF Inv, Base, TypeOK, Loggers
    <3>4. queue # <<>>
      <4> SUFFICES ASSUME queue = <<>> PROVE FALSE OBVIOUS
      <4>1. Len(queue) = 0 OBVIOUS
      <4> QED BY <2>2, <3>2, <3>3, <4>1
    <3> QED BY <3>2, <3>4
  <2> QED BY <2>1, <2>2
<1> QED
  BY <1>1, <1>2, StaffedStep, Invariant, PTL DEF Spec
================================================================================
