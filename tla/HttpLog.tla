------------------------------- MODULE HttpLog --------------------------------
(***************************************************************************)
(* The logger (src/http_log.cpp and the macros of detail/http_log.h): the  *)
(* one-time initLog(), the global level, and httpLog() as the macros call  *)
(* it from any thread.  spdlog is external: a default logger that writes   *)
(* to the console, replaced by initLog(); a bounded queue with worker      *)
(* threads if that logger is asynchronous.                                 *)
(***************************************************************************)
EXTENDS Naturals, Sequences, SequencesExt

CONSTANTS
  Threads,     \* the threads that log
  MsgLevels,   \* the levels they log at
  SetLevels,   \* the levels setLogLevel() is called with
  MaxLogs,     \* bound: messages of a thread
  MaxQueue,    \* largest async_mode_options_.queue_size_ tried
  MaxWorkers   \* largest async_mode_options_.thread_count_ tried

(* Levels are those of LogLevel, and nothing is logged at Off. *)
ASSUME LogAssumption ==
  /\ MsgLevels \subseteq 0..5
  /\ SetLevels \subseteq 0..6
  /\ MaxLogs \in Nat /\ MaxQueue \in Nat /\ MaxWorkers \in Nat

VARIABLES
  initFlag,  \* init_flag
  outcome,   \* how the last initLog() ended: "none", "ok", "invalid", "again"
  logger,    \* the default logger of spdlog
  patterned, \* its sinks have default_log_pattern
  level,     \* its level
  once,      \* the static init of httpLog(): "no", "busy", "done"
  pc,        \* where each thread is in a logging macro
  msg,       \* the message it logs, [by, n, lvl]
  accepted,  \* messages the logger has taken
  queue,     \* messages that wait for a worker
  held,      \* the message each worker is writing, or NoMsg
  out,       \* what each sink was given
  plain      \* messages written without the pattern

initVars == <<initFlag, outcome, logger>>
outVars == <<accepted, queue, held, out, plain>>
vars == <<initVars, level, patterned, once, pc, msg, outVars>>

Info == 2
Sinks == {"console", "file"}
Workers == 1..MaxWorkers
Messages == [by : Threads, n : 1..MaxLogs, lvl : MsgLevels]
NoMsg == [by |-> "nobody", n |-> 0, lvl |-> 0]

(* LogOptions; a file is off, has no name, cannot be opened, or can. *)
Options ==
  [console : BOOLEAN, file : {"off", "noname", "bad", "good"}, async : BOOLEAN,
   queue : 0..MaxQueue, threads : 0..MaxWorkers]

Sinked(o) ==
  {s \in Sinks : IF s = "console" THEN o.console ELSE o.file = "good"}

(* The logger spdlog starts with. *)
DefaultLogger ==
  [name |-> "", sinks |-> {"console"}, async |-> FALSE, queue |-> 0, threads |-> 0]

Init ==
  /\ initFlag = FALSE
  /\ outcome = "none"
  /\ logger = DefaultLogger
  /\ patterned = FALSE
  /\ level = Info
  /\ once = "no"
  /\ pc = [t \in Threads |-> "idle"]
  /\ msg = [t \in Threads |-> NoMsg]
  /\ accepted = {}
  /\ queue = <<>>
  /\ held = [w \in Workers |-> NoMsg]
  /\ out = [s \in Sinks |-> <<>>]
  /\ plain = {}

-----------------------------------------------------------------------------
(* Mutant: sinks are not counted. *)
InvalidSinkless(o) ==
  \/ o.file \in {"noname", "bad"}
  \/ o.async /\ (o.queue = 0 \/ o.threads = 0)

(* Mutant: any size of the queue will do. *)
InvalidQueueless(o) ==
  \/ o.file \in {"noname", "bad"}
  \/ Sinked(o) = {}
  \/ o.async /\ o.threads = 0

(* Mutant: any number of threads will do. *)
InvalidThreadless(o) ==
  \/ o.file \in {"noname", "bad"}
  \/ Sinked(o) = {}
  \/ o.async /\ o.queue = 0

(* The options, or the file system, make initLog() throw. *)
Invalid(o) ==
  \/ o.file \in {"noname", "bad"}
  \/ Sinked(o) = {}
  \/ o.async /\ (o.queue = 0 \/ o.threads = 0)

(* initLog() is not thread safe: it is called while nobody logs. *)
Quiet == \A t \in Threads : pc[t] = "idle"

InitAgain ==
  /\ Quiet
  /\ initFlag
  /\ outcome' = "again"
  /\ UNCHANGED <<initFlag, logger, level, patterned, once, pc, msg, outVars>>

InitInvalid(o) ==
  /\ Quiet
  /\ ~initFlag
  /\ Invalid(o)
  /\ initFlag' = TRUE
  /\ outcome' = "invalid"
  /\ UNCHANGED <<logger, level, patterned, once, pc, msg, outVars>>

(* The new logger starts at spdlog's default level, and with no message. *)
Replace(o) ==
  /\ Quiet
  /\ ~initFlag
  /\ ~Invalid(o)
  /\ outcome' = "ok"
  /\ logger' = [name |-> "http server", sinks |-> Sinked(o), async |-> o.async,
                queue |-> IF o.async THEN o.queue ELSE 0,
                threads |-> IF o.async THEN o.threads ELSE 0]
  /\ patterned' = TRUE
  /\ level' = Info
  /\ accepted' = {}
  /\ out' = [s \in Sinks |-> <<>>]
  /\ UNCHANGED <<once, pc, msg, queue, held, plain>>

(* Mutant: init_flag is only set by a call that fails. *)
InitOkForgets(o) == Replace(o) /\ UNCHANGED initFlag

InitOk(o) == Replace(o) /\ initFlag' = TRUE

SetLogLevel(l) ==
  /\ level' = l
  /\ UNCHANGED <<initVars, patterned, once, pc, msg, outVars>>

-----------------------------------------------------------------------------
(* A macro: the message is made only if its level is enabled. *)
LogCheck(t, l) ==
  /\ pc[t] = "idle"
  /\ msg[t].n < MaxLogs
  /\ msg' = [msg EXCEPT ![t] = [by |-> t, n |-> @.n + 1, lvl |-> l]]
  /\ pc' = [pc EXCEPT ![t] = IF level <= l THEN "once" ELSE "idle"]
  /\ UNCHANGED <<initVars, level, patterned, once, outVars>>

(* Mutant: a plain flag, set before the pattern is. *)
OnceEnterFlag(t) ==
  /\ pc[t] = "once"
  /\ once = "no"
  /\ once' = "done"
  /\ pc' = [pc EXCEPT ![t] = "init"]
  /\ UNCHANGED <<initVars, level, patterned, msg, outVars>>

(* The initialisation of a local static: one thread runs it, the others wait. *)
OnceEnter(t) ==
  /\ pc[t] = "once"
  /\ once = "no"
  /\ once' = "busy"
  /\ pc' = [pc EXCEPT ![t] = "init"]
  /\ UNCHANGED <<initVars, level, patterned, msg, outVars>>

OncePattern(t) ==
  /\ pc[t] = "init"
  /\ patterned' = TRUE
  /\ once' = "done"
  /\ pc' = [pc EXCEPT ![t] = "log"]
  /\ UNCHANGED <<initVars, level, msg, outVars>>

OncePass(t) ==
  /\ pc[t] = "once"
  /\ once = "done"
  /\ pc' = [pc EXCEPT ![t] = "log"]
  /\ UNCHANGED <<initVars, level, patterned, once, msg, outVars>>

(* The sinks of the logger write m. *)
Write(m) ==
  /\ out' = [s \in Sinks |-> IF s \in logger.sinks THEN Append(out[s], m) ELSE out[s]]
  /\ plain' = IF patterned THEN plain ELSE plain \cup {m}

(* spdlog::log() looks at the level again, and writes or queues the message. *)
Log(t) ==
  /\ pc[t] = "log"
  /\ IF level > msg[t].lvl
     THEN pc' = [pc EXCEPT ![t] = "idle"] /\ UNCHANGED outVars
     ELSE /\ accepted' = accepted \cup {msg[t]}
          /\ IF logger.async
             THEN pc' = [pc EXCEPT ![t] = "queue"] /\ UNCHANGED <<queue, held, out, plain>>
             ELSE pc' = [pc EXCEPT ![t] = "idle"] /\ Write(msg[t]) /\ UNCHANGED <<queue, held>>
  /\ UNCHANGED <<initVars, level, patterned, once, msg>>

(* Mutant: the overflow policy is to overrun the oldest message. *)
EnqueueOverruns(t) ==
  /\ pc[t] = "queue"
  /\ queue' = Append(IF Len(queue) < logger.queue THEN queue ELSE Tail(queue), msg[t])
  /\ pc' = [pc EXCEPT ![t] = "idle"]
  /\ UNCHANGED <<initVars, level, patterned, once, msg, accepted, held, out, plain>>

(* The overflow policy is to block. *)
Enqueue(t) ==
  /\ pc[t] = "queue"
  /\ Len(queue) < logger.queue
  /\ queue' = Append(queue, msg[t])
  /\ pc' = [pc EXCEPT ![t] = "idle"]
  /\ UNCHANGED <<initVars, level, patterned, once, msg, accepted, held, out, plain>>

(* A worker thread takes a message, and writes it. *)
WorkerTake(w) ==
  /\ w <= logger.threads
  /\ held[w] = NoMsg
  /\ queue # <<>>
  /\ held' = [held EXCEPT ![w] = Head(queue)]
  /\ queue' = Tail(queue)
  /\ UNCHANGED <<initVars, level, patterned, once, pc, msg, accepted, out, plain>>

WorkerWrite(w) ==
  /\ held[w] # NoMsg
  /\ Write(held[w])
  /\ held' = [held EXCEPT ![w] = NoMsg]
  /\ UNCHANGED <<initVars, level, patterned, once, pc, msg, accepted, queue>>

-----------------------------------------------------------------------------
Call(t) == OnceEnter(t) \/ OncePattern(t) \/ OncePass(t) \/ Log(t) \/ Enqueue(t)
Worker(w) == WorkerTake(w) \/ WorkerWrite(w)

Next ==
  \/ InitAgain
  \/ \E o \in Options : InitInvalid(o) \/ InitOk(o)
  \/ \E l \in SetLevels : SetLogLevel(l)
  \/ \E t \in Threads, l \in MsgLevels : LogCheck(t, l)
  \/ \E t \in Threads : Call(t)
  \/ \E w \in Workers : Worker(w)

Spec == Init /\ [][Next]_vars

(* Threads run on; one that waits for the static or the queue gets its turn  *)
(* when that is free.                                                      *)
FairSpec ==
  /\ Spec
  /\ \A t \in Threads : WF_vars(Call(t))
  /\ \A w \in Workers : WF_vars(Worker(w))

-----------------------------------------------------------------------------
(* PROPERTIES *)

Loggers ==
  [name : {"", "http server"}, sinks : (SUBSET Sinks) \ {{}}, async : BOOLEAN,
   queue : Nat, threads : Nat]

(* Types; a logger has a sink, and its queue is never longer than asked. *)
TypeOK ==
  /\ initFlag \in BOOLEAN
  /\ outcome \in {"none", "ok", "invalid", "again"}
  /\ logger \in Loggers
  /\ patterned \in BOOLEAN
  /\ level \in 0..6
  /\ once \in {"no", "busy", "done"}
  /\ pc \in [Threads -> {"idle", "once", "init", "log", "queue"}]
  /\ msg \in [Threads -> Messages \cup {NoMsg}]
  /\ accepted \subseteq Messages
  /\ queue \in Seq(Messages)
  /\ Len(queue) <= logger.queue
  /\ held \in [Workers -> Messages \cup {NoMsg}]
  /\ out \in [Sinks -> Seq(Messages)]
  /\ plain \subseteq Messages

(* No message is written before the sinks have default_log_pattern: the      *)
(* static in httpLog() sets it before the first one, whichever threads     *)
(* come first and wherever the one that sets it is, and a logger of        *)
(* initLog() has it from the start.                                        *)
Patterned == plain = {}

(* The messages that wait or are being written. *)
Pending == {msg[t] : t \in {u \in Threads : pc[u] = "queue"}} \cup ToSet(queue)
           \cup {held[w] : w \in Workers}

(* No message is lost or doubled in a sink, with a full queue, several       *)
(* workers or a change of the level: each one taken by the logger is       *)
(* waiting or has been given once to every sink that was asked for, and to *)
(* no other.                                                               *)
Conserved ==
  \A s \in Sinks :
    /\ IsInjective(out[s])
    /\ ToSet(out[s]) = IF s \in logger.sinks THEN accepted \ Pending ELSE {}

(* The logger of spdlog is replaced at most once, by an initLog() that       *)
(* returns normally, so no message is left in the queue of an old one.     *)
ReplacedOnce == [][logger' # logger => logger = DefaultLogger /\ outcome = "none"
                                       /\ outcome' = "ok"]_vars

(* A thread that logs goes on: the wait for the static ends, and so does the *)
(* wait for room in the queue.                                             *)
LogReturns == \A t \in Threads : pc[t] # "idle" ~> pc[t] = "idle"

(* A message that the logger has taken reaches every sink that was asked     *)
(* for, however full the queue is and whatever is logged after it.         *)
Delivered ==
  \A m \in Messages, s \in Sinks :
    m \in accepted /\ s \in logger.sinks ~> m \in ToSet(out[s])
=============================================================================
