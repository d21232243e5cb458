------------------------- MODULE HttpStatisticsProofs -------------------------
(***************************************************************************)
(* What a snapshot of the statistics shows, for any number of sessions,    *)
(* threads, requests and restarts.                                         *)
(***************************************************************************)
EXTENDS HttpStatistics, FiniteSetTheorems, TLAPS

Working == {s \in Sessions : stage[s] = "handler"}

Busy == {"process", "handler", "returned"}

(* A server at work has as many requests read as handled or in processing; *)
(* a server that is reset is in the midst of nothing.                      *)
Totals ==
  /\ store = 0 =>
       cnt["read_success_cnt"] = cnt["handle_request_cnt"] + Cardinality(Processing)
  /\ store # 0 => Processing = {}
  /\ store >= 4 => cnt["handle_request_cnt"] = 0
  /\ store >= 6 => cnt["read_success_cnt"] = 0

(* The gauge counts the handlers at work, for whom there are threads. *)
Gauge ==
  /\ cnt["working_handler_cnt"] = Cardinality(Working)
  /\ Cardinality(Processing) <= ThreadNum

(* What the reader has loaded so far is no more than what was read when it  *)
(* loaded it, and totals only grow.                                        *)
Loaded ==
  /\ snap["working_handler_cnt"] <= ThreadNum
  /\ clean => store = 0
  /\ clean /\ load >= 2 => snap["handle_request_cnt"] <= cnt["handle_request_cnt"]
  /\ clean /\ load >= 3 =>
       snap["handle_request_cnt"] + snap["working_handler_cnt"] <= cnt["read_success_cnt"]
  /\ clean /\ load >= 5 =>
       snap["handle_request_cnt"] + snap["working_handler_cnt"] <= snap["read_success_cnt"]

Inv == TypeOK /\ Totals /\ Gauge /\ Loaded

-----------------------------------------------------------------------------
(* The size of a set when the membership of one element may change. *)
LEMMA CardMove ==
  ASSUME NEW U, IsFiniteSet(U), NEW A \in SUBSET U, NEW B \in SUBSET U, NEW x \in U,
         A \ {x} = B \ {x}
  PROVE  /\ Cardinality(A) \in Nat /\ Cardinality(B) \in Nat
         /\ (x \in A <=> x \in B) => Cardinality(B) = Cardinality(A)
         /\ x \in A /\ x \notin B => Cardinality(B) = Cardinality(A) - 1
         /\ x \notin A /\ x \in B => Cardinality(B) = Cardinality(A) + 1
<1>1. IsFiniteSet(A) /\ IsFiniteSet(B)
  BY FS_Subset
<1>2. Cardinality(A) \in Nat /\ Cardinality(B) \in Nat
  BY <1>1, FS_CardinalityType
<1>3. (x \in A <=> x \in B) => A = B
  OBVIOUS
<1>4. x \in A /\ x \notin B => Cardinality(B) = Cardinality(A) - 1
  <2>1. x \in A /\ x \notin B => B = A \ {x}
    OBVIOUS
  <2> QED
    BY <1>1, <2>1, FS_RemoveElement
<1>5. x \notin A /\ x \in B => Cardinality(B) = Cardinality(A) + 1
  <2>1. x \notin A /\ x \in B => B = A \cup {x}
    OBVIOUS
  <2> QED
    BY <1>1, <2>1, FS_AddElement
<1> QED
  BY <1>2, <1>3, <1>4, <1>5

Bit(b) == IF b THEN 1 ELSE 0

(* The two counts when session s goes to another stage. *)
LEMMA Counts ==
  ASSUME TypeOK, NEW s \in Sessions, NEW to, stage' = [stage EXCEPT ![s] = to]
  PROVE  /\ Cardinality(Processing) \in Nat /\ Cardinality(Working) \in Nat
         /\ Cardinality(Processing') =
              Cardinality(Processing) - Bit(stage[s] \in Busy) + Bit(to \in Busy)
         /\ Cardinality(Working') =
              Cardinality(Working) - Bit(stage[s] = "handler") + Bit(to = "handler")
<1>1. IsFiniteSet(Sessions) /\ stage'[s] = to
  BY StatisticsAssumption DEF TypeOK
<1>2. /\ Processing \in SUBSET Sessions /\ Processing' \in SUBSET Sessions
      /\ Processing \ {s} = Processing' \ {s}
      /\ s \in Processing <=> stage[s] \in Busy
      /\ s \in Processing' <=> to \in Busy
  BY <1>1 DEF Processing, Busy, TypeOK
<1>3. /\ Working \in SUBSET Sessions /\ Working' \in SUBSET Sessions
      /\ Working \ {s} = Working' \ {s}
      /\ s \in Working <=> stage[s] = "handler"
      /\ s \in Working' <=> to = "handler"
  BY <1>1 DEF Working, TypeOK
<1>4. /\ Cardinality(Processing) \in Nat /\ Cardinality(Processing') \in Nat
      /\ Cardinality(Processing') =
           Cardinality(Processing) - Bit(stage[s] \in Busy) + Bit(to \in Busy)
  BY <1>1, <1>2, CardMove DEF Bit
<1>5. /\ Cardinality(Working) \in Nat /\ Cardinality(Working') \in Nat
      /\ Cardinality(Working') =
           Cardinality(Working) - Bit(stage[s] = "handler") + Bit(to = "handler")
  BY <1>1, <1>3, CardMove DEF Bit
<1> QED
  BY <1>4, <1>5

(* A handler at work is in processing. *)
LEMMA WorkingFew ==
  /\ Cardinality(Working) \in Nat /\ Cardinality(Processing) \in Nat
  /\ Cardinality(Working) <= Cardinality(Processing)
<1>1. IsFiniteSet(Processing) /\ Working \subseteq Processing
  <2>1. Processing \subseteq Sessions
    BY DEF Processing
  <2> QED
    BY <2>1, StatisticsAssumption, FS_Subset DEF Working, Processing
<1> QED
  BY <1>1, FS_Subset, FS_CardinalityType

-----------------------------------------------------------------------------
(* A session takes a step to another stage, and the counters go with it: the *)
(* totals agree with the stages and only grow, and no session enters       *)
(* processRequest() without a thread.                                      *)
Agrees(s, to) ==
  /\ stage' = [stage EXCEPT ![s] = to]
  /\ store' = store /\ load' = load /\ snap' = snap /\ clean' = clean
  /\ store # 0 =>
       /\ to \notin Busy
       /\ cnt'["read_success_cnt"] = cnt["read_success_cnt"]
       /\ cnt'["handle_request_cnt"] = cnt["handle_request_cnt"]
  /\ cnt'["read_success_cnt"] - cnt'["handle_request_cnt"] =
       cnt["read_success_cnt"] - cnt["handle_request_cnt"]
         - Bit(stage[s] \in Busy) + Bit(to \in Busy)
  /\ cnt'["working_handler_cnt"] =
       cnt["working_handler_cnt"] - Bit(stage[s] = "handler") + Bit(to = "handler")
  /\ cnt'["read_success_cnt"] >= cnt["read_success_cnt"]
  /\ cnt'["handle_request_cnt"] >= cnt["handle_request_cnt"]
  /\ to \in Busy => stage[s] \in Busy \/ FreeThread

(* Such a step keeps the invariant. *)
LEMMA SessionStep ==
  ASSUME Inv, NEW s \in Sessions, NEW to, TypeOK', Agrees(s, to) PROVE Inv'
<1>1. /\ stage' = [stage EXCEPT ![s] = to]
      /\ store' = store /\ load' = load /\ snap' = snap /\ clean' = clean
  BY DEF Agrees
<1>2. /\ cnt["read_success_cnt"] \in Nat /\ cnt["handle_request_cnt"] \in Nat
      /\ cnt["working_handler_cnt"] \in Nat /\ store \in Nat /\ load \in Nat
      /\ snap["handle_request_cnt"] \in Nat /\ snap["working_handler_cnt"] \in Nat
      /\ snap["read_success_cnt"] \in Nat
      /\ cnt'["read_success_cnt"] \in Nat /\ cnt'["handle_request_cnt"] \in Nat
  BY DEF Inv, TypeOK, Fields
<1>3. /\ Cardinality(Processing) \in Nat /\ Cardinality(Working) \in Nat
      /\ Cardinality(Processing') =
           Cardinality(Processing) - Bit(stage[s] \in Busy) + Bit(to \in Busy)
      /\ Cardinality(Working') =
           Cardinality(Working) - Bit(stage[s] = "handler") + Bit(to = "handler")
  BY <1>1, Counts DEF Inv
<1>4. Totals'
  <2>1. store # 0 => Processing' = {}
    BY <1>1 DEF Inv, Totals, Processing, Busy, TypeOK, Agrees
  <2>2. store = 0 => cnt'["read_success_cnt"] =
                       cnt'["handle_request_cnt"] + Cardinality(Processing')
    BY <1>2, <1>3 DEF Inv, Totals, Bit, Agrees
  <2>3. /\ store >= 4 => cnt'["handle_request_cnt"] = 0
        /\ store >= 6 => cnt'["read_success_cnt"] = 0
    BY <1>2 DEF Inv, Totals, Agrees
  <2> QED
    BY <1>1, <2>1, <2>2, <2>3 DEF Totals
<1>5. Gauge'
  <2>1. Cardinality(Processing') <= ThreadNum
    BY <1>2, <1>3, StatisticsAssumption DEF Inv, Gauge, Bit, FreeThread, Agrees
  <2> QED
    BY <1>2, <1>3, <2>1 DEF Inv, Gauge, Agrees
<1>6. Loaded'
  BY <1>1, <1>2 DEF Inv, Loaded, Agrees
<1> QED
  BY <1>4, <1>5, <1>6 DEF Inv

(* The actions of a session are such steps. *)
LEMMA SessionInv ==
  ASSUME Inv, NEW s \in Sessions, SessionNext(s) PROVE Inv'
<1> USE DEF Busy, Bit
<1>0. /\ cnt \in [Fields -> Nat] /\ TypeOK /\ Totals /\ Gauge
      /\ cnt["read_success_cnt"] \in Nat /\ cnt["handle_request_cnt"] \in Nat
      /\ cnt["working_handler_cnt"] \in Nat /\ cnt["session_cnt"] \in Nat
  BY DEF Inv, TypeOK, Fields
<1>a. store # 0 => stage[s] \notin Busy
  BY <1>0 DEF Totals, Processing, TypeOK
<1>b. stage[s] = "handler" => cnt["working_handler_cnt"] >= 1
  <2>1. stage[s] = "handler" => Working # {}
    BY <1>0 DEF Working, TypeOK
  <2>2. IsFiniteSet(Working)
    BY StatisticsAssumption, FS_Subset DEF Working
  <2>3. Working # {} => Cardinality(Working) # 0
    BY <2>2, FS_EmptySet
  <2> QED
    BY <1>0, <2>1, <2>3 DEF Gauge
<1> USE <1>0, <1>a, StatisticsAssumption
<1>1. CASE Create(s)
  <2>1. TypeOK'
    BY <1>1 DEF Create, Move, TypeOK, Fields, reader
  <2>2. Agrees(s, "reading")
    BY <1>1 DEF Create, Agrees, Move, FreeThread, Fields, reader
  <2> QED
    BY <2>1, <2>2, SessionStep
<1>2. CASE OnReadError(s)
  <2>1. TypeOK'
    BY <1>2 DEF OnReadError, Move, Bump, TypeOK, Fields, reader
  <2>2. Agrees(s, "closed")
    BY <1>2 DEF OnReadError, Agrees, Move, Bump, FreeThread, Fields, reader
  <2> QED
    BY <2>1, <2>2, SessionStep
<1>3. CASE OnReadOk(s)
  <2>1. TypeOK'
    BY <1>3 DEF OnReadOk, Move, Bump, TypeOK, Fields, reader
  <2>2. Agrees(s, "process")
    BY <1>3 DEF OnReadOk, Agrees, Move, Bump, FreeThread, Fields, reader
  <2> QED
    BY <2>1, <2>2, SessionStep
<1>4. CASE Reject(s)
  <2>1. TypeOK'
    BY <1>4 DEF Reject, Move, Bump, TypeOK, Fields, reader
  <2>2. Agrees(s, "writing")
    BY <1>4 DEF Reject, Agrees, Move, Bump, Fields, reader
  <2> QED
    BY <2>1, <2>2, SessionStep
<1>5. CASE CallHandler(s)
  <2>1. TypeOK'
    BY <1>5 DEF CallHandler, Move, Bump, TypeOK, Fields, reader
  <2>2. Agrees(s, "handler")
    BY <1>5 DEF CallHandler, Agrees, Move, Bump, Fields, reader
  <2> QED
    BY <2>1, <2>2, SessionStep
<1>6. CASE HandleReturn(s)
  <2>1. TypeOK'
    BY <1>6, <1>b DEF HandleReturn, Move, TypeOK, Fields, reader
  <2>2. Agrees(s, "returned")
    BY <1>6, <1>b DEF HandleReturn, Agrees, Move, Fields, reader
  <2> QED
    BY <2>1, <2>2, SessionStep
<1>7. CASE Handled(s)
  <2>1. TypeOK'
    BY <1>7 DEF Handled, Move, Bump, TypeOK, Fields, reader
  <2>2. Agrees(s, "waiting")
    BY <1>7 DEF Handled, Agrees, Move, Bump, Fields, reader
  <2> QED
    BY <2>1, <2>2, SessionStep
<1>8. CASE Send(s)
  <2>1. TypeOK'
    BY <1>8 DEF Send, Move, TypeOK, Fields, reader
  <2>2. Agrees(s, "writing") \/ Agrees(s, "closed")
    BY <1>8 DEF Send, Agrees, Move, Fields, reader
  <2> QED
    BY <2>1, <2>2, SessionStep
<1>9. CASE OnWriteError(s)
  <2>1. TypeOK'
    BY <1>9 DEF OnWriteError, Move, Bump, TypeOK, Fields, reader
  <2>2. Agrees(s, "closed")
    BY <1>9 DEF OnWriteError, Agrees, Move, Bump, FreeThread, Fields, reader
  <2> QED
    BY <2>1, <2>2, SessionStep
<1>10. CASE OnWriteOk(s)
  <2>1. TypeOK'
    BY <1>10 DEF OnWriteOk, Move, Bump, TypeOK, Fields, reader
  <2>2. Agrees(s, "closed") \/ Agrees(s, "reading")
    BY <1>10 DEF OnWriteOk, Agrees, Move, Bump, FreeThread, Fields, reader
  <2> QED
    BY <2>1, <2>2, SessionStep
<1>11. CASE Destroy(s)
  <2>1. TypeOK'
    BY <1>11 DEF Destroy, Move, TypeOK, Fields, reader
  <2>2. Agrees(s, "gone")
    BY <1>11 DEF Destroy, Agrees, Move, Fields, reader
  <2> QED
    BY <2>1, <2>2, SessionStep
<1> QED
  BY <1>1, <1>2, <1>3, <1>4, <1>5, <1>6, <1>7, <1>8, <1>9, <1>10, <1>11 DEF SessionNext

-----------------------------------------------------------------------------
(* run() is called again and resets the counters, one after the other. *)
LEMMA ResetInv == ASSUME Inv, RunCall \/ Store PROVE Inv'
<1>0. /\ cnt \in [Fields -> Nat] /\ TypeOK /\ Totals /\ Gauge /\ Loaded /\ store \in 0..9
  BY DEF Inv, TypeOK
<1>1. CASE RunCall
  <2>0. clean' \in BOOLEAN
    BY <1>1, Zenon DEF RunCall
  <2>1. TypeOK'
    BY <1>0, <1>1, <2>0 DEF RunCall, TypeOK
  <2>2. Totals' /\ Gauge' /\ Loaded'
    BY <1>0, <1>1 DEF RunCall, Totals, Gauge, Loaded, Processing, Working
  <2> QED
    BY <2>1, <2>2 DEF Inv
<1>2. CASE Store
  <2>1. /\ store \in 1..9 /\ stage' = stage /\ load' = load /\ snap' = snap /\ clean' = clean
        /\ cnt' = [cnt EXCEPT ![Stores[store]] = 0] /\ Len(Stores) = 9
        /\ store' = IF store = 9 THEN 0 ELSE store + 1
    BY <1>0, <1>2 DEF Store, reader, Stores
  <2>2. /\ Stores[store] \in Fields
        /\ Stores[store] = "handle_request_cnt" <=> store = 3
        /\ Stores[store] = "read_success_cnt" <=> store = 5
        /\ Stores[store] = "working_handler_cnt" <=> store = 9
    BY <2>1 DEF Stores, Fields
  <2>3. TypeOK'
    BY <1>0, <1>2, <2>1, <2>2 DEF Store, TypeOK
  <2>4. Processing' = Processing /\ Working' = Working /\ Processing = {} /\ Working = {}
    BY <1>0, <2>1 DEF Totals, Processing, Working
  <2>5. Cardinality(Processing) = 0 /\ Cardinality(Working) = 0
    BY <2>4, FS_EmptySet
  <2>6. Totals'
    <3>1. /\ store' >= 4 => cnt'["handle_request_cnt"] = 0
          /\ store' >= 6 => cnt'["read_success_cnt"] = 0
      BY <1>0, <2>1, <2>2 DEF Totals, Fields
    <3>2. store' = 0 => cnt'["handle_request_cnt"] = 0 /\ cnt'["read_success_cnt"] = 0
      BY <1>0, <2>1, <2>2 DEF Totals, Fields
    <3> QED
      BY <2>4, <2>5, <3>1, <3>2 DEF Totals
  <2>7. Gauge'
    <3>1. cnt'["working_handler_cnt"] = 0
      BY <1>0, <2>1, <2>5 DEF Gauge, Fields
    <3> QED
      BY <1>0, <2>4, <2>5, <3>1 DEF Gauge
  <2>8. Loaded'
    BY <1>0, <2>1 DEF Loaded
  <2> QED
    BY <2>3, <2>6, <2>7, <2>8 DEF Inv
<1> QED
  BY <1>1, <1>2

(* The reader goes from counter to counter. *)
LEMMA ReaderInv == ASSUME Inv, GetCall \/ Load \/ GetReturn PROVE Inv'
<1>0. /\ cnt \in [Fields -> Nat] /\ snap \in [Fields -> Nat] /\ load \in 0..10
      /\ TypeOK /\ Totals /\ Gauge /\ Loaded /\ ThreadNum \in Nat
  BY StatisticsAssumption DEF Inv, TypeOK
<1>1. stage' = stage /\ cnt' = cnt /\ store' = store
  BY DEF GetCall, Load, GetReturn
<1>2. Totals' /\ Gauge'
  BY <1>0, <1>1 DEF Totals, Gauge, Processing, Working
<1>3. CASE GetCall
  <2>1. clean' \in BOOLEAN
    BY <1>3, Zenon DEF GetCall
  <2>2. TypeOK'
    BY <1>0, <1>3, <2>1 DEF GetCall, TypeOK, Zero
  <2>3. Loaded'
    <3>1. clean' => store' = 0
      BY <1>1, <1>3, Zenon DEF GetCall
    <3>2. load' = 1 /\ snap'["working_handler_cnt"] = 0
      BY <1>3 DEF GetCall, Zero, Fields
    <3> QED
      BY <1>0, <3>1, <3>2 DEF Loaded
  <2> QED
    BY <1>2, <2>2, <2>3 DEF Inv
<1>4. CASE Load
  <2>1. /\ load \in 1..9 /\ load' = load + 1 /\ clean' = clean
        /\ snap' = [snap EXCEPT ![Loads[load]] = cnt[Loads[load]]]
    BY <1>0, <1>4 DEF Load, Loads
  <2>2. /\ Loads[load] \in Fields
        /\ Loads[load] = "handle_request_cnt" <=> load = 1
        /\ Loads[load] = "working_handler_cnt" <=> load = 2
        /\ Loads[load] = "read_success_cnt" <=> load = 4
    BY <2>1 DEF Loads, Fields
  <2>3. TypeOK'
    BY <1>0, <1>1, <1>4, <2>1, <2>2 DEF Load, TypeOK
  <2>4. /\ cnt["working_handler_cnt"] \in Nat /\ cnt["working_handler_cnt"] <= ThreadNum
        /\ store = 0 => cnt["handle_request_cnt"] + cnt["working_handler_cnt"]
                          <= cnt["read_success_cnt"]
    BY <1>0, WorkingFew DEF Totals, Gauge, Fields
  <2>5. Loaded'
    <3> USE <1>0, <1>1, <2>1, <2>2, <2>4 DEF Loaded, Fields
    <3>1. CASE load = 1
      BY <3>1
    <3>2. CASE load = 2
      BY <3>2
    <3>3. CASE load = 4
      BY <3>3
    <3>4. CASE load \notin {1, 2, 4}
      BY <3>4
    <3> QED
      BY <3>1, <3>2, <3>3, <3>4
  <2> QED
    BY <1>2, <2>3, <2>5 DEF Inv
<1>5. CASE GetReturn
  <2>1. TypeOK'
    BY <1>0, <1>5 DEF GetReturn, TypeOK
  <2>2. Loaded'
    BY <1>0, <1>5 DEF GetReturn, Loaded, Fields
  <2> QED
    BY <1>2, <2>1, <2>2 DEF Inv
<1> QED
  BY <1>3, <1>4, <1>5

(* The inductive invariant. *)
LEMMA Invariant == Spec => []Inv
<1>1. Init => Inv
  <2> SUFFICES ASSUME Init PROVE Inv
    OBVIOUS
  <2>1. clean \in BOOLEAN
    BY Zenon DEF Init
  <2>2. TypeOK
    BY <2>1 DEF Init, TypeOK, Zero
  <2>3. Processing = {} /\ Working = {}
    BY DEF Init, Processing, Working
  <2>4. Cardinality(Processing) = 0 /\ Cardinality(Working) = 0
    BY <2>3, FS_EmptySet
  <2>5. Totals /\ Gauge /\ Loaded
    BY <2>3, <2>4, StatisticsAssumption DEF Init, Totals, Gauge, Loaded, Zero, Fields
  <2> QED
    BY <2>2, <2>5 DEF Inv
<1>2. Inv /\ [Next]_vars => Inv'
  <2> SUFFICES ASSUME Inv, [Next]_vars PROVE Inv'
    OBVIOUS
  <2>1. CASE UNCHANGED vars
    BY <2>1 DEF Inv, TypeOK, Totals, Gauge, Loaded, Processing, Working, vars, reader
  <2>2. CASE Next
    BY <2>2, SessionInv, ResetInv, ReaderInv DEF Next
  <2> QED
    BY <2>1, <2>2
<1> QED
  BY <1>1, <1>2, PTL DEF Spec

(* Type correctness: no counter but session_cnt_ ever goes below zero. *)
THEOREM TypeCorrect == Spec => []TypeOK
<1>1. Inv => TypeOK
  BY DEF Inv
<1> QED
  BY <1>1, Invariant, PTL

(* A snapshot never shows more requests handled or being handled than read,  *)
(* for every interleaving of its nine loads with any number of sessions.   *)
THEOREM SnapshotOrderedCorrect == Spec => []SnapshotOrdered
<1>1. Inv => SnapshotOrdered
  BY DEF Inv, TypeOK, Loaded, SnapshotOrdered, Complete, Loads
<1> QED
  BY <1>1, Invariant, PTL

(* A snapshot never shows more handlers at work than there are threads. *)
THEOREM SnapshotBusyCorrect == Spec => []SnapshotBusy
<1>1. Inv => SnapshotBusy
  BY DEF Inv, Loaded, SnapshotBusy
<1> QED
  BY <1>1, Invariant, PTL

-----------------------------------------------------------------------------
(* Sessions whose request is handled and not answered yet. *)
Owing == {"waiting", "writing"}
Owed == {s \in Sessions : stage[s] \in Owing}

Writes == cnt["write_timeout_cnt"] + cnt["write_success_cnt"] + cnt["write_fail_cnt"]

(* In the first run() each write that ended is that of a handled request,    *)
(* and what the reader has loaded of the writes so far is no more than     *)
(* their number.                                                           *)
Answered ==
  /\ runs >= 1
  /\ runs = 1 /\ store # 0 => cnt = Zero /\ \A s \in Sessions : stage[s] = "none"
  /\ runs = 1 => Writes + Cardinality(Owed) <= cnt["handle_request_cnt"]
  /\ clean /\ load >= 7 => snap["write_timeout_cnt"] <= cnt["write_timeout_cnt"]
  /\ clean /\ load >= 8 => snap["write_success_cnt"] <= cnt["write_success_cnt"]
  /\ clean /\ load >= 9 => snap["write_fail_cnt"] <= cnt["write_fail_cnt"]

(* The number of answers owed when session s goes to another stage. *)
LEMMA OwedCount ==
  ASSUME TypeOK, NEW s \in Sessions, NEW to, stage' = [stage EXCEPT ![s] = to]
  PROVE  /\ Cardinality(Owed) \in Nat /\ Cardinality(Owed') \in Nat
         /\ Cardinality(Owed') =
              Cardinality(Owed) - Bit(stage[s] \in Owing) + Bit(to \in Owing)
<1>1. IsFiniteSet(Sessions) /\ stage'[s] = to
  BY StatisticsAssumption DEF TypeOK
<1>2. /\ Owed \in SUBSET Sessions /\ Owed' \in SUBSET Sessions
      /\ Owed \ {s} = Owed' \ {s}
      /\ s \in Owed <=> stage[s] \in Owing
      /\ s \in Owed' <=> to \in Owing
  BY <1>1 DEF Owed, Owing, TypeOK
<1> QED
  BY <1>1, <1>2, CardMove DEF Bit

(* A session takes a step to another stage: writes are only counted as       *)
(* requests are handled or answers stop being owed, no session starts      *)
(* during a reset, and the counters only grow.                             *)
Pays(s, to) ==
  /\ stage' = [stage EXCEPT ![s] = to]
  /\ UNCHANGED <<store, runs, reader>>
  /\ store = 0 \/ stage[s] # "none"
  /\ Writes' + Bit(to \in Owing) - cnt'["handle_request_cnt"] <=
       Writes + Bit(stage[s] \in Owing) - cnt["handle_request_cnt"]
  /\ cnt'["write_timeout_cnt"] >= cnt["write_timeout_cnt"]
  /\ cnt'["write_success_cnt"] >= cnt["write_success_cnt"]
  /\ cnt'["write_fail_cnt"] >= cnt["write_fail_cnt"]

(* Such a step keeps the count. *)
LEMMA PaysStep ==
  ASSUME Inv, Inv', Answered, NEW s \in Sessions, NEW to, Pays(s, to) PROVE Answered'
<1>1. /\ stage' = [stage EXCEPT ![s] = to]
      /\ store' = store /\ runs' = runs /\ load' = load /\ snap' = snap /\ clean' = clean
  BY DEF Pays, reader
<1>2. /\ \A f \in Fields : cnt[f] \in Nat /\ cnt'[f] \in Nat /\ snap[f] \in Nat
      /\ runs \in Nat /\ load \in Nat
  BY DEF Inv, TypeOK
<1>3. Writes \in Nat /\ Writes' \in Nat
  BY <1>2 DEF Writes, Fields
<1>4. /\ Cardinality(Owed) \in Nat /\ Cardinality(Owed') \in Nat
      /\ Cardinality(Owed') =
           Cardinality(Owed) - Bit(stage[s] \in Owing) + Bit(to \in Owing)
  BY <1>1, OwedCount DEF Inv
<1>5. ~(runs = 1 /\ store # 0)
  BY DEF Pays, Answered
<1>6. runs = 1 => Writes' + Cardinality(Owed') <= cnt'["handle_request_cnt"]
  <2>1. cnt["handle_request_cnt"] \in Nat /\ cnt'["handle_request_cnt"] \in Nat
    BY <1>2 DEF Fields
  <2> QED
    BY <1>3, <1>4, <2>1 DEF Answered, Pays, Bit
<1>7. /\ clean /\ load >= 7 => snap["write_timeout_cnt"] <= cnt'["write_timeout_cnt"]
      /\ clean /\ load >= 8 => snap["write_success_cnt"] <= cnt'["write_success_cnt"]
      /\ clean /\ load >= 9 => snap["write_fail_cnt"] <= cnt'["write_fail_cnt"]
  BY <1>2 DEF Answered, Pays, Fields
<1> QED
  BY <1>1, <1>5, <1>6, <1>7 DEF Answered

(* The actions of a session are such steps. *)
LEMMA SessionAnswered ==
  ASSUME Inv, Inv', Answered, NEW s \in Sessions, SessionNext(s) PROVE Answered'
<1>0. /\ cnt \in [Fields -> Nat]
      /\ stage[s] = "none" \/ stage[s] \in Busy \/ stage[s] \in Owing
         \/ stage[s] \in {"reading", "closed", "gone"}
  BY DEF Inv, TypeOK, Busy, Owing
<1> USE <1>0 DEF Owing, Bit, Writes, Fields
<1>1. CASE Create(s)
  <2>1. Pays(s, "reading")
    BY <1>1 DEF Create, Pays, Move, FreeThread
  <2> QED
    BY <2>1, PaysStep
<1>2. CASE OnReadError(s)
  <2>1. Pays(s, "closed")
    BY <1>2 DEF OnReadError, Pays, Move, Bump
  <2> QED
    BY <2>1, PaysStep
<1>3. CASE OnReadOk(s)
  <2>1. Pays(s, "process")
    BY <1>3 DEF OnReadOk, Pays, Move, Bump
  <2> QED
    BY <2>1, PaysStep
<1>4. CASE Reject(s)
  <2>1. Pays(s, "writing")
    BY <1>4 DEF Reject, Pays, Move, Bump
  <2> QED
    BY <2>1, PaysStep
<1>5. CASE CallHandler(s)
  <2>1. Pays(s, "handler")
    BY <1>5 DEF CallHandler, Pays, Move, Bump
  <2> QED
    BY <2>1, PaysStep
<1>6. CASE HandleReturn(s)
  <2>1. Pays(s, "returned")
    BY <1>6 DEF HandleReturn, Pays, Move
  <2> QED
    BY <2>1, PaysStep
<1>7. CASE Handled(s)
  <2>1. Pays(s, "waiting")
    BY <1>7 DEF Handled, Pays, Move, Bump
  <2> QED
    BY <2>1, PaysStep
<1>8. CASE Send(s)
  <2>1. Pays(s, "writing") \/ Pays(s, "closed")
    BY <1>8 DEF Send, Pays, Move
  <2> QED
    BY <2>1, PaysStep
<1>9. CASE OnWriteError(s)
  <2>1. Pays(s, "closed")
    BY <1>9 DEF OnWriteError, Pays, Move, Bump
  <2> QED
    BY <2>1, PaysStep
<1>10. CASE OnWriteOk(s)
  <2>1. Pays(s, "closed") \/ Pays(s, "reading")
    BY <1>10 DEF OnWriteOk, Pays, Move, Bump
  <2> QED
    BY <2>1, PaysStep
<1>11. CASE Destroy(s)
  <2>1. Pays(s, "gone")
    BY <1>11 DEF Destroy, Pays, Move
  <2> QED
    BY <2>1, PaysStep
<1> QED
  BY <1>1, <1>2, <1>3, <1>4, <1>5, <1>6, <1>7, <1>8, <1>9, <1>10, <1>11 DEF SessionNext

(* run() and the reader keep the count: the resets of the first run() find   *)
(* nothing to reset, and a reader copies counters as they are.             *)
LEMMA OtherAnswered ==
  ASSUME Inv, Answered, RunCall \/ Store \/ GetCall \/ Load \/ GetReturn PROVE Answered'
<1>0. /\ cnt \in [Fields -> Nat] /\ snap \in [Fields -> Nat] /\ load \in 0..10 /\ runs \in Nat
      /\ store \in 0..9 /\ (clean => store = 0)
  BY DEF Inv, TypeOK, Loaded
<1>1. CASE RunCall
  <2>1. runs' >= 2 /\ ~clean'
    BY <1>0, <1>1 DEF RunCall, Answered
  <2> QED
    BY <1>0, <1>1, <2>1 DEF RunCall, Answered
<1>2. CASE Store
  <2>1. /\ store \in 1..9 /\ stage' = stage /\ runs' = runs /\ load' = load
        /\ snap' = snap /\ clean' = clean /\ ~clean
        /\ cnt' = [cnt EXCEPT ![Stores[store]] = 0]
    BY <1>0, <1>2 DEF Store, reader
  <2>2. Stores[store] \in Fields
    BY <2>1 DEF Stores, Fields
  <2>3. cnt = Zero => cnt' = cnt
    BY <2>1, <2>2 DEF Zero
  <2>4. Owed' = Owed
    BY <2>1 DEF Owed
  <2>5. runs = 1 => cnt' = Zero /\ \A s \in Sessions : stage'[s] = "none"
    BY <2>1, <2>3 DEF Answered
  <2>6. runs = 1 => Writes' = Writes /\ cnt' = cnt
    BY <2>1, <2>3 DEF Answered, Writes
  <2> QED
    BY <2>1, <2>4, <2>5, <2>6 DEF Answered
<1>3. CASE GetCall
  <2>1. load' = 1 /\ cnt' = cnt /\ stage' = stage /\ runs' = runs /\ store' = store
    BY <1>3 DEF GetCall
  <2> QED
    BY <2>1 DEF Answered, Writes, Owed
<1>4. CASE Load
  <2>1. /\ load \in 1..9 /\ load' = load + 1 /\ clean' = clean
        /\ snap' = [snap EXCEPT ![Loads[load]] = cnt[Loads[load]]]
        /\ cnt' = cnt /\ stage' = stage /\ runs' = runs /\ store' = store
    BY <1>0, <1>4 DEF Load, Loads
  <2>2. /\ Loads[load] \in Fields
        /\ Loads[load] = "write_timeout_cnt" <=> load = 6
        /\ Loads[load] = "write_success_cnt" <=> load = 7
        /\ Loads[load] = "write_fail_cnt" <=> load = 8
    BY <2>1 DEF Loads, Fields
  <2>3. Writes' = Writes /\ Owed' = Owed
    BY <2>1 DEF Writes, Owed
  <2>4. /\ clean /\ load' >= 7 => snap'["write_timeout_cnt"] <= cnt["write_timeout_cnt"]
        /\ clean /\ load' >= 8 => snap'["write_success_cnt"] <= cnt["write_success_cnt"]
        /\ clean /\ load' >= 9 => snap'["write_fail_cnt"] <= cnt["write_fail_cnt"]
    BY <1>0, <2>1, <2>2 DEF Answered, Fields
  <2> QED
    BY <2>1, <2>3, <2>4 DEF Answered
<1>5. CASE GetReturn
  <2>1. load' = 0 /\ cnt' = cnt /\ stage' = stage /\ runs' = runs /\ store' = store
    BY <1>5 DEF GetReturn
  <2> QED
    BY <2>1 DEF Answered, Writes, Owed
<1> QED
  BY <1>1, <1>2, <1>3, <1>4, <1>5

(* In the first run() no snapshot shows more writes than there were requests *)
(* when the call returns, for every interleaving of its loads.             *)
THEOREM SnapshotWritesCorrect == Spec => []SnapshotWrites
<1>1. Init => Answered
  <2> SUFFICES ASSUME Init PROVE Answered
    OBVIOUS
  <2>1. Owed = {} /\ runs = 1 /\ load = 0 /\ cnt = Zero /\ \A s \in Sessions : stage[s] = "none"
    BY DEF Init, Owed, Owing
  <2>2. Cardinality(Owed) = 0
    BY <2>1, FS_EmptySet
  <2>3. Writes = 0 /\ cnt["handle_request_cnt"] = 0
    BY <2>1 DEF Writes, Zero, Fields
  <2> QED
    BY <2>1, <2>2, <2>3 DEF Answered
<1>2. Inv /\ Inv' /\ Answered /\ [Next]_vars => Answered'
  <2>1. Answered /\ UNCHANGED vars => Answered'
    BY DEF Answered, Writes, Owed, vars, reader
  <2> QED
    BY <2>1, SessionAnswered, OtherAnswered DEF Next
<1>3. Inv /\ Answered => SnapshotWrites
  <2> SUFFICES ASSUME Inv, Answered, Complete, clean, runs = 1
               PROVE  snap.write_timeout_cnt + snap.write_success_cnt + snap.write_fail_cnt
                        <= cnt.read_success_cnt
    BY DEF SnapshotWrites
  <2>1. load = 10 /\ store = 0
    BY DEF Complete, Loads, Inv, Loaded
  <2>2. /\ \A f \in Fields : cnt[f] \in Nat /\ snap[f] \in Nat
        /\ Cardinality(Processing) \in Nat /\ Cardinality(Owed) \in Nat
    <3>1. Owed \subseteq Sessions
      BY DEF Owed
    <3>2. IsFiniteSet(Owed)
      BY <3>1, StatisticsAssumption, FS_Subset
    <3> QED
      BY <3>2, FS_CardinalityType, WorkingFew DEF Inv, TypeOK
  <2>3. Writes <= cnt["read_success_cnt"]
    BY <2>1, <2>2 DEF Answered, Inv, Totals, Writes, Fields
  <2>4. snap["write_timeout_cnt"] + snap["write_success_cnt"] + snap["write_fail_cnt"] <= Writes
    BY <2>1, <2>2 DEF Answered, Writes, Fields
  <2> QED
    BY <2>2, <2>3, <2>4 DEF Writes, Fields
<1> QED
  BY <1>1, <1>2, <1>3, Invariant, PTL DEF Spec
=============================================================================
