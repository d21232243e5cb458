--------------------------- MODULE HttpRouterProofs ---------------------------
(***************************************************************************)
(* Proofs about HttpRouter, for every set of keys and handlers, paths of   *)
(* any length and any number of registrations and readers.                 *)
(***************************************************************************)
EXTENDS HttpRouter, SequenceTheorems, TLAPS

(* PREFIXES *)

(* A prefix has the length asked for and the elements of the sequence. *)
LEMMA TakeFacts ==
  ASSUME NEW S, NEW s \in Seq(S), NEW k \in 0..Len(s)
  PROVE  /\ Take(s, k) \in Seq(S)
         /\ Len(Take(s, k)) = k
         /\ \A i \in 1..k : Take(s, k)[i] = s[i]
<1>1. \A i \in 1..k : s[i] \in S BY ElementOfSeq
<1>2. /\ SubSeq(s, 1, k) \in Seq(S)
      /\ Len(SubSeq(s, 1, k)) = IF 1 <= k THEN k - 1 + 1 ELSE 0
      /\ \A i \in 1..(k - 1 + 1) : SubSeq(s, 1, k)[i] = s[1 + i - 1]
  BY <1>1, SubSeqProperties
<1> QED BY <1>2 DEF Take

(* The prefix of a prefix is a prefix. *)
LEMMA TakeTake ==
  ASSUME NEW S, NEW s \in Seq(S), NEW m \in 0..Len(s), NEW k \in 0..m
  PROVE  Take(Take(s, m), k) = Take(s, k)
<1>1. Take(s, m) \in Seq(S) /\ Len(Take(s, m)) = m /\ \A i \in 1..m : Take(s, m)[i] = s[i]
  BY TakeFacts
<1>2. k \in 0..Len(s) /\ k \in 0..Len(Take(s, m)) BY <1>1
<1>3. /\ Take(s, k) \in Seq(S) /\ Len(Take(s, k)) = k
      /\ \A i \in 1..k : Take(s, k)[i] = s[i]
  BY <1>2, TakeFacts
<1>4. /\ Take(Take(s, m), k) \in Seq(S) /\ Len(Take(Take(s, m), k)) = k
      /\ \A i \in 1..k : Take(Take(s, m), k)[i] = Take(s, m)[i]
  BY <1>1, <1>2, TakeFacts
<1>5. \A i \in 1..k : Take(Take(s, m), k)[i] = Take(s, k)[i] BY <1>1, <1>3, <1>4
<1> HIDE DEF Take
<1> QED BY <1>3, <1>4, <1>5, SeqEqual

(* The whole sequence is a prefix of itself. *)
LEMMA TakeAll ==
  ASSUME NEW S, NEW s \in Seq(S)
  PROVE  Take(s, Len(s)) = s
BY SubSeqFull DEF Take

(* The next longer prefix has one element more. *)
LEMMA TakeNext ==
  ASSUME NEW S, NEW s \in Seq(S), NEW i \in Nat, i < Len(s)
  PROVE  Append(Take(s, i), s[i + 1]) = Take(s, i + 1)
<1>0. Len(s) \in Nat OBVIOUS
<1>1. i \in 0..Len(s) /\ i + 1 \in 0..Len(s) /\ s[i + 1] \in S BY <1>0, ElementOfSeq
<1>2. /\ Take(s, i) \in Seq(S) /\ Len(Take(s, i)) = i
      /\ \A j \in 1..i : Take(s, i)[j] = s[j]
  BY <1>1, TakeFacts
<1>3. /\ Take(s, i + 1) \in Seq(S) /\ Len(Take(s, i + 1)) = i + 1
      /\ \A j \in 1..(i + 1) : Take(s, i + 1)[j] = s[j]
  BY <1>1, TakeFacts
<1>4. /\ Append(Take(s, i), s[i + 1]) \in Seq(S)
      /\ Len(Append(Take(s, i), s[i + 1])) = i + 1
      /\ \A j \in 1..i : Append(Take(s, i), s[i + 1])[j] = Take(s, i)[j]
      /\ Append(Take(s, i), s[i + 1])[i + 1] = s[i + 1]
  BY <1>1, <1>2, AppendProperties
<1>5. \A j \in 1..(i + 1) : Append(Take(s, i), s[i + 1])[j] = Take(s, i + 1)[j]
  BY <1>2, <1>3, <1>4
<1> QED BY <1>3, <1>4, <1>5, SeqEqual

(* The prefix without elements is the root. *)
LEMMA TakeNone ==
  ASSUME NEW s
  PROVE  Take(s, 0) = Root
BY SubSeqEmpty DEF Take, Root

(* A path is a sequence of segments. *)
LEMMA PathsAreSeqs == Paths \subseteq Seq(Keys \cup {Blank})
<1> SUFFICES ASSUME NEW p \in Paths PROVE p \in Seq(Keys \cup {Blank}) OBVIOUS
<1>1. PICK n \in 0..MaxSegs : p \in [1..n -> Keys \cup {Blank}] BY DEF Paths
<1>2. n \in Nat BY RouterAssumption
<1> QED BY <1>1, <1>2

(* A sequence of names is a sequence of segments. *)
LEMMA KeysAreSegments ==
  ASSUME NEW p \in Seq(Keys)
  PROVE  p \in Seq(Keys \cup {Blank})
OBVIOUS

(* The path of the root is a path. *)
LEMMA EmptyPath == <<>> \in Paths /\ <<>> \in Seq(Keys)
<1>1. <<>> \in [1..0 -> Keys \cup {Blank}] OBVIOUS
<1>2. 0 \in 0..MaxSegs BY RouterAssumption
<1>3. <<>> # <<Blank>> OBVIOUS
<1> QED BY <1>1, <1>2, <1>3 DEF Paths

(* The node a walk has reached is where the segments taken so far lead. *)
OnTheWay(segs, i, node) ==
  /\ i <= Len(segs)
  /\ node = Take(segs, i)
  /\ \A k \in 0..i : Take(segs, k) \in DOMAIN data

(* insert() and search() walk where their segments lead, insert() before any *)
(* search(): between two turns the tree is right only because they do.     *)
WalksCorrect ==
  /\ ins.pc = "loop" => /\ phase = "setup" /\ ins.data \in Handlers
                        /\ OnTheWay(ins.segs, ins.i, ins.node)
  /\ \A r \in Readers :
       /\ find[r].pc # "idle" => phase = "running"
       /\ find[r].pc = "loop" => /\ find[r].segs # <<>>
                                 /\ OnTheWay(find[r].segs, find[r].i, find[r].node)

-----------------------------------------------------------------------------
(* TYPES *)

Inserts == [pc : {"idle", "threw", "loop"}, segs : Paths, i : Nat, node : Seq(Keys), data : Data]
Finds == [pc : {"idle", "loop", "done", "refused"}, segs : Paths, i : Nat, node : Seq(Keys),
          result : Data]

(* One turn of a loop on the record of insert() or search(). *)
LEMMA TurnTypes ==
  ASSUME NEW c \in Seq(Keys)
  PROVE  /\ \A x \in Inserts : [x EXCEPT !.i = @ + 1, !.node = c] \in Inserts
         /\ \A x \in Finds : [x EXCEPT !.i = @ + 1, !.node = c] \in Finds
<1>1. ASSUME NEW x \in Inserts PROVE [x EXCEPT !.i = @ + 1, !.node = c] \in Inserts
  <2>1. [x EXCEPT !.i = @ + 1] \in Inserts BY DEF Inserts
  <2> QED BY <2>1 DEF Inserts
<1>2. ASSUME NEW x \in Finds PROVE [x EXCEPT !.i = @ + 1, !.node = c] \in Finds
  <2>1. [x EXCEPT !.i = @ + 1] \in Finds BY DEF Finds
  <2> QED BY <2>1 DEF Finds
<1> QED BY <1>1, <1>2

(* The end of a call of insert(). *)
LEMMA InsertPcTypes ==
  ASSUME NEW x \in Inserts
  PROVE  [x EXCEPT !.pc = "idle"] \in Inserts /\ [x EXCEPT !.pc = "threw"] \in Inserts
BY DEF Inserts

(* What Put changes and what it leaves. *)
LEMMA PutFacts ==
  ASSUME NEW f, NEW x, NEW v
  PROVE  /\ DOMAIN Put(f, x, v) = DOMAIN f \cup {x}
         /\ Put(f, x, v)[x] = v
         /\ \A y \in DOMAIN f : y # x => Put(f, x, v)[y] = f[y]
BY DEF Put

(* Put keeps the range of a function. *)
LEMMA PutTypes ==
  ASSUME NEW V, NEW f, f \in [DOMAIN f -> V], NEW x, NEW v \in V
  PROVE  Put(f, x, v) \in [DOMAIN Put(f, x, v) -> V]
BY DEF Put

(* The turn of insert()'s loop makes a proper child. *)
LEMMA InsertChild ==
  ASSUME TypeOK, WalksCorrect, InsertStep
  PROVE  /\ ins.segs \in Seq(Keys \cup {Blank}) /\ ins.i \in Nat /\ ins.i + 1 \in 0..Len(ins.segs)
         /\ Append(ins.node, ins.segs[ins.i + 1]) = Take(ins.segs, ins.i + 1)
         /\ Append(ins.node, ins.segs[ins.i + 1]) \in Seq(Keys)
<1>1. ins.segs \in Seq(Keys \cup {Blank}) /\ ins.i \in Nat /\ ins.node \in Seq(Keys)
  BY PathsAreSeqs DEF TypeOK
<1>2. ins.i < Len(ins.segs) /\ ins.segs[ins.i + 1] # Blank
  BY DEF InsertStep, AtEnd
<1>3. Len(ins.segs) \in Nat BY <1>1
<1>4. ins.segs[ins.i + 1] \in Keys \cup {Blank} BY <1>1, <1>2, <1>3, ElementOfSeq
<1>5. Append(ins.node, ins.segs[ins.i + 1]) \in Seq(Keys)
  BY <1>1, <1>2, <1>4, AppendProperties
<1>6. ins.node = Take(ins.segs, ins.i) BY DEF WalksCorrect, OnTheWay, InsertStep
<1> QED BY <1>1, <1>2, <1>3, <1>5, <1>6, TakeNext

(* So does the turn of search()'s loop, whether or not the child exists. *)
LEMMA SearchChild ==
  ASSUME TypeOK, WalksCorrect, NEW r \in Readers, find[r].pc = "loop",
         ~AtEnd(find[r].segs, find[r].i)
  PROVE  /\ find[r].segs \in Seq(Keys \cup {Blank}) /\ find[r].i \in Nat
         /\ find[r].i + 1 \in 0..Len(find[r].segs)
         /\ Child(r) = Take(find[r].segs, find[r].i + 1)
         /\ Child(r) \in Seq(Keys)
<1>1. find[r].segs \in Seq(Keys \cup {Blank}) /\ find[r].i \in Nat /\ find[r].node \in Seq(Keys)
  BY PathsAreSeqs DEF TypeOK
<1>2. find[r].i < Len(find[r].segs) /\ find[r].segs[find[r].i + 1] # Blank BY DEF AtEnd
<1>3. Len(find[r].segs) \in Nat BY <1>1
<1>4. find[r].segs[find[r].i + 1] \in Keys \cup {Blank} BY <1>1, <1>2, <1>3, ElementOfSeq
<1>5. Child(r) \in Seq(Keys) BY <1>1, <1>2, <1>4, AppendProperties DEF Child
<1>6. find[r].node = Take(find[r].segs, find[r].i) BY DEF WalksCorrect, OnTheWay
<1> QED BY <1>1, <1>2, <1>3, <1>5, <1>6, TakeNext DEF Child

(* The steps of one reader. *)
SearchBy(r) ==
  \/ SearchRoot(r) \/ SearchRelative(r) \/ SearchStep(r) \/ SearchEnd(r)
  \/ \E segs \in Paths : SearchBegin(r, segs)

(* The steps of a search keep the types. *)
LEMMA SearchTypes ==
  ASSUME TypeOK, WalksCorrect, NEW r \in Readers, SearchBy(r)
  PROVE  TypeOK'
<1>0. UNCHANGED <<phase, data, ins, calls, reg>>
  BY DEF SearchBy, SearchRoot, SearchRelative, SearchStep, SearchEnd, SearchBegin
<1>1. find \in [Readers -> Finds] /\ find[r] \in Finds BY DEF TypeOK, Finds
<1>2. Root \in Seq(Keys) /\ <<>> \in Paths /\ Null \in Data BY EmptyPath DEF Root, Data
<1>3. \A n \in DOMAIN data : data[n] \in Data BY DEF TypeOK
<1>4. SUFFICES ASSUME TRUE PROVE find' \in [Readers -> Finds]
  BY <1>0 DEF TypeOK, Finds
<1>5. CASE SearchRoot(r)
  <2>1. data[Root] \in Data BY <1>3 DEF TypeOK
  <2> QED BY <1>1, <1>2, <1>5, <2>1 DEF SearchRoot, Finds
<1>6. CASE SearchRelative(r) BY <1>1, <1>2, <1>6 DEF SearchRelative, Finds
<1>7. CASE SearchStep(r)
  <2>1. Child(r) \in Seq(Keys) BY <1>7, SearchChild DEF SearchStep
  <2>2. [find[r] EXCEPT !.i = @ + 1, !.node = Child(r)] \in Finds BY <1>1, <2>1, TurnTypes
  <2> QED BY <1>1, <1>7, <2>2 DEF SearchStep
<1>8. CASE SearchEnd(r)
  <2>1. Len(find[r].segs) \in Nat /\ find[r].i \in Nat
    BY PathsAreSeqs DEF TypeOK
  <2>2. find[r].node \in DOMAIN data
    BY <1>8, <2>1 DEF SearchEnd, WalksCorrect, OnTheWay
  <2>3. (IF find[r].node = Root THEN Null ELSE data[find[r].node]) \in Data
    BY <1>2, <1>3, <2>2
  <2> QED BY <1>1, <1>8, <2>3 DEF SearchEnd, Finds
<1>9. ASSUME NEW segs \in Paths, SearchBegin(r, segs) PROVE find' \in [Readers -> Finds]
  BY <1>1, <1>2, <1>9 DEF SearchBegin, Finds
<1> QED BY <1>5, <1>6, <1>7, <1>8, <1>9 DEF SearchBy

(* Every step keeps the types. *)
LEMMA TypeNext ==
  ASSUME TypeOK, WalksCorrect, [Next]_vars
  PROVE  TypeOK'
<1>a. ins \in Inserts /\ calls \in Nat /\ calls + 1 \in Nat BY DEF TypeOK, Inserts
<1>b. data \in [DOMAIN data -> Data] /\ DOMAIN data \subseteq Seq(Keys) /\ Root \in DOMAIN data
  BY DEF TypeOK
<1>c. reg \in [DOMAIN reg -> Handlers] /\ DOMAIN reg \subseteq Seq(Keys) BY DEF TypeOK
<1>d. Root \in Seq(Keys) /\ Handlers \subseteq Data /\ Null \in Data
  BY EmptyPath DEF Root, Data
<1>1. CASE UNCHANGED vars BY <1>1 DEF vars, TypeOK
<1>2. ASSUME NEW shape, NEW h, InsertThrows(shape, h) PROVE TypeOK'
  <2>1. ins' = [ins EXCEPT !.pc = "threw"] /\ calls' = calls + 1 BY <1>2 DEF InsertThrows
  <2>2. ins' \in Inserts BY <1>a, <2>1, InsertPcTypes
  <2>3. calls' \in Nat BY <1>a, <2>1
  <2> QED BY <1>2, <2>2, <2>3 DEF InsertThrows, TypeOK, Inserts
<1>3. ASSUME NEW h \in Handlers, InsertRoot(h) PROVE TypeOK'
  <2>1. ins' = [ins EXCEPT !.pc = "idle"] /\ calls' = calls + 1 BY <1>3 DEF InsertRoot
  <2>2. ins' \in Inserts BY <1>a, <2>1, InsertPcTypes
  <2>3. calls' \in Nat BY <1>a, <2>1
  <2>4. DOMAIN data' = DOMAIN data \cup {Root} /\ data' \in [DOMAIN data' -> Data]
    <3>1. data' = Put(data, Root, h) BY <1>3 DEF InsertRoot
    <3>2. h \in Data BY <1>d
    <3> QED BY <1>b, <3>1, <3>2, PutFacts, PutTypes
  <2>5. DOMAIN reg' = DOMAIN reg \cup {Root} /\ reg' \in [DOMAIN reg' -> Handlers]
    <3>1. reg' = Put(reg, Root, h) BY <1>3 DEF InsertRoot
    <3> QED BY <1>c, <3>1, PutFacts, PutTypes
  <2> QED BY <1>b, <1>c, <1>d, <1>3, <2>2, <2>3, <2>4, <2>5 DEF InsertRoot, TypeOK, Inserts
<1>4. ASSUME NEW segs \in Paths, NEW h \in Handlers, InsertBegin(segs, h) PROVE TypeOK'
  <2>1. ins' \in Inserts BY <1>d, <1>4 DEF InsertBegin, Inserts
  <2>2. calls' \in Nat BY <1>a, <1>4 DEF InsertBegin
  <2> QED BY <1>4, <2>1, <2>2 DEF InsertBegin, TypeOK, Inserts
<1>5. CASE InsertStep
  <2> DEFINE child == Append(ins.node, ins.segs[ins.i + 1])
  <2>1. child \in Seq(Keys) BY <1>5, InsertChild
  <2>2. /\ ins' = [ins EXCEPT !.i = @ + 1, !.node = child]
        /\ data' = IF child \in DOMAIN data THEN data ELSE Put(data, child, Null)
        /\ UNCHANGED <<phase, calls, find, reg>>
    BY <1>5 DEF InsertStep
  <2> HIDE DEF child
  <2>3. ins' \in Inserts BY <1>a, <2>1, <2>2, TurnTypes
  <2>4. DOMAIN data' = DOMAIN data \cup {child} /\ data' \in [DOMAIN data' -> Data]
    <3>1. CASE child \in DOMAIN data
      <4>1. data' = data BY <2>2, <3>1
      <4> QED BY <1>b, <3>1, <4>1
    <3>2. CASE child \notin DOMAIN data
      <4>1. data' = Put(data, child, Null) BY <2>2, <3>2
      <4> QED BY <1>b, <1>d, <4>1, PutFacts, PutTypes
    <3> QED BY <3>1, <3>2
  <2>5. DOMAIN data' \subseteq Seq(Keys) /\ Root \in DOMAIN data' BY <1>b, <2>1, <2>4
  <2> QED BY <2>2, <2>3, <2>4, <2>5 DEF TypeOK, Inserts
<1>6. CASE InsertEnd
  <2>1. ins' = [ins EXCEPT !.pc = "idle"] /\ UNCHANGED <<phase, calls, find>>
    BY <1>6 DEF InsertEnd
  <2>2. ins' \in Inserts BY <1>a, <2>1, InsertPcTypes
  <2> DEFINE n == ins.node
  <2> DEFINE v == ins.data
  <2>3. n = Take(ins.segs, ins.i) /\ v \in Handlers /\ v \in Data
    BY <1>d, <1>6 DEF InsertEnd, WalksCorrect, OnTheWay
  <2>4. n \in Seq(Keys) BY <1>a DEF Inserts
  <2>5. data' = Put(data, n, v) /\ reg' = Put(reg, n, v) BY <1>6, <2>3 DEF InsertEnd
  <2> HIDE DEF n, v
  <2>6. DOMAIN data' = DOMAIN data \cup {n} /\ DOMAIN reg' = DOMAIN reg \cup {n}
    BY <2>5, PutFacts
  <2>7. data' \in [DOMAIN data' -> Data] BY <1>b, <2>3, <2>5, PutTypes
  <2>8. reg' \in [DOMAIN reg' -> Handlers] BY <1>c, <2>3, <2>5, PutTypes
  <2>9. /\ DOMAIN data' \subseteq Seq(Keys) /\ Root \in DOMAIN data'
        /\ DOMAIN reg' \subseteq Seq(Keys)
    BY <1>b, <1>c, <2>4, <2>6
  <2> QED BY <2>1, <2>2, <2>7, <2>8, <2>9 DEF TypeOK, Inserts
<1>7. CASE Run BY <1>7 DEF Run, TypeOK
<1>8. ASSUME NEW r \in Readers, SearchBy(r) PROVE TypeOK' BY <1>8, SearchTypes
<1> QED BY <1>1, <1>2, <1>3, <1>4, <1>5, <1>6, <1>7, <1>8 DEF Next, SearchBy

-----------------------------------------------------------------------------
(* WALKS *)

(* A node stays in the tree. *)
LEMMA TreeGrows ==
  ASSUME [Next]_vars
  PROVE  DOMAIN data \subseteq DOMAIN data'
<1>1. CASE UNCHANGED data BY <1>1
<1>2. ASSUME NEW n, NEW v, data' = Put(data, n, v) PROVE DOMAIN data \subseteq DOMAIN data'
  <2>1. DOMAIN Put(data, n, v) = DOMAIN data \cup {n} BY PutFacts
  <2> QED BY <1>2, <2>1
<1>3. \/ UNCHANGED data
      \/ \E n, v : data' = Put(data, n, v)
  <2>1. CASE UNCHANGED vars BY <2>1 DEF vars
  <2>2. CASE \E h \in Handlers : InsertRoot(h) BY <2>2 DEF InsertRoot
  <2>3. CASE InsertStep BY <2>3 DEF InsertStep
  <2>4. CASE InsertEnd BY <2>4 DEF InsertEnd
  <2>5. ASSUME NEW shape, NEW h, InsertThrows(shape, h) PROVE UNCHANGED data
    BY <2>5 DEF InsertThrows
  <2>6. ASSUME NEW segs, NEW h, InsertBegin(segs, h) PROVE UNCHANGED data
    BY <2>6 DEF InsertBegin
  <2>7. ASSUME NEW r, SearchBy(r) PROVE UNCHANGED data
    BY <2>7 DEF SearchBy, SearchRoot, SearchRelative, SearchStep, SearchEnd, SearchBegin
  <2>8. CASE Run BY <2>8 DEF Run
  <2> QED BY <2>1, <2>2, <2>3, <2>4, <2>5, <2>6, <2>7, <2>8, Zenon DEF Next, SearchBy
<1> QED BY <1>1, <1>2, <1>3

(* The walks that a step leaves alone. *)
LEMMA InsertStays ==
  ASSUME WalksCorrect, [Next]_vars, UNCHANGED ins, UNCHANGED phase
  PROVE  ins'.pc = "loop" => /\ phase' = "setup" /\ ins'.data \in Handlers
                             /\ OnTheWay(ins.segs, ins.i, ins.node)'
BY TreeGrows DEF WalksCorrect, OnTheWay

ReaderOK(r) ==
  /\ find[r].pc # "idle" => phase = "running"
  /\ find[r].pc = "loop" => find[r].segs # <<>> /\ OnTheWay(find[r].segs, find[r].i, find[r].node)

(* A search that a step does not touch stays on its way. *)
LEMMA ReaderStays ==
  ASSUME NEW r \in Readers, WalksCorrect, [Next]_vars, find'[r] = find[r],
         phase' = phase \/ phase' = "running"
  PROVE  ReaderOK(r)'
BY TreeGrows DEF WalksCorrect, OnTheWay, ReaderOK

(* A walk starts at the root. *)
LEMMA AtRoot ==
  ASSUME TypeOK, NEW segs \in Paths
  PROVE  OnTheWay(segs, 0, Root)
<1>1. Len(segs) \in Nat BY PathsAreSeqs
<1>2. \A k \in 0..0 : Take(segs, k) = Root BY TakeNone
<1> QED BY <1>1, <1>2 DEF OnTheWay, TypeOK

(* The steps of a search keep all walks on their way. *)
LEMMA SearchWalks ==
  ASSUME TypeOK, WalksCorrect, NEW r \in Readers, SearchBy(r)
  PROVE  WalksCorrect'
<1>0. UNCHANGED <<phase, data, ins, calls, reg>> /\ [Next]_vars
  BY DEF SearchBy, SearchRoot, SearchRelative, SearchStep, SearchEnd, SearchBegin, Next
<1>1. \A x \in Readers : x # r => find'[x] = find[x]
  BY DEF SearchBy, SearchRoot, SearchRelative, SearchStep, SearchEnd, SearchBegin, TypeOK
<1>2. \A x \in Readers : x # r => ReaderOK(x)' BY <1>0, <1>1, ReaderStays
<1>3. SUFFICES ASSUME TRUE PROVE ReaderOK(r)'
  BY <1>0, <1>2, InsertStays DEF WalksCorrect, ReaderOK
<1>4. phase = "running"
  BY DEF SearchBy, SearchRoot, SearchRelative, SearchStep, SearchEnd, SearchBegin, WalksCorrect
<1>5. find \in [Readers -> Finds] /\ find[r] \in Finds BY DEF TypeOK, Finds
<1>6. CASE SearchRoot(r) \/ SearchRelative(r) \/ SearchEnd(r)
  <2>1. find'[r].pc # "loop"
    BY <1>5, <1>6 DEF SearchRoot, SearchRelative, SearchEnd, Finds
  <2> QED BY <1>0, <1>4, <2>1 DEF ReaderOK
<1>7. CASE SearchStep(r)
  <2>1. /\ find[r].i \in Nat /\ find[r].i + 1 \in 0..Len(find[r].segs)
        /\ Child(r) = Take(find[r].segs, find[r].i + 1)
    BY <1>7, SearchChild DEF SearchStep
  <2>2. /\ find'[r].segs = find[r].segs /\ find'[r].i = find[r].i + 1
        /\ find'[r].node = Child(r)
    BY <1>5, <1>7 DEF SearchStep, Finds
  <2>3. Child(r) \in DOMAIN data /\ find[r].pc = "loop" BY <1>7 DEF SearchStep
  <2>4. /\ find[r].segs # <<>>
        /\ \A k \in 0..find[r].i : Take(find[r].segs, k) \in DOMAIN data
    BY <2>3 DEF WalksCorrect, OnTheWay
  <2>5. \A k \in 0..(find[r].i + 1) : Take(find[r].segs, k) \in DOMAIN data
    BY <2>1, <2>3, <2>4
  <2>6. Len(find[r].segs) \in Nat BY <1>5, PathsAreSeqs DEF Finds
  <2> QED BY <1>0, <1>4, <2>1, <2>2, <2>4, <2>5, <2>6 DEF ReaderOK, OnTheWay
<1>8. ASSUME NEW segs \in Paths, SearchBegin(r, segs) PROVE ReaderOK(r)'
  <2>1. /\ find'[r].segs = segs /\ find'[r].i = 0 /\ find'[r].node = Root /\ segs # <<>>
    BY <1>5, <1>8 DEF SearchBegin
  <2>2. OnTheWay(segs, 0, Root) BY AtRoot
  <2> QED BY <1>0, <1>4, <2>1, <2>2 DEF ReaderOK, OnTheWay
<1> QED BY <1>6, <1>7, <1>8 DEF SearchBy

(* Every step keeps the walks on their way. *)
LEMMA WalksNext ==
  ASSUME TypeOK, WalksCorrect, [Next]_vars
  PROVE  WalksCorrect'
<1>a. ins \in Inserts BY DEF TypeOK, Inserts
<1> DEFINE InsertOK == ins.pc = "loop" => /\ phase = "setup" /\ ins.data \in Handlers
                                          /\ OnTheWay(ins.segs, ins.i, ins.node)
<1>b. ASSUME UNCHANGED find, phase' = phase \/ phase' = "running", InsertOK'
      PROVE  WalksCorrect'
  <2>1. \A r \in Readers : ReaderOK(r)' BY <1>b, ReaderStays
  <2> QED BY <1>b, <2>1 DEF WalksCorrect, ReaderOK
<1>1. CASE UNCHANGED vars
  <2>1. InsertOK' BY <1>1, InsertStays DEF vars
  <2> QED BY <1>1, <1>b, <2>1 DEF vars
<1>2. ASSUME NEW shape, NEW h, InsertThrows(shape, h) PROVE WalksCorrect'
  <2>1. ins'.pc # "loop" BY <1>a, <1>2 DEF InsertThrows, Inserts
  <2> QED BY <1>2, <1>b, <2>1 DEF InsertThrows
<1>3. ASSUME NEW h \in Handlers, InsertRoot(h) PROVE WalksCorrect'
  <2>1. ins'.pc # "loop" BY <1>a, <1>3 DEF InsertRoot, Inserts
  <2> QED BY <1>3, <1>b, <2>1 DEF InsertRoot
<1>4. ASSUME NEW segs \in Paths, NEW h \in Handlers, InsertBegin(segs, h) PROVE WalksCorrect'
  <2>1. /\ ins'.segs = segs /\ ins'.i = 0 /\ ins'.node = Root /\ ins'.data = h
        /\ phase' = "setup" /\ phase' = phase /\ UNCHANGED <<data, find>>
    BY <1>4 DEF InsertBegin, CanInsert
  <2>2. OnTheWay(segs, 0, Root) BY AtRoot
  <2>3. InsertOK' BY <2>1, <2>2 DEF OnTheWay
  <2> QED BY <1>b, <2>1, <2>3
<1>5. CASE InsertStep
  <2> DEFINE child == Append(ins.node, ins.segs[ins.i + 1])
  <2>1. /\ ins.i \in Nat /\ ins.i + 1 \in 0..Len(ins.segs)
        /\ child = Take(ins.segs, ins.i + 1)
    BY <1>5, InsertChild
  <2>2. /\ ins' = [ins EXCEPT !.i = @ + 1, !.node = child]
        /\ data' = IF child \in DOMAIN data THEN data ELSE Put(data, child, Null)
        /\ UNCHANGED <<phase, find>> /\ ins.pc = "loop"
    BY <1>5 DEF InsertStep
  <2> HIDE DEF child
  <2>3. /\ ins'.segs = ins.segs /\ ins'.i = ins.i + 1 /\ ins'.node = child
        /\ ins'.data = ins.data
    BY <1>a, <2>2 DEF Inserts
  <2>4. child \in DOMAIN data'
    <3>1. DOMAIN Put(data, child, Null) = DOMAIN data \cup {child} BY PutFacts
    <3> QED BY <2>2, <3>1
  <2>5. /\ phase = "setup" /\ ins.data \in Handlers
        /\ \A k \in 0..ins.i : Take(ins.segs, k) \in DOMAIN data
    BY <2>2 DEF WalksCorrect, OnTheWay
  <2>6. \A k \in 0..(ins.i + 1) : Take(ins.segs, k) \in DOMAIN data'
    BY <2>1, <2>4, <2>5, TreeGrows
  <2>7. Len(ins.segs) \in Nat BY <1>a, PathsAreSeqs DEF Inserts
  <2>8. InsertOK' BY <2>1, <2>2, <2>3, <2>5, <2>6, <2>7 DEF OnTheWay
  <2> QED BY <1>b, <2>2, <2>8
<1>6. CASE InsertEnd
  <2>1. ins'.pc # "loop" BY <1>a, <1>6 DEF InsertEnd, Inserts
  <2> QED BY <1>6, <1>b, <2>1 DEF InsertEnd
<1>7. CASE Run
  <2>1. ins'.pc # "loop" BY <1>7 DEF Run
  <2> QED BY <1>7, <1>b, <2>1 DEF Run
<1>8. ASSUME NEW r \in Readers, SearchBy(r) PROVE WalksCorrect' BY <1>8, SearchWalks
<1> QED BY <1>1, <1>2, <1>3, <1>4, <1>5, <1>6, <1>7, <1>8 DEF Next, SearchBy

-----------------------------------------------------------------------------
(* THE TREE *)

(* A registration takes nothing off the way to a path. *)
LEMMA LeadsStays ==
  ASSUME NEW n, Leads(n), DOMAIN reg \subseteq DOMAIN reg'
  PROVE  Leads(n)'
BY DEF Leads

(* Storing a handler at a node of the tree keeps tree and registrations     *)
(* together, if all that leads to the node is in the tree.                 *)
LEMMA StoreHandler ==
  ASSUME TypeOK, TreeCorrect, NEW n \in DOMAIN data, NEW h \in Handlers,
         data' = Put(data, n, h), reg' = Put(reg, n, h),
         \A k \in 0..Len(n) : Take(n, k) \in DOMAIN data
  PROVE  /\ DOMAIN data' = DOMAIN data /\ DOMAIN reg' = DOMAIN reg \cup {n}
         /\ \A x \in DOMAIN data : data'[x] = Registered(x)'
         /\ \A q \in DOMAIN reg' : \A k \in 0..Len(q) : Take(q, k) \in DOMAIN data
<1>1. /\ DOMAIN Put(data, n, h) = DOMAIN data \cup {n} /\ Put(data, n, h)[n] = h
      /\ \A x \in DOMAIN data : x # n => Put(data, n, h)[x] = data[x]
  BY DEF Put
<1>2. /\ DOMAIN Put(reg, n, h) = DOMAIN reg \cup {n} /\ Put(reg, n, h)[n] = h
      /\ \A x \in DOMAIN reg : x # n => Put(reg, n, h)[x] = reg[x]
  BY DEF Put
<1>3. DOMAIN data' = DOMAIN data /\ DOMAIN reg' = DOMAIN reg \cup {n} BY <1>1, <1>2
<1>4. ASSUME NEW x \in DOMAIN data PROVE data'[x] = Registered(x)'
  <2>1. CASE x = n
    <3>1. data'[x] = h /\ x \in DOMAIN reg' /\ reg'[x] = h BY <1>1, <1>2, <1>3, <2>1
    <3> QED BY <3>1 DEF Registered
  <2>2. CASE x # n
    <3>1. data'[x] = data[x] BY <1>1, <2>2
    <3>2. x \in DOMAIN reg' <=> x \in DOMAIN reg BY <1>3, <2>2
    <3>3. x \in DOMAIN reg => reg'[x] = reg[x] BY <1>2, <2>2
    <3>4. data[x] = Registered(x) BY DEF TreeCorrect
    <3> QED BY <3>1, <3>2, <3>3, <3>4 DEF Registered
  <2> QED BY <2>1, <2>2
<1>5. \A q \in DOMAIN reg' : \A k \in 0..Len(q) : Take(q, k) \in DOMAIN data
  BY <1>3 DEF TreeCorrect
<1> QED BY <1>3, <1>4, <1>5

(* The root is at the head of its own path only. *)
LEMMA RootTakes ==
  ASSUME TypeOK, NEW k \in 0..Len(Root)
  PROVE  Take(Root, k) \in DOMAIN data
<1>1. Len(Root) = 0 BY DEF Root
<1>2. k = 0 BY <1>1
<1> QED BY <1>2, TakeNone DEF TypeOK

(* Every step keeps tree and registrations together. *)
LEMMA TreeNext ==
  ASSUME TypeOK, WalksCorrect, TreeCorrect, [Next]_vars
  PROVE  TreeCorrect'
<1>a. ins \in Inserts BY DEF TypeOK, Inserts
<1>b. ASSUME UNCHANGED <<data, reg>>,
             ins.pc # "loop" \/ UNCHANGED ins
      PROVE  TreeCorrect'
  <2>1. \A n \in DOMAIN data : Registered(n)' = Registered(n) BY <1>b DEF Registered
  <2>2. \A n \in DOMAIN data : Leads(n) => Leads(n)' BY <1>b, LeadsStays
  <2> QED BY <1>b, <2>1, <2>2 DEF TreeCorrect
<1>1. CASE UNCHANGED vars BY <1>1, <1>b DEF vars
<1>2. ASSUME NEW shape, NEW h, InsertThrows(shape, h) PROVE TreeCorrect'
  BY <1>2, <1>b DEF InsertThrows, CanInsert
<1>3. ASSUME NEW h \in Handlers, InsertRoot(h) PROVE TreeCorrect'
  <2>1. data' = Put(data, Root, h) /\ reg' = Put(reg, Root, h) /\ ins.pc # "loop"
    BY <1>3 DEF InsertRoot, CanInsert
  <2>2. \A k \in 0..Len(Root) : Take(Root, k) \in DOMAIN data BY RootTakes
  <2>3. Root \in DOMAIN data BY DEF TypeOK
  <2>4. /\ DOMAIN data' = DOMAIN data /\ DOMAIN reg' = DOMAIN reg \cup {Root}
        /\ \A x \in DOMAIN data : data'[x] = Registered(x)'
        /\ \A q \in DOMAIN reg' : \A k \in 0..Len(q) : Take(q, k) \in DOMAIN data
    BY <2>1, <2>2, <2>3, StoreHandler
  <2>5. \A n \in DOMAIN data : n = Root \/ Leads(n) BY <2>1 DEF TreeCorrect
  <2>6. \A n \in DOMAIN data : n = Root \/ Leads(n)' BY <2>4, <2>5, LeadsStays
  <2> QED BY <2>4, <2>6 DEF TreeCorrect
<1>4. ASSUME NEW segs \in Paths, NEW h \in Handlers, InsertBegin(segs, h) PROVE TreeCorrect'
  BY <1>4, <1>b DEF InsertBegin, CanInsert
<1>5. CASE InsertStep
  <2> DEFINE child == Append(ins.node, ins.segs[ins.i + 1])
  <2>1. /\ ins.segs \in Seq(Keys \cup {Blank}) /\ ins.i \in Nat /\ child \in Seq(Keys)
        /\ ins.i + 1 \in 0..Len(ins.segs) /\ child = Take(ins.segs, ins.i + 1)
    BY <1>5, InsertChild
  <2>2. /\ ins' = [ins EXCEPT !.i = @ + 1, !.node = child]
        /\ data' = IF child \in DOMAIN data THEN data ELSE Put(data, child, Null)
        /\ UNCHANGED reg /\ ins.pc = "loop"
    BY <1>5 DEF InsertStep
  <2> HIDE DEF child
  <2>3. ins'.pc = "loop" /\ ins'.segs = ins.segs /\ ins'.i = ins.i + 1
    BY <1>a, <2>2 DEF Inserts
  <2>4. /\ DOMAIN Put(data, child, Null) = DOMAIN data \cup {child}
        /\ Put(data, child, Null)[child] = Null
        /\ \A x \in DOMAIN data : x # child => Put(data, child, Null)[x] = data[x]
    BY DEF Put
  <2>5. DOMAIN data' = DOMAIN data \cup {child} BY <2>2, <2>4
  <2>6. ASSUME NEW n \in DOMAIN data' PROVE data'[n] = Registered(n)'
    <3>1. Registered(n)' = Registered(n) BY <2>2 DEF Registered
    <3>2. CASE n \in DOMAIN data
      <4>1. data'[n] = data[n] BY <2>2, <2>4, <3>2
      <4> QED BY <3>1, <3>2, <4>1 DEF TreeCorrect
    <3>3. CASE n \notin DOMAIN data
      <4>1. n = child /\ data'[n] = Null BY <2>2, <2>4, <2>5, <3>3
      <4>2. ASSUME n \in DOMAIN reg PROVE FALSE
        <5>1. n \in Seq(Keys) /\ Len(n) \in Nat BY <2>1, <4>1
        <5>2. Take(n, Len(n)) = n BY <5>1, TakeAll
        <5>3. Take(n, Len(n)) \in DOMAIN data BY <4>2, <5>1 DEF TreeCorrect
        <5> QED BY <3>3, <5>2, <5>3
      <4> QED BY <3>1, <4>1, <4>2 DEF Registered
    <3> QED BY <3>2, <3>3
  <2>7. ASSUME NEW n \in DOMAIN data'
        PROVE  n = Root \/ Leads(n)' \/ \E k \in 1..(ins.i + 1) : n = Take(ins.segs, k)
    <3>1. CASE n \in DOMAIN data
      <4>1. n = Root \/ Leads(n) \/ \E k \in 1..ins.i : n = Take(ins.segs, k)
        BY <3>1 DEF TreeCorrect
      <4>2. Leads(n) => Leads(n)' BY <2>2, LeadsStays
      <4> QED BY <2>1, <4>1, <4>2
    <3>2. CASE n = child
      <4>1. ins.i + 1 \in 1..(ins.i + 1) BY <2>1
      <4> QED BY <2>1, <3>2, <4>1
    <3> QED BY <2>5, <3>1, <3>2
  <2>8. \A q \in DOMAIN reg' : \A k \in 0..Len(q) : Take(q, k) \in DOMAIN data'
    BY <2>2, <2>5 DEF TreeCorrect
  <2> QED BY <2>3, <2>6, <2>7, <2>8 DEF TreeCorrect
<1>6. CASE InsertEnd
  <2>1. ins.pc = "loop" BY <1>6 DEF InsertEnd
  <2> DEFINE n == ins.node
  <2> DEFINE i == ins.i
  <2> DEFINE segs == ins.segs
  <2>2. segs \in Seq(Keys \cup {Blank}) /\ i \in Nat /\ Len(segs) \in Nat
    BY <1>a, PathsAreSeqs DEF Inserts
  <2>3. /\ i <= Len(segs) /\ n = Take(segs, i) /\ ins.data \in Handlers
        /\ \A k \in 0..i : Take(segs, k) \in DOMAIN data
    BY <2>1 DEF WalksCorrect, OnTheWay
  <2>4. data' = Put(data, n, ins.data) /\ reg' = Put(reg, n, ins.data)
    BY <1>6, <2>3 DEF InsertEnd
  <2>5. \A x \in DOMAIN data : \/ x = Root \/ Leads(x)
                               \/ \E k \in 1..i : x = Take(segs, k)
    BY DEF TreeCorrect
  <2>6. ins'.pc # "loop" BY <1>6, <1>a DEF InsertEnd, Inserts
  <2>7. \A k \in 0..i : Take(n, k) = Take(segs, k)
    BY <2>2, <2>3, TakeTake
  <2>8. Len(n) = i BY <2>2, <2>3, TakeFacts
  <2>9. n \in DOMAIN data BY <2>2, <2>3
  <2>10. \A k \in 0..Len(n) : Take(n, k) \in DOMAIN data BY <2>3, <2>7, <2>8
  <2>11. /\ DOMAIN data' = DOMAIN data /\ DOMAIN reg' = DOMAIN reg \cup {n}
         /\ \A x \in DOMAIN data : data'[x] = Registered(x)'
         /\ \A q \in DOMAIN reg' : \A k \in 0..Len(q) : Take(q, k) \in DOMAIN data
    <3> HIDE DEF n
    <3> QED BY <2>3, <2>4, <2>9, <2>10, StoreHandler
  <2> HIDE DEF n, i, segs
  <2>12. ASSUME NEW x \in DOMAIN data PROVE x = Root \/ Leads(x)'
    <3>1. CASE Leads(x) BY <2>11, <3>1, LeadsStays
    <3>2. ASSUME NEW k \in 1..i, x = Take(segs, k) PROVE Leads(x)'
      <4>1. k \in 0..i /\ k \in 0..Len(segs) BY <2>2, <2>3
      <4>2. Len(x) = k /\ x = Take(n, k) BY <2>2, <2>7, <3>2, <4>1, TakeFacts
      <4>3. n \in DOMAIN reg' /\ Len(x) <= Len(n) BY <2>2, <2>8, <2>11, <4>1, <4>2
      <4> QED BY <4>2, <4>3 DEF Leads
    <3> QED BY <2>5, <3>1, <3>2
  <2> QED BY <2>6, <2>11, <2>12 DEF TreeCorrect
<1>7. CASE Run BY <1>7, <1>b DEF Run
<1>8. ASSUME NEW r \in Readers, SearchBy(r) PROVE TreeCorrect'
  BY <1>8, <1>b DEF SearchBy, SearchRoot, SearchRelative, SearchStep, SearchEnd, SearchBegin
<1> QED BY <1>1, <1>2, <1>3, <1>4, <1>5, <1>6, <1>7, <1>8 DEF Next, SearchBy

-----------------------------------------------------------------------------
(* SEARCHES *)

(* Where the walk of search() stops is the deepest point of the path that  *)
(* leads to a registered one.                                              *)
LEMMA StopsDeepest ==
  ASSUME TypeOK, WalksCorrect, TreeCorrect, NEW r \in Readers, SearchEnd(r)
  PROVE  /\ find[r].i \in 0..Len(find[r].segs)
         /\ IsDeepest(find[r].segs, find[r].i)
<1> DEFINE segs == find[r].segs
<1> DEFINE i == find[r].i
<1>1. find[r].pc = "loop" /\ (~AtEnd(segs, i) => Child(r) \notin DOMAIN data)
  BY DEF SearchEnd
<1>2. segs \in Seq(Keys \cup {Blank}) /\ i \in Nat /\ Len(segs) \in Nat
  BY PathsAreSeqs DEF TypeOK
<1>3. i <= Len(segs) /\ \A k \in 0..i : Take(segs, k) \in DOMAIN data
  BY <1>1 DEF WalksCorrect, OnTheWay
<1>4. ins.pc # "loop" BY <1>1 DEF WalksCorrect
<1>5. ~AtEnd(segs, i) => Child(r) = Take(segs, i + 1) BY <1>1, SearchChild
<1> HIDE DEF segs, i
<1>6. ASSUME i # 0 PROVE Leads(Take(segs, i))
  <2>1. Take(segs, i) \in DOMAIN data BY <1>2, <1>3
  <2>2. Len(Take(segs, i)) = i BY <1>2, <1>3, TakeFacts
  <2>3. Take(segs, i) # Root BY <1>6, <2>2 DEF Root
  <2> QED BY <1>4, <2>1, <2>3 DEF TreeCorrect
<1>7. ASSUME NEW j \in (i + 1)..Len(segs), Leads(Take(segs, j)) PROVE FALSE
  <2>1. j \in 0..Len(segs) /\ i + 1 \in 0..j /\ i < Len(segs) /\ i + 1 \in 1..j BY <1>2
  <2>2. Len(Take(segs, j)) = j /\ Take(segs, j)[i + 1] = segs[i + 1]
    BY <1>2, <2>1, TakeFacts
  <2>3. PICK q \in DOMAIN reg : j <= Len(q) /\ Take(segs, j) = Take(q, j)
    BY <1>7, <2>2 DEF Leads
  <2>4. q \in Seq(Keys) /\ Len(q) \in Nat BY DEF TypeOK
  <2>5. j \in 0..Len(q) /\ i + 1 \in 0..Len(q) /\ i + 1 \in 1..Len(q) BY <1>2, <2>1, <2>3, <2>4
  <2>6. Take(segs, i + 1) = Take(q, i + 1)
    <3>1. Take(Take(segs, j), i + 1) = Take(segs, i + 1) BY <1>2, <2>1, TakeTake
    <3>2. Take(Take(q, j), i + 1) = Take(q, i + 1) BY <2>1, <2>4, <2>5, TakeTake
    <3> QED BY <2>3, <3>1, <3>2
  <2>7. Take(segs, i + 1) \in DOMAIN data BY <2>5, <2>6 DEF TreeCorrect
  <2>8. segs[i + 1] # Blank
    <3>1. Take(q, j)[i + 1] = q[i + 1] BY <2>1, <2>4, <2>5, TakeFacts
    <3>2. q[i + 1] \in Keys BY <2>4, <2>5, ElementOfSeq
    <3> QED BY <2>2, <2>3, <3>1, <3>2, RouterAssumption
  <2>9. ~AtEnd(segs, i) BY <2>1, <2>8 DEF AtEnd
  <2> QED BY <1>1, <1>5, <2>7, <2>9
<1>8. IsDeepest(segs, i) BY <1>6, <1>7 DEF IsDeepest
<1>9. i \in 0..Len(segs) BY <1>2, <1>3
<1> QED BY <1>8, <1>9 DEF segs, i

(* The registrations are what an answer is measured against. *)
LEMMA ExpectedStays ==
  ASSUME NEW segs, NEW result, Expected(segs, result), UNCHANGED reg
  PROVE  Expected(segs, result)'
BY DEF Expected, IsDeepest, Leads, Registered

(* The answer of a search that leaves its loop is the expected one. *)
LEMMA SearchEndCorrect ==
  ASSUME TypeOK, WalksCorrect, TreeCorrect, NEW r \in Readers, SearchEnd(r)
  PROVE  Expected(find[r].segs, IF find[r].node = Root THEN Null ELSE data[find[r].node])
<1> DEFINE segs == find[r].segs
<1> DEFINE i == find[r].i
<1> DEFINE node == find[r].node
<1>1. i \in 0..Len(segs) /\ IsDeepest(segs, i) BY StopsDeepest
<1>2. segs \in Seq(Keys \cup {Blank}) /\ i \in Nat /\ Len(segs) \in Nat
  BY PathsAreSeqs DEF TypeOK
<1>3. segs # <<>> /\ node = Take(segs, i) /\ \A k \in 0..i : Take(segs, k) \in DOMAIN data
  BY DEF WalksCorrect, OnTheWay, SearchEnd
<1> HIDE DEF segs, i, node
<1>4. node \in DOMAIN data BY <1>2, <1>3
<1>5. data[node] = Registered(node) BY <1>4 DEF TreeCorrect
<1>6. node = Root <=> i = 0
  <2>1. i = 0 => node = Root BY <1>3, TakeNone
  <2>2. Len(node) = i BY <1>1, <1>2, <1>3, TakeFacts
  <2>3. node = Root => i = 0 BY <2>2 DEF Root
  <2> QED BY <2>1, <2>3
<1>7. Expected(segs, IF node = Root THEN Null ELSE data[node])
  BY <1>1, <1>3, <1>5, <1>6 DEF Expected
<1> QED BY <1>7 DEF segs, node

(* The answer to a search of "/" is the expected one. *)
LEMMA SearchRootCorrect ==
  ASSUME TypeOK, TreeCorrect
  PROVE  Expected(<<>>, data[Root])
<1>1. Root \in DOMAIN data BY DEF TypeOK
<1>2. data[Root] = Registered(Root) BY <1>1 DEF TreeCorrect
<1>3. Len(<<>>) = 0 /\ 0 \in 0..Len(<<>>) OBVIOUS
<1>4. IsDeepest(<<>>, 0) BY <1>3 DEF IsDeepest
<1>5. Take(<<>>, 0) = Root BY TakeNone
<1> QED BY <1>2, <1>3, <1>4, <1>5 DEF Expected

(* Every step keeps the answers of all searches right. *)
LEMMA SearchNext ==
  ASSUME TypeOK, WalksCorrect, TreeCorrect, SearchCorrect, [Next]_vars
  PROVE  SearchCorrect'
<1>a. find \in [Readers -> Finds] BY DEF TypeOK, Finds
<1>b. ASSUME NEW r \in Readers, find'[r] = find[r], UNCHANGED reg, find[r].pc = "done"
      PROVE  Expected(find[r].segs, find[r].result)'
  <2>1. \A segs, result : Expected(segs, result) => Expected(segs, result)'
    BY <1>b, ExpectedStays
  <2>2. Expected(find[r].segs, find[r].result) BY <1>b DEF SearchCorrect
  <2> QED BY <1>b, <2>1, <2>2
<1>c. ASSUME UNCHANGED <<find, reg>> PROVE SearchCorrect' BY <1>b, <1>c DEF SearchCorrect
<1>d. ASSUME phase = "setup", UNCHANGED find PROVE SearchCorrect'
  BY <1>d DEF WalksCorrect, SearchCorrect
<1>1. CASE UNCHANGED vars BY <1>1, <1>c DEF vars
<1>2. ASSUME NEW shape, NEW h, InsertThrows(shape, h) PROVE SearchCorrect'
  BY <1>2, <1>d DEF InsertThrows, CanInsert
<1>3. ASSUME NEW h \in Handlers, InsertRoot(h) PROVE SearchCorrect'
  BY <1>3, <1>d DEF InsertRoot, CanInsert
<1>4. ASSUME NEW segs \in Paths, NEW h \in Handlers, InsertBegin(segs, h) PROVE SearchCorrect'
  BY <1>4, <1>d DEF InsertBegin, CanInsert
<1>5. CASE InsertStep BY <1>5, <1>c DEF InsertStep
<1>6. CASE InsertEnd
  <2>1. phase = "setup" BY <1>6 DEF InsertEnd, WalksCorrect
  <2> QED BY <1>6, <1>d, <2>1 DEF InsertEnd
<1>7. CASE Run BY <1>7, <1>c DEF Run
<1>8. ASSUME NEW r \in Readers, SearchBy(r) PROVE SearchCorrect'
  <2>1. UNCHANGED reg /\ \A x \in Readers : x # r => find'[x] = find[x]
    BY <1>8, <1>a
    DEF SearchBy, SearchRoot, SearchRelative, SearchStep, SearchEnd, SearchBegin
  <2>2. \A segs, result : Expected(segs, result) => Expected(segs, result)'
    BY <2>1, ExpectedStays
  <2>3. SUFFICES ASSUME find'[r].pc = "done"
                 PROVE  Expected(find[r].segs, find[r].result)'
    BY <1>b, <2>1 DEF SearchCorrect
  <2>4. CASE SearchRoot(r)
    <3>1. find'[r].segs = <<>> /\ find'[r].result = data[Root]
      BY <1>a, <2>4 DEF SearchRoot
    <3> QED BY <2>2, <3>1, SearchRootCorrect
  <2>5. CASE SearchEnd(r)
    <3>1. /\ find'[r].segs = find[r].segs
          /\ find'[r].result = IF find[r].node = Root THEN Null ELSE data[find[r].node]
      BY <1>a, <2>5 DEF SearchEnd, Finds
    <3> QED BY <2>2, <2>5, <3>1, SearchEndCorrect
  <2>6. CASE SearchRelative(r) \/ SearchStep(r) \/ \E segs \in Paths : SearchBegin(r, segs)
    <3>1. SearchRelative(r) => find'[r].pc # "done" BY <1>a DEF SearchRelative
    <3>2. SearchStep(r) => find'[r].pc # "done" BY <1>a DEF SearchStep, Finds
    <3>3. \A segs \in Paths : SearchBegin(r, segs) => find'[r].pc # "done"
      BY <1>a DEF SearchBegin
    <3> QED BY <2>3, <2>6, <3>1, <3>2, <3>3
  <2> QED BY <1>8, <2>4, <2>5, <2>6 DEF SearchBy
<1> QED BY <1>1, <1>2, <1>3, <1>4, <1>5, <1>6, <1>7, <1>8 DEF Next, SearchBy

-----------------------------------------------------------------------------
(* THEOREMS *)

Inv == TypeOK /\ WalksCorrect /\ TreeCorrect /\ SearchCorrect

(* The invariant holds for a new router. *)
LEMMA InvInit == Init => Inv
<1> SUFFICES ASSUME Init PROVE Inv OBVIOUS
<1>1. DOMAIN data = {Root} /\ data[Root] = Null
  <2>1. DOMAIN <<>> = {} OBVIOUS
  <2> QED BY <2>1 DEF Init, Put
<1>2. reg = <<>> /\ DOMAIN reg = {} BY DEF Init
<1>3. <<>> \in Paths /\ Root \in Seq(Keys) /\ Null \in Data BY EmptyPath DEF Root, Data
<1>4. TypeOK
  <2>1. ins \in Inserts BY <1>3 DEF Init, Inserts
  <2>2. find \in [Readers -> Finds] BY <1>3 DEF Init, Finds
  <2>3. data \in [DOMAIN data -> Data]
    <3>1. data = [y \in DOMAIN data |-> data[y]] BY DEF Init, Put
    <3> QED BY <1>1, <1>3, <3>1
  <2>4. reg \in [DOMAIN reg -> Handlers] BY <1>2
  <2>5. Root \in DOMAIN data /\ DOMAIN data \subseteq Seq(Keys) BY <1>1, <1>3
  <2> QED BY <1>2, <2>1, <2>2, <2>3, <2>4, <2>5 DEF Init, TypeOK, Inserts, Finds
<1>5. WalksCorrect BY DEF Init, WalksCorrect
<1>6. TreeCorrect BY <1>1, <1>2 DEF TreeCorrect, Registered
<1>7. SearchCorrect BY DEF Init, SearchCorrect
<1> QED BY <1>4, <1>5, <1>6, <1>7 DEF Inv

(* The invariant always holds. *)
LEMMA InvHolds == Spec => []Inv
<1>1. Inv /\ [Next]_vars => Inv' BY TypeNext, WalksNext, TreeNext, SearchNext DEF Inv
<1> QED BY <1>1, InvInit, PTL DEF Spec

(* insert() and search() of http_router.h keep to their types; above all no *)
(* node is ever made for an empty segment.                                 *)
THEOREM TypeCorrect == Spec => []TypeOK
BY InvHolds, PTL DEF Inv

(* Between any two turns of insert()'s loop the tree of http_router.h holds *)
(* the registered paths and what leads to them, and nothing else.          *)
THEOREM TreeHolds == Spec => []TreeCorrect
BY InvHolds, PTL DEF Inv

(* A walk of insert() or search() is where its segments have led it. *)
THEOREM WalksHold == Spec => []WalksCorrect
BY InvHolds, PTL DEF Inv

(* search() of http_router.h answers, for every tree that insert() can      *)
(* build and every path, with the handler the registrations call for.      *)
THEOREM SearchHolds == Spec => []SearchCorrect
BY InvHolds, PTL DEF Inv
=============================================================================
