------------------------------ MODULE HttpRouter ------------------------------
(***************************************************************************)
(* The path tree of src/http_router.h.  A node is named by the keys on the *)
(* way to it from the root, so the tree is one function from its nodes to  *)
(* their data_: DOMAIN data is the set of nodes, data[n] = Null a node     *)
(* that only leads to others.                                              *)
(*                                                                         *)
(* insert() and search() walk the tree one segment at a time; each turn of *)
(* their loops is a step here.  registerHandler() is not thread safe and   *)
(* is called before run(), searches run on the IO threads after it.        *)
(*                                                                         *)
(* A path is the sequence of segments boost::urls makes of it: none for    *)
(* "/", and an empty one, Blank, where two slashes meet or one is last.    *)
(***************************************************************************)
EXTENDS Naturals, Sequences

CONSTANTS
  Keys,        \* segments that are not empty
  Blank,       \* the empty segment
  Handlers,    \* the handlers an application registers
  Null,        \* nullptr
  Readers,     \* the IO threads that search
  MaxSegs,     \* bound: segments of a path
  MaxInserts   \* bound: calls of insert()

(* What the proofs assume of the constants. *)
ASSUME RouterAssumption ==
  /\ Blank \notin Keys
  /\ Null \notin Handlers
  /\ MaxSegs \in Nat
  /\ MaxInserts \in Nat

VARIABLES
  phase,   \* "setup" before run(), "running" after
  data,    \* the tree: data_ of each node
  ins,     \* the insert() in progress
  calls,   \* calls of insert() so far
  find,    \* the search() of each reader
  reg      \* history: the handler last registered for each path

vars == <<phase, data, ins, calls, find, reg>>

(* A single slash is the path with no segments, so <<Blank>> does not occur. *)
Paths ==
  {p \in UNION {[1..n -> Keys \cup {Blank}] : n \in 0..MaxSegs} : p # <<Blank>>}

(* The first i segments of p. *)
Take(p, i) == SubSeq(p, 1, i)

(* f with the value v at x, which may be new. *)
Put(f, x, v) == [y \in DOMAIN f \cup {x} |-> IF y = x THEN v ELSE f[y]]

-----------------------------------------------------------------------------
Root == <<>>

(* Mutant: the walk goes on through an empty segment. *)
AtEndBlind(segs, i) == i = Len(segs)

(* Both loops stop at the end of the segments and at an empty one. *)
AtEnd(segs, i) == i < Len(segs) => segs[i + 1] = Blank

(* HttpRouter(): a root without data. *)
Init ==
  /\ phase = "setup"
  /\ data = Put(<<>>, Root, Null)
  /\ ins = [pc |-> "idle", segs |-> <<>>, i |-> 0, node |-> Root, data |-> Null]
  /\ calls = 0
  /\ find = [r \in Readers |-> [pc |-> "idle", segs |-> <<>>, i |-> 0,
                                node |-> Root, result |-> Null]]
  /\ reg = <<>>

-----------------------------------------------------------------------------
CanInsert == phase = "setup" /\ ins.pc # "loop" /\ calls < MaxInserts

(* insert() throws: no handler, no leading slash, ".." in the path, or a path *)
(* that boost::urls does not accept.                                       *)
InsertThrows(shape, h) ==
  /\ CanInsert
  /\ h = Null \/ shape \in {"relative", "dots", "malformed"}
  /\ ins' = [ins EXCEPT !.pc = "threw"]
  /\ calls' = calls + 1
  /\ UNCHANGED <<phase, data, find, reg>>

(* insert("/", h): the root takes the handler. *)
InsertRoot(h) ==
  /\ CanInsert
  /\ data' = Put(data, Root, h)
  /\ ins' = [ins EXCEPT !.pc = "idle"]
  /\ calls' = calls + 1
  /\ reg' = Put(reg, Root, h)
  /\ UNCHANGED <<phase, find>>

(* insert() of any other path up to its loop. *)
InsertBegin(segs, h) ==
  /\ CanInsert
  /\ segs # <<>>
  /\ ins' = [pc |-> "loop", segs |-> segs, i |-> 0, node |-> Root, data |-> h]
  /\ calls' = calls + 1
  /\ UNCHANGED <<phase, data, find, reg>>

(* One turn of the loop: go down to the child, made first if need be. *)
InsertStep ==
  /\ ins.pc = "loop"
  /\ ~AtEnd(ins.segs, ins.i)
  /\ LET child == Append(ins.node, ins.segs[ins.i + 1])
     IN  /\ data' = IF child \in DOMAIN data THEN data ELSE Put(data, child, Null)
         /\ ins' = [ins EXCEPT !.i = @ + 1, !.node = child]
  /\ UNCHANGED <<phase, calls, find, reg>>

(* Mutant: an existing handler is not overwritten. *)
InsertEndKeeps ==
  /\ ins.pc = "loop"
  /\ AtEnd(ins.segs, ins.i)
  /\ data' = IF data[ins.node] = Null THEN Put(data, ins.node, ins.data) ELSE data
  /\ reg' = Put(reg, Take(ins.segs, ins.i), ins.data)
  /\ ins' = [ins EXCEPT !.pc = "idle"]
  /\ UNCHANGED <<phase, calls, find>>

(* After the loop the handler is stored where the walk stopped. *)
InsertEnd ==
  /\ ins.pc = "loop"
  /\ AtEnd(ins.segs, ins.i)
  /\ data' = Put(data, ins.node, ins.data)
  /\ reg' = Put(reg, Take(ins.segs, ins.i), ins.data)
  /\ ins' = [ins EXCEPT !.pc = "idle"]
  /\ UNCHANGED <<phase, calls, find>>

Run ==
  /\ phase = "setup"
  /\ ins.pc # "loop"
  /\ phase' = "running"
  /\ UNCHANGED <<data, ins, calls, find, reg>>

-----------------------------------------------------------------------------
(* search() of "/", or of the empty string: the root's handler. *)
SearchRoot(r) ==
  /\ phase = "running"
  /\ find[r].pc # "loop"
  /\ find' = [find EXCEPT ![r] = [pc |-> "done", segs |-> <<>>, i |-> 0, node |-> Root,
                                  result |-> data[Root]]]
  /\ UNCHANGED <<phase, data, ins, calls, reg>>

(* search() of a string that does not start with '/'. *)
SearchRelative(r) ==
  /\ phase = "running"
  /\ find[r].pc # "loop"
  /\ find' = [find EXCEPT ![r] = [pc |-> "refused", segs |-> <<>>, i |-> 0, node |-> Root,
                                  result |-> Null]]
  /\ UNCHANGED <<phase, data, ins, calls, reg>>

(* search() of any other path up to its loop. *)
SearchBegin(r, segs) ==
  /\ phase = "running"
  /\ find[r].pc # "loop"
  /\ segs # <<>>
  /\ find' = [find EXCEPT ![r] = [pc |-> "loop", segs |-> segs, i |-> 0, node |-> Root,
                                  result |-> Null]]
  /\ UNCHANGED <<phase, data, ins, calls, reg>>

(* The child the next segment of r's path leads to. *)
Child(r) == Append(find[r].node, find[r].segs[find[r].i + 1])

(* One turn of the loop: go down to the child. *)
SearchStep(r) ==
  /\ find[r].pc = "loop"
  /\ ~AtEnd(find[r].segs, find[r].i)
  /\ Child(r) \in DOMAIN data
  /\ find' = [find EXCEPT ![r].i = @ + 1, ![r].node = Child(r)]
  /\ UNCHANGED <<phase, data, ins, calls, reg>>

(* Mutant: the root answers for every path that has no node of its own. *)
SearchEndAtRoot(r) ==
  /\ find[r].pc = "loop"
  /\ ~AtEnd(find[r].segs, find[r].i) => Child(r) \notin DOMAIN data
  /\ find' = [find EXCEPT ![r].pc = "done", ![r].result = data[find[r].node]]
  /\ UNCHANGED <<phase, data, ins, calls, reg>>

(* The loop is left: the node reached answers, except the root. *)
SearchEnd(r) ==
  /\ find[r].pc = "loop"
  /\ ~AtEnd(find[r].segs, find[r].i) => Child(r) \notin DOMAIN data
  /\ find' = [find EXCEPT ![r].pc = "done",
                          ![r].result = IF find[r].node = Root THEN Null
                                        ELSE data[find[r].node]]
  /\ UNCHANGED <<phase, data, ins, calls, reg>>

Next ==
  \/ \E shape \in {"relative", "dots", "malformed"}, h \in Handlers : InsertThrows(shape, h)
  \/ InsertThrows("absolute", Null)
  \/ \E h \in Handlers : InsertRoot(h)
  \/ \E segs \in Paths, h \in Handlers : InsertBegin(segs, h)
  \/ InsertStep
  \/ InsertEnd
  \/ Run
  \/ \E r \in Readers : SearchRoot(r) \/ SearchRelative(r) \/ SearchStep(r) \/ SearchEnd(r)
  \/ \E r \in Readers, segs \in Paths : SearchBegin(r, segs)

Spec == Init /\ [][Next]_vars

-----------------------------------------------------------------------------
(* PROPERTIES *)

Data == Handlers \cup {Null}

(* Types of the variables: above all, the tree has no node under an empty   *)
(* segment.                                                                *)
TypeOK ==
  /\ phase \in {"setup", "running"}
  /\ Root \in DOMAIN data /\ DOMAIN data \subseteq Seq(Keys)
  /\ data \in [DOMAIN data -> Data]
  /\ ins \in [pc : {"idle", "threw", "loop"}, segs : Paths, i : Nat, node : Seq(Keys),
              data : Data]
  /\ calls \in Nat
  /\ find \in [Readers -> [pc : {"idle", "loop", "done", "refused"}, segs : Paths, i : Nat,
                           node : Seq(Keys), result : Data]]
  /\ DOMAIN reg \subseteq Seq(Keys)
  /\ reg \in [DOMAIN reg -> Handlers]

(* p is on the way to a registered path. *)
Leads(p) == \E q \in DOMAIN reg : Len(p) <= Len(q) /\ p = Take(q, Len(p))

(* The handler registered for p itself. *)
Registered(p) == IF p \in DOMAIN reg THEN reg[p] ELSE Null

(* What search() returns, told from the registrations alone: the handler of *)
(* the deepest point of the path that is on the way to a registered path,  *)
(* and none if none was registered for that very point; "/" is found only  *)
(* by itself.                                                              *)
IsDeepest(segs, k) ==
  /\ k = 0 \/ Leads(Take(segs, k))
  /\ \A j \in (k + 1)..Len(segs) : ~Leads(Take(segs, j))

Expected(segs, result) ==
  \E k \in 0..Len(segs) :
    /\ IsDeepest(segs, k)
    /\ result = IF segs # <<>> /\ k = 0 THEN Null ELSE Registered(Take(segs, k))

(* The walk down the tree finds what the registrations call for: whatever  *)
(* their order, whatever they overwrite, and for every path asked for.     *)
SearchCorrect ==
  \A r \in Readers : find[r].pc = "done" => Expected(find[r].segs, find[r].result)

(* The tree holds the registered paths and what leads to them, each with    *)
(* the handler last registered there, also between two turns of insert().  *)
TreeCorrect ==
  /\ \A n \in DOMAIN data : data[n] = Registered(n)
  /\ \A n \in DOMAIN data :
       n = Root \/ Leads(n) \/ (ins.pc = "loop" /\ \E k \in 1..ins.i : n = Take(ins.segs, k))
  /\ \A q \in DOMAIN reg : \A k \in 0..Len(q) : Take(q, k) \in DOMAIN data

(* "The longest matching algorithm is used for path search": the handler    *)
(* registered for the longest registered prefix of the path answers.  "/"  *)
(* is left out, the tests want it to match by itself only.                 *)
Matches(segs) == {k \in 1..Len(segs) : Take(segs, k) \in DOMAIN reg}

LongestMatch ==
  \A r \in Readers :
    find[r].pc = "done" =>
      \A k \in Matches(find[r].segs) :
        (\A j \in Matches(find[r].segs) : j <= k)
          => find[r].result = reg[Take(find[r].segs, k)]
=============================================================================
