---------------------------- MODULE HttpConnection ----------------------------
(***************************************************************************)
(* What the server promises the peer of a persistent connection: requests  *)
(* are taken one at a time, a request is answered at most once and before  *)
(* the next one is taken, the answers come in the order of the requests,   *)
(* and nothing is sent on a connection that was closed.                    *)
(***************************************************************************)
EXTENDS Naturals, Sequences

CONSTANTS Conns   \* the connections

VARIABLES
  state,    \* "none", "idle", "busy" (a request is being served), "closed"
  taken,    \* number of requests taken from the connection
  replies   \* for each reply, the request it answers

vars == <<state, taken, replies>>

Init ==
  /\ state = [c \in Conns |-> "none"]
  /\ taken = [c \in Conns |-> 0]
  /\ replies = [c \in Conns |-> <<>>]

Open(c) ==
  /\ state[c] = "none"
  /\ state' = [state EXCEPT ![c] = "idle"]
  /\ UNCHANGED <<taken, replies>>

Take(c) ==
  /\ state[c] = "idle"
  /\ state' = [state EXCEPT ![c] = "busy"]
  /\ taken' = [taken EXCEPT ![c] = @ + 1]
  /\ UNCHANGED replies

Reply(c, next) ==
  /\ state[c] = "busy"
  /\ state' = [state EXCEPT ![c] = next]
  /\ replies' = [replies EXCEPT ![c] = Append(@, taken[c])]
  /\ UNCHANGED taken

Close(c) ==
  /\ state[c] \in {"idle", "busy"}
  /\ state' = [state EXCEPT ![c] = "closed"]
  /\ UNCHANGED <<taken, replies>>

Next ==
  \E c \in Conns :
    Open(c) \/ Take(c) \/ Reply(c, "idle") \/ Reply(c, "closed") \/ Close(c)

Spec == Init /\ [][Next]_vars
=============================================================================
