---------------------------- MODULE MCHttpSession ----------------------------
(* HttpSession on small instances: the sessions and their requests for TLC. *)
EXTENDS HttpSession

CONSTANTS s1, s2

(* s1 is asked twice on its connection, any other session once. *)
Requests == [s \in Sessions |-> IF s = s1 THEN 2 ELSE 1]
Single == [s \in Sessions |-> 1]
=============================================================================
