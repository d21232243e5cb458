------------------------------ MODULE MCHttpLog -------------------------------
(* HttpLog on small instances: the threads for TLC. *)
EXTENDS HttpLog

CONSTANTS t1, t2
=============================================================================
