---------------------------- MODULE MCHttpExchange ----------------------------
(* HttpExchange on small instances: the constants are given in the .cfg. *)
EXTENDS HttpExchange
=============================================================================
