----------------------------- MODULE MCHttpServer -----------------------------
(* HttpServer on small instances: the model values for TLC. *)
EXTENDS HttpServer

CONSTANTS c1, c2, s1, s2
=============================================================================
