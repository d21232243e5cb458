---------------------------- MODULE MCHttpRouter ----------------------------
(* HttpRouter on small instances: constants for TLC. *)
EXTENDS HttpRouter, TLC

CONSTANTS a, b, h1, h2, r1

(* Segment names are interchangeable, and so are handlers. *)
Symmetry == Permutations({a, b}) \cup Permutations({h1, h2})
=============================================================================
