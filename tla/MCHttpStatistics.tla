--------------------------- MODULE MCHttpStatistics ---------------------------
(* Instances of HttpStatistics for TLC: sessions are interchangeable. *)
EXTENDS HttpStatistics, TLC

Symmetry == Permutations(Sessions)
=============================================================================
