--------------------------- MODULE MCCommunications ---------------------------
(* Communications for TLC: its workers are interchangeable. *)
EXTENDS Communications, TLC

WorkerSymmetry == Permutations(Workers)
=============================================================================
