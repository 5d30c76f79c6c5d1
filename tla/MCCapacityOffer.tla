--------------------------- MODULE MCCapacityOffer ---------------------------
(* CapacityOffer for TLC: API sessions are interchangeable. *)
EXTENDS CapacityOffer, TLC

SessionSymmetry == Permutations(Sessions)
=============================================================================
