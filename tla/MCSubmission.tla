----------------------------- MODULE MCSubmission -----------------------------
(* FamilyFlow and Submission for TLC: requests of one kind are interchangeable. *)
EXTENDS FamilyFlow, TLC

RequestSymmetry == Permutations(Requests) \cup Permutations(Admins) \cup Permutations(Loads)
=============================================================================
