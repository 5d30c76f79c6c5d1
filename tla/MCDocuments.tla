------------------------------ MODULE MCDocuments ------------------------------
(* Documents for TLC.  Requests of one kind are interchangeable, but the   *)
(* run also checks liveness, for which TLC cannot reduce by symmetry.      *)
EXTENDS Documents
=============================================================================
