------------------------------ MODULE MCActivities ------------------------------
(* Activities for TLC: a new catalogue, then an application with a schedule. *)
EXTENDS Activities, TLC

Instances ==
  { [ready |-> FALSE, edits |-> 2, appointments |-> 0, requests |-> 0],   \* first policy, first version
    [ready |-> TRUE,  edits |-> 3, appointments |-> 0, requests |-> 0],   \* concurrent editors
    [ready |-> TRUE,  edits |-> 1, appointments |-> 2, requests |-> 1],   \* an executor or the policy changes
    [ready |-> TRUE,  edits |-> 0, appointments |-> 3, requests |-> 2] }  \* a long schedule

PeopleSymmetry == Permutations(Admins) \cup Permutations(Executors)
=============================================================================
