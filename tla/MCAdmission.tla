------------------------------ MODULE MCAdmission ------------------------------
EXTENDS Admission

CONSTANTS a1, a2, t1, t2, s1, s2

(* A student born on 29 February comes of age between the two days. *)
Dates == <<<<2026, 2, 28>>, <<2026, 3, 1>>>>
Births == {<<2008, 2, 29>>, <<2015, 5, 1>>}

(* The instances: a catalogue from nothing, one whose process is published, *)
(* two offerings that are drafts with a form and a capacity, two that are   *)
(* published and edited while the family applies, a family with two         *)
(* applications, and one application whose story is long.                   *)
Instances == {
  [start |-> "empty", edits |-> 3, looks |-> 0, policies |-> 0, drafts |-> 0, declarations |-> 0, reviews |-> 0, births |-> 0],
  [start |-> "process", edits |-> 3, looks |-> 0, policies |-> 0, drafts |-> 0, declarations |-> 0, reviews |-> 0, births |-> 0],
  [start |-> "draft", edits |-> 2, looks |-> 3, policies |-> 0, drafts |-> 0, declarations |-> 0, reviews |-> 0, births |-> 0],
  [start |-> "published", edits |-> 1, looks |-> 2, policies |-> 0, drafts |-> 2, declarations |-> 0, reviews |-> 0, births |-> 0],
  [start |-> "published", edits |-> 0, looks |-> 0, policies |-> 0, drafts |-> 2, declarations |-> 2, reviews |-> 1, births |-> 0],
  [start |-> "published", edits |-> 0, looks |-> 0, policies |-> 2, drafts |-> 1, declarations |-> 1, reviews |-> 2, births |-> 0],
  [start |-> "published", edits |-> 0, looks |-> 0, policies |-> 0, drafts |-> 1, declarations |-> 2, reviews |-> 3, births |-> 1]}

TwoApplications == {i \in Instances : i.drafts = 2 /\ i.reviews > 0}
=============================================================================
