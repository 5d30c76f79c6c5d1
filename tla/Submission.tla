------------------------------ MODULE Submission ------------------------------
(***************************************************************************)
(* The application of Forms together with the document it must bring: the  *)
(* catalogue of requirement versions, the version an application is pinned *)
(* to when its draft is created, the status of the document (as in         *)
(* DocumentStatus) and the readiness a submission evaluates                *)
(* (packages/database/src/documents.ts).  The page of the family, which    *)
(* says whether it can be sent, is in FamilyFlow.                          *)
(*                                                                         *)
(* One requirement is modelled.  A file is told apart by its date of issue;*)
(* time is counted in half days, and a date is the half day it begins with.*)
(***************************************************************************)
EXTENDS Forms

CONSTANTS
  Admins,        \* requests to the catalogue that can be in progress at once
  MaxVersions,   \* bound: versions of the requirement
  Rules,         \* what a version asks for
  Asked,         \* the answer that makes a conditional version applicable
  ConditionField,
  Files,         \* dates of issue of the files a family has
  MaxAge,        \* maxAgeDays, in half days
  MaxTime        \* bound

(* "aged": MAX_AGE_DAYS; "conditional": depends on a field of this form;   *)
(* "foreign": on a field of another form; "sensitive": a category that is  *)
(* not enabled.                                                            *)
ASSUME CatalogueAssumption ==
  /\ Rules \subseteq {"plain", "aged", "conditional", "foreign", "sensitive"}
  /\ Asked \in Values /\ ConditionField \in Fields
  /\ MaxVersions \in Nat \ {0}
  /\ \A f \in Files : f \in Nat /\ f % 2 = 0
  /\ MaxAge \in Nat /\ MaxTime \in Nat

Versions == 1 .. MaxVersions

VARIABLES
  requirement,  \* document_requirement_versions: lifecycle and rule
  admin,        \* the request of each administrator to the catalogue
  pinned,       \* the version the application's submission is of
  status, current, arriving,  \* of the document (DocumentStatus)
  evaluated,    \* what the readiness of each submission request found
  evidence,     \* documents of the snapshot
  time

Document == INSTANCE DocumentStatus
documentVars == <<status, current, arriving>>
catalogueVars == <<requirement, admin>>
allVars == <<vars, catalogueVars, pinned, documentVars, evaluated, evidence, time>>

NoRequest == [op |-> "none", version |-> 1]

PublishedForm(visit) ==
  /\ lifecycle = "PUBLISHED"
  /\ content = [k \in Fields |-> "required"]
  /\ session = visit
  /\ assigned = FALSE /\ assisted = FALSE
  /\ appStatus = "NONE" /\ answers = NoAnswers /\ snapshots = {}
  /\ tx = [p \in Requests |-> Idle]

OpenDraft ==
  /\ lifecycle = "ARCHIVED"
  /\ content = [k \in Fields |-> "required"]
  /\ session = "CLOSED"
  /\ assigned = TRUE /\ assisted = FALSE
  /\ appStatus = "DRAFT" /\ answers = NoAnswers /\ snapshots = {}
  /\ tx = [p \in Requests |-> Idle]

Requirements(first, rest) == [v \in Versions |-> IF v = 1 THEN first ELSE rest]
Requirement(state, rule) == [lifecycle |-> state, rule |-> rule]

(* A form nobody has built yet and a requirement that is no longer in force; *)
(* a published form and a requirement whose first version is in force, and   *)
(* its next one to come, or nobody edits the catalogue while an operator     *)
(* assists the family; or a draft that a family filled in after its form and *)
(* the version it is pinned to were archived.                                *)
InitSubmission ==
  /\ \E r \in Rules \ {"sensitive"} :
       \/ /\ Init
          /\ requirement = Requirements(Requirement("ARCHIVED", r), Requirement("ARCHIVED", r))
          /\ pinned = {}
       \/ /\ PublishedForm("CLOSED")
          /\ requirement = Requirements(Requirement("PUBLISHED", r), Requirement("NONE", r))
          /\ pinned = {}
       \/ /\ PublishedForm("NONE")
          /\ requirement = Requirements(Requirement("PUBLISHED", r), Requirement("ARCHIVED", r))
          /\ pinned = {}
       \/ /\ OpenDraft
          /\ r # "foreign"
          /\ requirement = Requirements(Requirement("ARCHIVED", r), Requirement("ARCHIVED", r))
          /\ pinned = {1}
  /\ admin = [a \in Admins |-> NoRequest]
  /\ Document!InitStatus
  /\ evaluated = [p \in Requests |-> {}]
  /\ evidence = {}
  /\ time = 0

Published == {v \in Versions : requirement[v].lifecycle = "PUBLISHED"}

-----------------------------------------------------------------------------
(* The catalogue of requirements *)

(* A condition names a field of a form that has been published. *)
ReferencesAreValid(rule) ==
  rule = "conditional" => lifecycle # "DRAFT" /\ content[ConditionField] # "absent"

CreateRequirementVersion(v, rule) ==
  /\ requirement[v].lifecycle = "NONE"
  /\ \A u \in Versions : u < v => requirement[u].lifecycle # "NONE"
  /\ ReferencesAreValid(rule)
  /\ requirement' = [requirement EXCEPT ![v] = [lifecycle |-> "DRAFT", rule |-> rule]]
  /\ UNCHANGED <<vars, admin, pinned, documentVars, evaluated, evidence, time>>

(* updateRequirementVersion reads the draft ... *)
ReadDraft(a, v) ==
  /\ admin[a] = NoRequest
  /\ requirement[v].lifecycle = "DRAFT"
  /\ admin' = [admin EXCEPT ![a] = [op |-> "update", version |-> v]]
  /\ UNCHANGED <<vars, requirement, pinned, documentVars, evaluated, evidence, time>>

UpdateRequirementVersion_NoHistoryGuard(a, rule) ==
  /\ admin[a].op = "update"
  /\ ReferencesAreValid(rule)
  /\ requirement' = [requirement EXCEPT ![admin[a].version].rule = rule]
  /\ admin' = [admin EXCEPT ![a] = NoRequest]
  /\ UNCHANGED <<vars, pinned, documentVars, evaluated, evidence, time>>
(* ... and writes it by id; the history trigger looks at the row again. *)
UpdateRequirementVersion(a, rule) ==
  /\ admin[a].op = "update"
  /\ requirement[admin[a].version].lifecycle = "DRAFT"
  /\ ReferencesAreValid(rule)
  /\ requirement' = [requirement EXCEPT ![admin[a].version].rule = rule]
  /\ admin' = [admin EXCEPT ![a] = NoRequest]
  /\ UNCHANGED <<vars, pinned, documentVars, evaluated, evidence, time>>

(* publishRequirementVersion validates the draft it reads ... *)
ValidateRequirement(a, v) ==
  /\ admin[a] = NoRequest
  /\ requirement[v].lifecycle = "DRAFT"
  /\ requirement[v].rule # "sensitive"
  /\ admin' = [admin EXCEPT ![a] = [op |-> "publish", version |-> v]]
  /\ UNCHANGED <<vars, requirement, pinned, documentVars, evaluated, evidence, time>>

(* ... and in the same transaction archives the version in force. *)
PublishRequirementVersion(a) ==
  /\ admin[a].op = "publish"
  /\ requirement[admin[a].version].lifecycle = "DRAFT"
  /\ requirement' = [v \in Versions |->
       IF v = admin[a].version THEN [requirement[v] EXCEPT !.lifecycle = "PUBLISHED"]
       ELSE IF v \in Published THEN [requirement[v] EXCEPT !.lifecycle = "ARCHIVED"]
       ELSE requirement[v]]
  /\ admin' = [admin EXCEPT ![a] = NoRequest]
  /\ UNCHANGED <<vars, pinned, documentVars, evaluated, evidence, time>>

ArchiveRequirementVersion(v) ==
  /\ v \in Published
  /\ requirement' = [requirement EXCEPT ![v].lifecycle = "ARCHIVED"]
  /\ UNCHANGED <<vars, admin, pinned, documentVars, evaluated, evidence, time>>

GiveUp(a) ==
  /\ admin[a] # NoRequest
  /\ admin' = [admin EXCEPT ![a] = NoRequest]
  /\ UNCHANGED <<vars, requirement, pinned, documentVars, evaluated, evidence, time>>

Catalogue ==
  \/ \E v \in Versions, r \in Rules : CreateRequirementVersion(v, r)
  \/ \E v \in Versions : ArchiveRequirementVersion(v)
  \/ \E a \in Admins :
       \/ \E v \in Versions : ReadDraft(a, v) \/ ValidateRequirement(a, v)
       \/ \E r \in Rules : UpdateRequirementVersion(a, r)
       \/ PublishRequirementVersion(a) \/ GiveUp(a)

-----------------------------------------------------------------------------
(* The application *)

PinDocumentRequirements_Unchecked == pinned' = Published
(* pinDocumentRequirements: what is in force now, if the form of the draft *)
(* can answer its conditions.                                              *)
PinDocumentRequirements ==
  /\ \A v \in Published : requirement[v].rule # "foreign"
  /\ pinned' = Published

(* assignOfferingVersion refuses a form the requirements do not fit. *)
AssignForm ==
  /\ AssignOfferingVersion
  /\ \A v \in Published : requirement[v].rule # "foreign"
  /\ UNCHANGED <<catalogueVars, pinned, documentVars, evaluated, evidence, time>>

CreateApplication ==
  /\ CreateAssistedDraft \/ \E p \in Requests : CreateDraft(p)
  /\ PinDocumentRequirements
  /\ UNCHANGED <<catalogueVars, documentVars, evaluated, evidence, time>>

(* A file arrives, is inspected, reviewed or no longer asked for. *)
ProcessDocument ==
  /\ pinned # {}
  /\ Document!NextStatus
  /\ UNCHANGED <<vars, catalogueVars, pinned, evaluated, evidence, time>>

Applicable(v, answered) ==
  requirement[v].rule = "conditional" => answered[ConditionField] = Asked

Today == time - (time % 2)

(* The age of the file in days, on the day (UTC) of the submission. *)
IsCurrentOn(v) ==
  requirement[v].rule = "aged" => \E f \in current : f <= Today /\ Today - f <= MaxAge

Satisfied(v) ==
  \/ status = "EXENTO"
  \/ status \in {"EN_REVISION", "ACEPTADO"} /\ current # {} /\ IsCurrentOn(v)

ServerReady(answered) == \A v \in pinned : Applicable(v, answered) => Satisfied(v)

(* evaluateDocumentSubmissionReadiness reads answers and documents, after   *)
(* the application is locked and its answers were read for the snapshot.    *)
EvaluateDocuments(p) ==
  /\ At(p, "submit", "locked") /\ evaluated[p] = {}
  /\ ServerReady(answers)
  /\ evaluated' = [evaluated EXCEPT ![p] =
       {[applicable |-> {v \in pinned : Applicable(v, answers)},
         status |-> status, file |-> current, on |-> Today]}]
  /\ UNCHANGED <<vars, catalogueVars, pinned, documentVars, evidence, time>>

Submit(p) ==
  /\ evaluated[p] # {}
  /\ CommitSubmission(p)
  /\ evidence' = evaluated[p]
  /\ evaluated' = [evaluated EXCEPT ![p] = {}]
  /\ UNCHANGED <<catalogueVars, pinned, documentVars, time>>

RollBack(p) ==
  /\ Abort(p)
  /\ evaluated' = [evaluated EXCEPT ![p] = {}]
  /\ UNCHANGED <<catalogueVars, pinned, documentVars, evidence, time>>

(* The other operations of Forms do not touch the documents. *)
OtherStep ==
  /\ \/ ArchiveVersion \/ StartSession \/ CloseSession
     \/ \E p \in Requests :
          \/ WriteField(p) \/ CommitField(p) \/ ValidateVersion(p) \/ PublishVersion(p)
          \/ CheckOffering(p) \/ CheckSession(p) \/ WriteAnswer(p) \/ CommitAnswer(p)
          \/ LockSession(p) \/ LockApplication(p)
  /\ UNCHANGED <<catalogueVars, pinned, documentVars, evaluated, evidence, time>>

(* The clock matters once there is a date of issue. *)
PassTime ==
  /\ time < MaxTime /\ current # {}
  /\ time' = time + 1
  /\ UNCHANGED <<vars, catalogueVars, pinned, documentVars, evaluated, evidence>>

NextSubmission ==
  \/ Catalogue \/ AssignForm \/ CreateApplication \/ ProcessDocument
  \/ \E p \in Requests : EvaluateDocuments(p) \/ Submit(p) \/ RollBack(p)
  \/ OtherStep \/ PassTime

SubmissionSpec == InitSubmission /\ [][NextSubmission]_allVars

-----------------------------------------------------------------------------
(* Properties *)

(* The rule an application was pinned to, as it reads today, is one its own *)
(* form can answer, and one version of the requirement is pinned, whoever   *)
(* edits, publishes, archives and assigns in between.                       *)
PinnedRuleIsAnswerable ==
  /\ \A v \in pinned : requirement[v].rule # "foreign"
  /\ \A u, v \in pinned : u = v

(* What a family sent satisfies, for ever, the rule it was asked to satisfy *)
(* as that rule reads in the catalogue: neither a late edit of the draft    *)
(* nor a later version changes what was asked.                              *)
SubmittedMeetsItsRule ==
  \A e \in evidence : \A v \in e.applicable :
    \/ e.status = "EXENTO"
    \/ /\ e.status \in {"EN_REVISION", "ACEPTADO"}
       /\ \E f \in e.file : requirement[v].rule = "aged" => f <= e.on /\ e.on - f <= MaxAge

-----------------------------------------------------------------------------
(* What the code does not keep (README, known deviations) *)

(* A submission brings the documents its own answers ask for. *)
DocumentsFitTheAnswers ==
  \A e \in evidence, s \in snapshots : e.applicable = {v \in pinned : Applicable(v, s)}

(* The document still is as it was evaluated when the submission commits. *)
ReadyAtCommit == [][snapshots' # snapshots => ServerReady(answers)]_allVars

(* The version in force is one that publication accepts. *)
PublishedIsLawful == \A v \in Published : requirement[v].rule # "sensitive"
=============================================================================
