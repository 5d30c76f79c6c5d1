-------------------------- MODULE Submission_proofs --------------------------
(***************************************************************************)
(* Proofs about Forms, Submission and FamilyFlow for every set of fields,  *)
(* answers, requests, administrators, rules, files and loads.  The         *)
(* inductive invariant of the first two has                                *)
(* three parts: what a request in progress knows of its session and of the *)
(* answers (FormInv), that a requirement version that was ever in force    *)
(* keeps its rule and only one is in force (CatalogueInv), and that what a *)
(* submission evaluated meets the rules it found (EvidenceInv).            *)
(***************************************************************************)
EXTENDS FamilyFlow, TLAPS

Txs == [op : {"none", "edit", "publish", "create", "save", "submit"},
        step : {"idle", "written", "checked", "sessionLocked", "locked"},
        field : Fields, value : Values \cup Present \cup {"none"},
        assisted : BOOLEAN, payload : Answers]

(* What is written is an answer, or the description of a field. *)
WritesFit ==
  \A p \in Requests :
    /\ At(p, "save", "written") => tx[p].value \in Values \cup {"none"}
    /\ At(p, "edit", "written") => tx[p].value \in Present

FormInv == TypeOK /\ WritesFit /\ SessionOutlivesSubmission /\ NewAnswersWait

(* The versions that are or were in force. *)
History == {v \in Versions : requirement[v].lifecycle \in {"PUBLISHED", "ARCHIVED"}}

CatalogueInv ==
  /\ requirement \in [Versions -> [lifecycle : {"NONE", "DRAFT", "PUBLISHED", "ARCHIVED"}, rule : Rules]]
  /\ admin \in [Admins -> [op : {"none", "update", "publish"}, version : Versions]]
  /\ \A u, v \in Published : u = v
  /\ pinned \subseteq History
  /\ PinnedRuleIsAnswerable

DocumentStatuses == {"PENDIENTE", "CARGADO", "EN_REVISION", "ACEPTADO", "OBSERVADO", "EXENTO"}
Evidences == [applicable : SUBSET Versions, status : DocumentStatuses, file : SUBSET Files, on : Int]

Meets(e) ==
  /\ e.applicable \subseteq History
  /\ \A v \in e.applicable :
       \/ e.status = "EXENTO"
       \/ /\ e.status \in {"EN_REVISION", "ACEPTADO"}
          /\ \E f \in e.file : requirement[v].rule = "aged" => f <= e.on /\ e.on - f <= MaxAge

EvidenceInv ==
  /\ status \in DocumentStatuses /\ current \subseteq Files /\ arriving \subseteq Files
  /\ time \in Nat
  /\ evidence \subseteq Evidences /\ \A e \in evidence : Meets(e)
  /\ evaluated \in [Requests -> SUBSET Evidences]
  /\ \A p \in Requests : \A e \in evaluated[p] : Meets(e)

IInv == FormInv /\ CatalogueInv /\ EvidenceInv

-----------------------------------------------------------------------------
LEMMA IdleType == Idle \in Txs /\ NoAnswers \in Answers
<1>1. (CHOOSE k \in Fields : TRUE) \in Fields
  BY CatalogueAssumption
<1>2. NoAnswers \in Answers
  BY DEF NoAnswers, Answers
<1> QED BY <1>1, <1>2 DEF Idle, Txs

LEMMA IdleFields == Idle.step = "idle" /\ Idle.op = "none" /\ Idle.assisted = FALSE
BY DEF Idle

LEMMA InitHolds == InitSubmission => IInv
<1> SUFFICES ASSUME InitSubmission PROVE IInv
  OBVIOUS
<1>1. FormInv
  <2>1. /\ lifecycle \in {"DRAFT", "PUBLISHED", "ARCHIVED"} /\ content \in [Fields -> {"absent", "required"}]
        /\ assigned \in BOOLEAN /\ appStatus \in {"NONE", "DRAFT"} /\ answers = NoAnswers /\ snapshots = {}
        /\ assisted = FALSE /\ session \in {"NONE", "CLOSED"} /\ tx = [p \in Requests |-> Idle]
    BY DEF InitSubmission, Init, PublishedForm, OpenDraft
  <2>2. TypeOK
    BY <2>1, IdleType DEF TypeOK, Txs, Present
  <2> QED BY <2>1, <2>2, IdleFields DEF FormInv, WritesFit, SessionOutlivesSubmission, NewAnswersWait, At
<1>2. CatalogueInv
  <2>1. PICK r \in Rules, a \in {"ARCHIVED", "PUBLISHED"}, b \in {"ARCHIVED", "NONE"} :
          requirement = [v \in Versions |-> IF v = 1 THEN Requirement(a, r) ELSE Requirement(b, r)]
    BY DEF InitSubmission, Requirements
  <2>2. \A v \in Versions : v # 1 => requirement[v].lifecycle # "PUBLISHED"
    BY <2>1 DEF Requirement
  <2>3. requirement \in [Versions -> [lifecycle : {"NONE", "DRAFT", "PUBLISHED", "ARCHIVED"}, rule : Rules]]
    BY <2>1 DEF Requirement
  <2>4. \A v \in Published : v = 1
    BY <2>2 DEF Published
  <2>5. NoRequest \in [op : {"none", "update", "publish"}, version : Versions]
    BY CatalogueAssumption DEF NoRequest, Versions
  <2>6. admin = [x \in Admins |-> NoRequest]
    BY DEF InitSubmission
  <2>7. pinned \subseteq History /\ PinnedRuleIsAnswerable
    <3>1. CASE pinned = {}
      BY <3>1 DEF PinnedRuleIsAnswerable
    <3>2. CASE pinned # {}
      <4>1. pinned = {1} /\ 1 \in Versions
        BY <3>2, CatalogueAssumption DEF InitSubmission, Versions
      <4>2. requirement[1].lifecycle = "ARCHIVED" /\ requirement[1].rule # "foreign"
        BY <3>2, <4>1 DEF InitSubmission, Requirements, Requirement
      <4> QED BY <4>1, <4>2 DEF History, PinnedRuleIsAnswerable
    <3> QED BY <3>1, <3>2
  <2> QED BY <2>3, <2>4, <2>5, <2>6, <2>7 DEF CatalogueInv
<1>3. EvidenceInv
  BY DEF InitSubmission, Document!InitStatus, EvidenceInv, DocumentStatuses
<1> QED BY <1>1, <1>2, <1>3 DEF IInv

-----------------------------------------------------------------------------
(* The form and the application *)

(* A step of one request that changes neither answers nor the session. *)
LEMMA RequestKeeps ==
  ASSUME FormInv, NEW p \in Requests, NEW t \in Txs, tx' = [tx EXCEPT ![p] = t],
         t.op = "save" /\ t.step = "written" => t.value \in Values \cup {"none"},
         t.op = "edit" /\ t.step = "written" => t.value \in Present,
         t.assisted /\ t.step \in {"sessionLocked", "locked"} => session = "ACTIVE",
         t.op = "submit" /\ t.step = "locked" => t.payload = answers,
         UNCHANGED <<answers, session>>
  PROVE  tx' \in [Requests -> Txs] /\ WritesFit' /\ SessionOutlivesSubmission' /\ NewAnswersWait'
<1> USE DEF FormInv
<1>1. tx \in [Requests -> Txs]
  BY DEF TypeOK, Txs
<1>2. \A q \in Requests : tx'[q] = IF q = p THEN t ELSE tx[q]
  BY <1>1
<1>3. tx' \in [Requests -> Txs]
  BY <1>1
<1>4. WritesFit'
  BY <1>2 DEF WritesFit, At
<1>5. SessionOutlivesSubmission'
  BY <1>2 DEF SessionOutlivesSubmission
<1>6. NewAnswersWait'
  BY <1>2 DEF NewAnswersWait, At
<1> QED BY <1>3, <1>4, <1>5, <1>6

LEMMA LeaveKeeps ==
  ASSUME FormInv, NEW p \in Requests, Leave(p), UNCHANGED <<answers, session>>
  PROVE  tx' \in [Requests -> Txs] /\ WritesFit' /\ SessionOutlivesSubmission' /\ NewAnswersWait'
BY IdleType, IdleFields, RequestKeeps DEF Leave

(* Steps that end a request, or belong to none. *)
LEMMA LeavingKeeps ==
  ASSUME FormInv, NEW p \in Requests,
         CommitField(p) \/ PublishVersion(p) \/ CreateDraft(p) \/ CommitSubmission(p) \/ Abort(p)
  PROVE  FormInv'
<1> USE DEF FormInv, formVars, applicationVars
<1>1. Leave(p) /\ UNCHANGED <<answers, session>>
  BY DEF CommitField, PublishVersion, CreateDraft, CommitSubmission, Abort
<1>2. tx' \in [Requests -> Txs] /\ WritesFit' /\ SessionOutlivesSubmission' /\ NewAnswersWait'
  BY <1>1, LeaveKeeps
<1>3. TypeOK'
  <2>1. CASE CommitField(p)
    <3>1. tx[p].value \in Present BY <2>1 DEF CommitField, WritesFit
    <3>2. content' \in [Fields -> Present \cup {"absent"}]
      BY <2>1, <3>1 DEF CommitField, TypeOK
    <3> QED BY <1>2, <2>1, <3>2 DEF CommitField, TypeOK, Txs
  <2>2. CASE PublishVersion(p)
    BY <1>2, <2>2 DEF PublishVersion, TypeOK, Txs
  <2>3. CASE CreateDraft(p)
    BY <1>2, <2>3 DEF CreateDraft, TypeOK, Txs
  <2>4. CASE CommitSubmission(p)
    <3>1. tx[p].payload \in Answers BY DEF TypeOK
    <3>2. snapshots' \in {{}} \cup {{s} : s \in Answers} /\ snapshots' # {} /\ appStatus' = "SUBMITTED"
      BY <2>4, <3>1 DEF CommitSubmission
    <3> QED BY <1>2, <2>4, <3>2 DEF CommitSubmission, TypeOK, Txs
  <2>5. CASE Abort(p)
    BY <1>2, <2>5 DEF Abort, TypeOK, Txs
  <2> QED BY <2>1, <2>2, <2>3, <2>4, <2>5
<1> QED BY <1>2, <1>3

LEMMA SharedStepKeeps ==
  ASSUME FormInv,
         ArchiveVersion \/ AssignOfferingVersion \/ CreateAssistedDraft \/ StartSession \/ CloseSession
           \/ UNCHANGED vars
  PROVE  FormInv'
<1> USE DEF FormInv, formVars, applicationVars, vars
<1>1. UNCHANGED <<answers, tx>>
  BY DEF ArchiveVersion, AssignOfferingVersion, CreateAssistedDraft, StartSession, CloseSession
<1>2. TypeOK'
  BY DEF ArchiveVersion, AssignOfferingVersion, CreateAssistedDraft, StartSession, CloseSession, TypeOK
<1>3. WritesFit' /\ NewAnswersWait'
  BY <1>1 DEF WritesFit, NewAnswersWait, At
<1>4. SessionOutlivesSubmission'
  <2>1. CASE CloseSession BY <1>1, <2>1 DEF CloseSession, SessionFree, SessionOutlivesSubmission
  <2>2. CASE StartSession BY <1>1, <2>2 DEF StartSession, SessionOutlivesSubmission
  <2>3. CASE session' = session BY <1>1, <2>3 DEF SessionOutlivesSubmission
  <2> QED BY <2>1, <2>2, <2>3 DEF ArchiveVersion, AssignOfferingVersion, CreateAssistedDraft
<1> QED BY <1>2, <1>3, <1>4

(* Steps that begin a request or carry it on. *)
LEMMA BeginningKeeps ==
  ASSUME FormInv, NEW p \in Requests,
         WriteField(p) \/ ValidateVersion(p) \/ CheckOffering(p) \/ CheckSession(p) \/ LockSession(p)
           \/ WriteAnswer(p) \/ LockApplication(p)
  PROVE  FormInv'
<1> USE DEF FormInv, formVars, applicationVars
<1>1. UNCHANGED <<lifecycle, content, assigned, appStatus, answers, snapshots, assisted, session>>
  BY DEF WriteField, ValidateVersion, CheckOffering, CheckSession, LockSession, WriteAnswer, LockApplication
<1>2. tx[p] \in Txs /\ answers \in Answers
  BY DEF TypeOK, Txs
<1>3. PICK t \in Txs :
        /\ tx' = [tx EXCEPT ![p] = t]
        /\ t.op = "save" /\ t.step = "written" => t.value \in Values \cup {"none"}
        /\ t.op = "edit" /\ t.step = "written" => t.value \in Present
        /\ t.assisted /\ t.step \in {"sessionLocked", "locked"} => session = "ACTIVE"
        /\ t.op = "submit" /\ t.step = "locked" => t.payload = answers
  <2>1. CASE WriteField(p)
    <3>1. PICK k \in Fields, v \in Present :
            tx' = [tx EXCEPT ![p] = [Idle EXCEPT !.op = "edit", !.step = "written", !.field = k, !.value = v]]
      BY <2>1 DEF WriteField
    <3> DEFINE t == [Idle EXCEPT !.op = "edit", !.step = "written", !.field = k, !.value = v]
    <3>2. t \in Txs /\ t.op = "edit" /\ t.step = "written" /\ t.value = v
      BY IdleType DEF Txs
    <3> HIDE DEF t
    <3> QED BY <3>1, <3>2 DEF t
  <2>2. CASE ValidateVersion(p)
    <3> DEFINE t == [Idle EXCEPT !.op = "publish", !.step = "checked"]
    <3>1. t \in Txs /\ t.step = "checked" BY IdleType DEF Txs
    <3>2. tx' = [tx EXCEPT ![p] = t] BY <2>2 DEF ValidateVersion
    <3> HIDE DEF t
    <3> QED BY <3>1, <3>2
  <2>3. CASE CheckOffering(p)
    <3> DEFINE t == [Idle EXCEPT !.op = "create", !.step = "checked"]
    <3>1. t \in Txs /\ t.step = "checked" BY IdleType DEF Txs
    <3>2. tx' = [tx EXCEPT ![p] = t] BY <2>3 DEF CheckOffering
    <3> HIDE DEF t
    <3> QED BY <3>1, <3>2
  <2>4. CASE CheckSession(p)
    <3> DEFINE t == [Idle EXCEPT !.op = "save", !.step = "checked", !.assisted = TRUE]
    <3>1. t \in Txs /\ t.step = "checked" BY IdleType DEF Txs
    <3>2. tx' = [tx EXCEPT ![p] = t] BY <2>4 DEF CheckSession
    <3> HIDE DEF t
    <3> QED BY <3>1, <3>2
  <2>5. CASE LockSession(p)
    <3> DEFINE t == [Idle EXCEPT !.op = "submit", !.step = "sessionLocked", !.assisted = TRUE]
    <3>1. t \in Txs /\ t.step = "sessionLocked" BY IdleType DEF Txs
    <3>2. tx' = [tx EXCEPT ![p] = t] /\ session = "ACTIVE" BY <2>5 DEF LockSession
    <3> HIDE DEF t
    <3> QED BY <3>1, <3>2
  <2>6. CASE WriteAnswer(p)
    <3>1. PICK k \in Fields, v \in Values \cup {"none"} :
            tx' = [tx EXCEPT ![p].op = "save", ![p].step = "written", ![p].field = k, ![p].value = v]
      BY <2>6 DEF WriteAnswer
    <3> DEFINE t == [tx[p] EXCEPT !.op = "save", !.step = "written", !.field = k, !.value = v]
    <3>2. t \in Txs /\ t.op = "save" /\ t.step = "written" /\ t.value = v
      BY <1>2 DEF Txs
    <3>3. tx' = [tx EXCEPT ![p] = t] BY <3>1
    <3> HIDE DEF t
    <3> QED BY <3>2, <3>3
  <2>7. CASE LockApplication(p)
    <3> DEFINE t == [tx[p] EXCEPT !.op = "submit", !.step = "locked", !.payload = answers]
    <3>1. t \in Txs /\ t.op = "submit" /\ t.step = "locked" /\ t.payload = answers /\ t.assisted = tx[p].assisted
      BY <1>2 DEF Txs
    <3>2. tx' = [tx EXCEPT ![p] = t] BY <2>7 DEF LockApplication
    <3>3. tx[p].assisted => session = "ACTIVE"
      BY <2>7, IdleFields DEF LockApplication, At, SessionOutlivesSubmission
    <3> HIDE DEF t
    <3> QED BY <3>1, <3>2, <3>3
  <2> QED BY <2>1, <2>2, <2>3, <2>4, <2>5, <2>6, <2>7
<1>4. tx' \in [Requests -> Txs] /\ WritesFit' /\ SessionOutlivesSubmission' /\ NewAnswersWait'
  BY <1>1, <1>3, RequestKeeps
<1>5. TypeOK'
  BY <1>1, <1>4 DEF TypeOK, Txs
<1> QED BY <1>4, <1>5

(* A new answer waits for a submission; a change of one is in its snapshot *)
(* already, with the value it had.                                         *)
LEMMA CommitAnswerKeeps == ASSUME FormInv, NEW p \in Requests, CommitAnswer(p) PROVE FormInv'
<1> DEFINE k == tx[p].field
           v == tx[p].value
<1> USE DEF FormInv, formVars
<1>1. /\ answers' = [answers EXCEPT ![k] = v] /\ tx' = [tx EXCEPT ![p] = Idle]
      /\ answers[k] = "none" => ApplicationFree
      /\ UNCHANGED <<lifecycle, content, assigned, appStatus, snapshots, assisted, session>>
  BY DEF CommitAnswer, Leave
<1>2. k \in Fields /\ v \in Values \cup {"none"}
  BY DEF TypeOK, CommitAnswer, WritesFit
<1>3. tx \in [Requests -> Txs] /\ answers \in Answers
  BY DEF TypeOK, Txs
<1> HIDE DEF k, v
<1>4. \A q \in Requests : tx'[q] = IF q = p THEN Idle ELSE tx[q]
  BY <1>1, <1>3
<1>5. answers' \in Answers /\ \A j \in Fields : answers'[j] = IF j = k THEN v ELSE answers[j]
  BY <1>1, <1>2, <1>3 DEF Answers
<1>6. TypeOK'
  BY <1>1, <1>3, <1>5, IdleType DEF TypeOK, Txs
<1>7. WritesFit' /\ SessionOutlivesSubmission'
  BY <1>1, <1>4, IdleFields DEF WritesFit, SessionOutlivesSubmission, At
<1>8. NewAnswersWait'
  <2> SUFFICES ASSUME NEW q \in Requests, NEW j \in Fields, At(q, "submit", "locked")',
                      tx'[q].payload[j] = "none"
               PROVE  answers'[j] = "none"
    BY DEF NewAnswersWait, At
  <2>1. q # p /\ At(q, "submit", "locked") /\ tx[q].payload[j] = "none"
    BY <1>4, IdleFields DEF At
  <2>2. answers[j] = "none"
    BY <2>1 DEF NewAnswersWait
  <2>3. answers[k] # "none"
    BY <1>1, <2>1 DEF ApplicationFree
  <2> QED BY <1>5, <2>2, <2>3
<1> QED BY <1>6, <1>7, <1>8

LEMMA FormStep == FormInv /\ [NextSubmission]_allVars => FormInv'
<1> SUFFICES ASSUME FormInv, [NextSubmission]_allVars PROVE FormInv'
  OBVIOUS
<1>1. CASE UNCHANGED vars
  BY <1>1, SharedStepKeeps
<1>2. CASE Catalogue \/ ProcessDocument \/ PassTime \/ UNCHANGED allVars
  <2>1. UNCHANGED vars
    BY <1>2 DEF Catalogue, CreateRequirementVersion, ArchiveRequirementVersion, ReadDraft, ValidateRequirement,
                UpdateRequirementVersion, PublishRequirementVersion, GiveUp, ProcessDocument, PassTime, allVars
  <2> QED BY <1>1, <2>1
<1>3. CASE AssignForm \/ CreateApplication
  BY <1>3, SharedStepKeeps, LeavingKeeps DEF AssignForm, CreateApplication
<1>4. ASSUME NEW p \in Requests, EvaluateDocuments(p) \/ Submit(p) \/ RollBack(p) PROVE FormInv'
  BY <1>1, <1>4, LeavingKeeps DEF EvaluateDocuments, Submit, RollBack
<1>5. CASE OtherStep
  BY <1>5, SharedStepKeeps, LeavingKeeps, BeginningKeeps, CommitAnswerKeeps DEF OtherStep
<1> QED BY <1>2, <1>3, <1>4, <1>5 DEF NextSubmission

-----------------------------------------------------------------------------
(* The catalogue of requirements *)

(* A version that was ever in force stays so, with its rule. *)
HistoryStays ==
  \A v \in History : v \in History' /\ requirement'[v].rule = requirement[v].rule

RequirementRows == [lifecycle : {"NONE", "DRAFT", "PUBLISHED", "ARCHIVED"}, rule : Rules]
AdminRows == [op : {"none", "update", "publish"}, version : Versions]

VersionsStay ==
  /\ requirement' \in [Versions -> RequirementRows]
  /\ HistoryStays
  /\ \A u, v \in Published' : u = v

(* One version changes: a draft its rule, a version in force to archived,  *)
(* one that was not there to a draft.                                      *)
LEMMA OneVersionChanges ==
  ASSUME CatalogueInv, NEW w \in Versions, NEW row \in RequirementRows,
         requirement' = [requirement EXCEPT ![w] = row],
         row.lifecycle # "PUBLISHED",
         w \in History => row.lifecycle = "ARCHIVED" /\ row.rule = requirement[w].rule
  PROVE  VersionsStay
<1>1. requirement \in [Versions -> RequirementRows] /\ \A u, v \in Published : u = v
  BY DEF CatalogueInv, RequirementRows
<1>2. \A v \in Versions : requirement'[v] = IF v = w THEN row ELSE requirement[v]
  BY <1>1
<1>3. requirement' \in [Versions -> RequirementRows]
  BY <1>1
<1>4. HistoryStays
  BY <1>2 DEF HistoryStays, History
<1>5. Published' \subseteq Published
  BY <1>2 DEF Published
<1> QED BY <1>1, <1>3, <1>4, <1>5 DEF VersionsStay

LEMMA CatalogueStepKeeps ==
  ASSUME CatalogueInv, Catalogue
  PROVE  CatalogueInv' /\ HistoryStays
<1>1. /\ requirement \in [Versions -> RequirementRows] /\ admin \in [Admins -> AdminRows]
      /\ \A u, v \in Published : u = v
      /\ pinned \subseteq History /\ PinnedRuleIsAnswerable
  BY DEF CatalogueInv, RequirementRows, AdminRows
<1>2. UNCHANGED pinned
  BY DEF Catalogue, CreateRequirementVersion, ArchiveRequirementVersion, ReadDraft, ValidateRequirement,
         UpdateRequirementVersion, PublishRequirementVersion, GiveUp
<1>3. SUFFICES VersionsStay /\ admin' \in [Admins -> AdminRows]
  <2>1. ASSUME HistoryStays PROVE pinned' \subseteq History' /\ PinnedRuleIsAnswerable'
    BY <1>1, <1>2, <2>1 DEF HistoryStays, PinnedRuleIsAnswerable
  <2> QED BY <2>1 DEF CatalogueInv, RequirementRows, AdminRows, VersionsStay
<1>4. NoRequest \in AdminRows
  BY CatalogueAssumption DEF NoRequest, Versions, AdminRows
<1>5. ASSUME UNCHANGED requirement PROVE VersionsStay
  BY <1>1, <1>5 DEF VersionsStay, HistoryStays, History, Published
<1>6. ASSUME NEW v \in Versions, NEW r \in Rules, CreateRequirementVersion(v, r)
      PROVE  VersionsStay /\ admin' \in [Admins -> AdminRows]
  <2>1. /\ requirement' = [requirement EXCEPT ![v] = [lifecycle |-> "DRAFT", rule |-> r]]
        /\ requirement[v].lifecycle = "NONE" /\ UNCHANGED admin
    BY <1>6 DEF CreateRequirementVersion
  <2>2. PICK row \in RequirementRows : row = [lifecycle |-> "DRAFT", rule |-> r]
    BY DEF RequirementRows
  <2>3. row.lifecycle = "DRAFT" /\ requirement' = [requirement EXCEPT ![v] = row] /\ v \notin History
    BY <2>1, <2>2 DEF History
  <2> QED BY <1>1, <2>1, <2>3, OneVersionChanges
<1>7. ASSUME NEW v \in Versions, ArchiveRequirementVersion(v)
      PROVE  VersionsStay /\ admin' \in [Admins -> AdminRows]
  <2>1. requirement' = [requirement EXCEPT ![v].lifecycle = "ARCHIVED"] /\ UNCHANGED admin
    BY <1>7 DEF ArchiveRequirementVersion
  <2>2. requirement[v] \in RequirementRows
    BY <1>1
  <2>3. PICK row \in RequirementRows : row = [requirement[v] EXCEPT !.lifecycle = "ARCHIVED"]
    BY <2>2 DEF RequirementRows
  <2>4. row.lifecycle = "ARCHIVED" /\ row.rule = requirement[v].rule
    BY <2>2, <2>3 DEF RequirementRows
  <2>5. requirement' = [requirement EXCEPT ![v] = row]
    BY <2>1, <2>3
  <2> QED BY <1>1, <2>1, <2>4, <2>5, OneVersionChanges
<1>8. ASSUME NEW a \in Admins
      PROVE  [admin EXCEPT ![a] = NoRequest] \in [Admins -> AdminRows]
  BY <1>1, <1>4
<1>9. ASSUME NEW a \in Admins, NEW v \in Versions, ReadDraft(a, v) \/ ValidateRequirement(a, v)
      PROVE  VersionsStay /\ admin' \in [Admins -> AdminRows]
  <2>1. UNCHANGED requirement
    BY <1>9 DEF ReadDraft, ValidateRequirement
  <2>2. PICK op \in {"update", "publish"} : admin' = [admin EXCEPT ![a] = [op |-> op, version |-> v]]
    BY <1>9 DEF ReadDraft, ValidateRequirement
  <2>3. [op |-> op, version |-> v] \in AdminRows
    BY DEF AdminRows
  <2> QED BY <1>1, <1>5, <2>1, <2>2, <2>3
<1>10. ASSUME NEW a \in Admins, GiveUp(a)
       PROVE  VersionsStay /\ admin' \in [Admins -> AdminRows]
  BY <1>5, <1>8, <1>10 DEF GiveUp
<1>11. ASSUME NEW a \in Admins, NEW r \in Rules, UpdateRequirementVersion(a, r)
       PROVE  VersionsStay /\ admin' \in [Admins -> AdminRows]
  <2>1. admin[a].version \in Versions
    BY <1>1 DEF AdminRows
  <2>2. PICK w \in Versions : w = admin[a].version
    BY <2>1
  <2>3. /\ requirement' = [requirement EXCEPT ![w].rule = r] /\ admin' = [admin EXCEPT ![a] = NoRequest]
        /\ requirement[w].lifecycle = "DRAFT"
    BY <1>11, <2>2 DEF UpdateRequirementVersion
  <2>4. requirement[w] \in RequirementRows
    BY <1>1
  <2>5. PICK row \in RequirementRows : row = [requirement[w] EXCEPT !.rule = r]
    BY <2>4 DEF RequirementRows
  <2>6. row.lifecycle = "DRAFT" /\ w \notin History
    BY <2>3, <2>4, <2>5 DEF RequirementRows, History
  <2>7. requirement' = [requirement EXCEPT ![w] = row]
    BY <2>3, <2>5
  <2> QED BY <1>8, <2>3, <2>6, <2>7, OneVersionChanges
<1>12. ASSUME NEW a \in Admins, PublishRequirementVersion(a)
       PROVE  VersionsStay /\ admin' \in [Admins -> AdminRows]
  <2>1. admin[a].version \in Versions
    BY <1>1 DEF AdminRows
  <2>2. PICK w \in Versions : w = admin[a].version
    BY <2>1
  <2>3. /\ requirement[w].lifecycle = "DRAFT" /\ admin' = [admin EXCEPT ![a] = NoRequest]
        /\ requirement' = [v \in Versions |->
             IF v = w THEN [requirement[v] EXCEPT !.lifecycle = "PUBLISHED"]
             ELSE IF v \in Published THEN [requirement[v] EXCEPT !.lifecycle = "ARCHIVED"]
             ELSE requirement[v]]
    BY <1>12, <2>2 DEF PublishRequirementVersion
  <2>4. ASSUME NEW v \in Versions
        PROVE  /\ requirement'[v] \in RequirementRows
               /\ requirement'[v].rule = requirement[v].rule
               /\ v \in History => v \in History'
               /\ v # w => requirement'[v].lifecycle # "PUBLISHED"
    <3>1. requirement[v] \in RequirementRows
      BY <1>1
    <3>2. CASE v = w
      <4>1. requirement'[v] = [requirement[v] EXCEPT !.lifecycle = "PUBLISHED"]
        BY <2>3, <3>2
      <4> QED BY <3>1, <3>2, <4>1 DEF RequirementRows, History
    <3>3. CASE v # w /\ v \in Published
      <4>1. requirement'[v] = [requirement[v] EXCEPT !.lifecycle = "ARCHIVED"]
        BY <2>3, <3>3
      <4> QED BY <3>1, <3>3, <4>1 DEF RequirementRows, History
    <3>4. CASE v # w /\ v \notin Published
      <4>1. requirement'[v] = requirement[v]
        BY <2>3, <3>4
      <4> QED BY <3>1, <3>4, <4>1 DEF History, Published
    <3> QED BY <3>2, <3>3, <3>4
  <2>5. requirement' \in [Versions -> RequirementRows]
    BY <2>3, <2>4
  <2>6. HistoryStays
    BY <2>4 DEF HistoryStays, History
  <2>7. \A u, v \in Published' : u = v
    BY <2>4 DEF Published
  <2> QED BY <1>8, <2>3, <2>5, <2>6, <2>7 DEF VersionsStay
<1> QED BY <1>6, <1>7, <1>9, <1>10, <1>11, <1>12 DEF Catalogue

(* A draft is pinned to the version in force, if there is one. *)
LEMMA PinningKeeps ==
  ASSUME CatalogueInv, PinDocumentRequirements, UNCHANGED catalogueVars
  PROVE  CatalogueInv' /\ HistoryStays
<1>1. UNCHANGED <<requirement, admin>> /\ pinned' = Published
  BY DEF PinDocumentRequirements, catalogueVars
<1>2. Published' = Published /\ History' = History
  BY <1>1 DEF Published, History
<1>3. Published \subseteq History
  BY DEF Published, History
<1>4. PinnedRuleIsAnswerable'
  BY <1>1 DEF PinnedRuleIsAnswerable, PinDocumentRequirements, CatalogueInv
<1> QED BY <1>1, <1>2, <1>3, <1>4 DEF CatalogueInv, HistoryStays

LEMMA CatalogueFrame ==
  ASSUME CatalogueInv, UNCHANGED <<catalogueVars, pinned>>
  PROVE  CatalogueInv' /\ HistoryStays
<1>1. UNCHANGED <<requirement, admin, pinned>>
  BY DEF catalogueVars
<1>2. Published' = Published /\ History' = History
  BY <1>1 DEF Published, History
<1> QED BY <1>1, <1>2 DEF CatalogueInv, PinnedRuleIsAnswerable, HistoryStays

LEMMA CatalogueStep ==
  ASSUME CatalogueInv, [NextSubmission]_allVars
  PROVE  CatalogueInv' /\ HistoryStays
<1>1. CASE Catalogue
  BY <1>1, CatalogueStepKeeps
<1>2. CASE CreateApplication
  <2>1. PinDocumentRequirements /\ UNCHANGED catalogueVars
    BY <1>2 DEF CreateApplication
  <2> QED BY <2>1, PinningKeeps
<1>3. CASE UNCHANGED <<catalogueVars, pinned>>
  BY <1>3, CatalogueFrame
<1> QED
  BY <1>1, <1>2, <1>3 DEF NextSubmission, AssignForm, ProcessDocument, EvaluateDocuments, Submit, RollBack,
     OtherStep, PassTime, allVars

-----------------------------------------------------------------------------
(* What a submission evaluated *)

LEMMA MeetsStays ==
  ASSUME HistoryStays, NEW e \in Evidences, Meets(e)
  PROVE  Meets(e)'
BY DEF Meets, HistoryStays

(* What the readiness finds meets the rules it reads. *)
LEMMA ReadinessMeets ==
  ASSUME CatalogueInv, EvidenceInv, ServerReady(answers)
  PROVE  \E e \in Evidences :
           /\ e = [applicable |-> {v \in pinned : Applicable(v, answers)},
                   status |-> status, file |-> current, on |-> Today]
           /\ Meets(e)
<1>1. Today \in Int
  BY DEF EvidenceInv, Today
<1>2. pinned \subseteq History /\ History \subseteq Versions
  BY DEF CatalogueInv, History
<1>3. PICK rules \in SUBSET Versions : rules = {v \in pinned : Applicable(v, answers)}
  BY <1>2
<1>4. PICK day \in Int : day = Today
  BY <1>1
<1>5. PICK e \in Evidences : e = [applicable |-> rules, status |-> status, file |-> current, on |-> day]
  BY DEF EvidenceInv, Evidences
<1>6. e.applicable = rules /\ e.status = status /\ e.file = current /\ e.on = day
  BY <1>5
<1>7. ASSUME NEW v \in rules
      PROVE  \/ status = "EXENTO"
             \/ /\ status \in {"EN_REVISION", "ACEPTADO"}
                /\ \E f \in current : requirement[v].rule = "aged" => f <= day /\ day - f <= MaxAge
  <2>1. Satisfied(v)
    BY <1>3 DEF ServerReady
  <2> QED BY <1>4, <2>1 DEF Satisfied, IsCurrentOn
<1>8. Meets(e)
  BY <1>2, <1>3, <1>6, <1>7 DEF Meets
<1> QED BY <1>3, <1>4, <1>5, <1>8

LEMMA DocumentKeeps ==
  ASSUME EvidenceInv, Document!NextStatus
  PROVE  status' \in DocumentStatuses /\ current' \subseteq Files /\ arriving' \subseteq Files
BY DEF EvidenceInv, Document!NextStatus, Document!Receive, Document!Approve, Document!Block,
       Document!Decide, Document!Exempt, DocumentStatuses

LEMMA EvidenceStep ==
  ASSUME CatalogueInv, EvidenceInv, HistoryStays, [NextSubmission]_allVars
  PROVE  EvidenceInv'
<1>1. /\ status \in DocumentStatuses /\ current \subseteq Files /\ arriving \subseteq Files
      /\ time \in Nat
      /\ evidence \subseteq Evidences /\ evaluated \in [Requests -> SUBSET Evidences]
  BY DEF EvidenceInv
<1>2. \A e \in evidence : Meets(e)'
  BY MeetsStays DEF EvidenceInv
<1>3. \A q \in Requests : \A e \in evaluated[q] : Meets(e)'
  BY <1>1, MeetsStays DEF EvidenceInv
<1>4. CASE UNCHANGED <<evidence, evaluated>>
  <2>1. /\ status' \in DocumentStatuses /\ current' \subseteq Files /\ arriving' \subseteq Files
        /\ time' \in Nat
    <3>1. CASE ProcessDocument
      BY <1>1, <3>1, DocumentKeeps DEF ProcessDocument
    <3>2. CASE PassTime
      BY <1>1, <3>2 DEF PassTime, documentVars
    <3>3. CASE UNCHANGED <<documentVars, time>>
      BY <1>1, <3>3 DEF documentVars
    <3> QED
      BY <3>1, <3>2, <3>3 DEF NextSubmission, Catalogue, CreateRequirementVersion, ArchiveRequirementVersion,
         ReadDraft, ValidateRequirement, UpdateRequirementVersion, PublishRequirementVersion, GiveUp, AssignForm,
         CreateApplication, EvaluateDocuments, Submit, RollBack, OtherStep, allVars
  <2> QED BY <1>1, <1>2, <1>3, <1>4, <2>1 DEF EvidenceInv
<1>5. ASSUME NEW p \in Requests, EvaluateDocuments(p) PROVE EvidenceInv'
  <2>1. PICK e \in Evidences : Meets(e) /\ evaluated' = [evaluated EXCEPT ![p] = {e}]
    BY <1>5, ReadinessMeets DEF EvaluateDocuments
  <2>2. Meets(e)'
    BY <2>1, MeetsStays
  <2>3. \A q \in Requests : evaluated'[q] = IF q = p THEN {e} ELSE evaluated[q]
    BY <1>1, <2>1
  <2>4. evaluated' \in [Requests -> SUBSET Evidences]
    BY <1>1, <2>1
  <2>5. UNCHANGED <<status, current, arriving, evidence, time>>
    BY <1>5 DEF EvaluateDocuments, documentVars
  <2> QED BY <1>1, <1>2, <1>3, <2>2, <2>3, <2>4, <2>5 DEF EvidenceInv
<1>6. ASSUME NEW p \in Requests, Submit(p) \/ RollBack(p) PROVE EvidenceInv'
  <2>1. /\ evaluated' = [evaluated EXCEPT ![p] = {}]
        /\ evidence' = evaluated[p] \/ evidence' = evidence
        /\ UNCHANGED <<status, current, arriving, time>>
    BY <1>6 DEF Submit, RollBack, documentVars
  <2>2. \A q \in Requests : evaluated'[q] = IF q = p THEN {} ELSE evaluated[q]
    BY <1>1, <2>1
  <2>3. evaluated' \in [Requests -> SUBSET Evidences]
    BY <1>1, <2>1
  <2>4. evidence' \subseteq Evidences /\ \A e \in evidence' : Meets(e)'
    BY <1>1, <1>2, <1>3, <2>1
  <2> QED BY <1>1, <1>3, <2>1, <2>2, <2>3, <2>4 DEF EvidenceInv
<1> QED
  BY <1>4, <1>5, <1>6 DEF NextSubmission, Catalogue, CreateRequirementVersion, ArchiveRequirementVersion,
     ReadDraft, ValidateRequirement, UpdateRequirementVersion, PublishRequirementVersion, GiveUp, AssignForm,
     CreateApplication, ProcessDocument, OtherStep, PassTime, allVars

-----------------------------------------------------------------------------
LEMMA Inductive == IInv /\ [NextSubmission]_allVars => IInv'
BY FormStep, CatalogueStep, EvidenceStep DEF IInv

LEMMA Invariance == SubmissionSpec => []IInv
BY InitHolds, Inductive, PTL DEF SubmissionSpec

(* Every form, application, answer, session and request has its shape, and *)
(* an application is submitted when it has its one snapshot.               *)
THEOREM FormTypes == SubmissionSpec => []TypeOK
<1>1. IInv => TypeOK
  BY DEF IInv, FormInv
<1> QED BY <1>1, Invariance, PTL

(* An assisted submission still has its session active when it commits:    *)
(* closing waits for the lock, whoever starts, submits and closes.         *)
THEOREM SessionOutlives == SubmissionSpec => []SessionOutlivesSubmission
<1>1. IInv => SessionOutlivesSubmission
  BY DEF IInv, FormInv
<1> QED BY <1>1, Invariance, PTL

(* No answer that the snapshot does not have appears while a submission    *)
(* is in progress.                                                         *)
THEOREM AnswersWait == SubmissionSpec => []NewAnswersWait
<1>1. IInv => NewAnswersWait
  BY DEF IInv, FormInv
<1> QED BY <1>1, Invariance, PTL

(* The rule an application is pinned to stays one its form can answer.     *)
THEOREM RuleStaysAnswerable == SubmissionSpec => []PinnedRuleIsAnswerable
<1>1. IInv => PinnedRuleIsAnswerable
  BY DEF IInv, CatalogueInv
<1> QED BY <1>1, Invariance, PTL

(* What a family sent satisfies for ever the rules it was asked to.        *)
THEOREM SubmittedMeets == SubmissionSpec => []SubmittedMeetsItsRule
<1>1. IInv => SubmittedMeetsItsRule
  BY DEF IInv, EvidenceInv, Meets, SubmittedMeetsItsRule
<1> QED BY <1>1, Invariance, PTL

-----------------------------------------------------------------------------
(* The page of the family *)

(* Whatever the page does is done by a request of Submission, or by nobody. *)
THEOREM FlowUsesSubmission == FlowSpec => SubmissionSpec
<1>1. FlowInit => InitSubmission
  BY DEF FlowInit
<1>2. [FlowNext]_<<allVars, flowVars>> => [NextSubmission]_allVars
  <2> SUFFICES ASSUME FlowNext PROVE NextSubmission \/ UNCHANGED allVars
    OBVIOUS
  <2>1. ASSUME NEW f \in Files, Upload(f) PROVE NextSubmission
    BY <2>1 DEF Upload, NextSubmission, ProcessDocument, Document!NextStatus
  <2>2. ASSUME NEW p \in Requests, SaveAndContinue(p) PROVE NextSubmission
    BY <2>2 DEF SaveAndContinue, NextSubmission, OtherStep
  <2>3. CASE Page
    BY <2>1, <2>2, <2>3 DEF Page, ReadAnswers, ReadDocuments, ShowDocuments, LoseDocuments, UploadAnswered,
       NotAnswered, ContinueEmpty, BackToDocuments, BackToForm, AskReview, OpenReview, Send
  <2> QED BY <2>3 DEF FlowNext, Sent, Server, NextSubmission
<1> QED BY <1>1, <1>2, PTL DEF FlowSpec, SubmissionSpec

(* What the server would say on that day of an item as it was shown. *)
Accepted(item, day) ==
  \/ item.status = "EXENTO"
  \/ /\ item.status \in {"EN_REVISION", "ACEPTADO"}
     /\ \E f \in item.file : item.rule = "aged" => f <= day /\ day - f <= MaxAge

FlowInv ==
  /\ load \in [Loads -> [step : {"none", "sent", "reading", "read"},
                         items : SUBSET [rule : Rules, status : DocumentStatuses, file : SUBSET Files]]]
  /\ documentsEnabled /\ readiness.ready => \A item \in readiness.items : Accepted(item, readiness.day)

LEMMA FlowStarts == FlowInit => FlowInv
BY DEF FlowInit, FlowInv, NoLoad, NotReady

(* The page counts the age to the moment and the server to the day. *)
LEMMA ReadyIsAccepted ==
  ASSUME time \in Nat, NEW item, item.file \subseteq Files, SubmissionReady(item)
  PROVE  Accepted(item, Today)
<1>1. ASSUME NEW f \in item.file, f <= time, time - f <= MaxAge
      PROVE  f <= Today /\ Today - f <= MaxAge
  <2>1. f \in Nat /\ f % 2 = 0 /\ MaxAge \in Nat
    BY CatalogueAssumption
  <2> QED BY <1>1, <2>1 DEF Today
<1> QED BY <1>1 DEF SubmissionReady, ValiditySatisfied, Accepted

LEMMA FlowStep == IInv /\ FlowInv /\ [FlowNext]_<<allVars, flowVars>> => FlowInv'
<1> SUFFICES ASSUME IInv, FlowInv, [FlowNext]_<<allVars, flowVars>> PROVE FlowInv'
  OBVIOUS
<1> USE DEF FlowInv
<1>1. /\ requirement \in [Versions -> [lifecycle : {"NONE", "DRAFT", "PUBLISHED", "ARCHIVED"}, rule : Rules]]
      /\ pinned \subseteq Versions
      /\ status \in DocumentStatuses /\ current \subseteq Files /\ time \in Nat
  BY DEF IInv, CatalogueInv, EvidenceInv, History
<1>2. ASSUME NEW l \in Loads, ReadAnswers(l) PROVE FlowInv'
  <2>1. Items("PENDIENTE", {}) \subseteq [rule : Rules, status : DocumentStatuses, file : SUBSET Files]
    BY <1>1 DEF Items, DocumentStatuses
  <2> QED BY <1>2, <2>1 DEF ReadAnswers
<1>3. ASSUME NEW l \in Loads, ReadDocuments(l) PROVE FlowInv'
  <2>1. {[item EXCEPT !.status = status, !.file = current] : item \in load[l].items}
          \subseteq [rule : Rules, status : DocumentStatuses, file : SUBSET Files]
    <3>1. ASSUME NEW item \in [rule : Rules, status : DocumentStatuses, file : SUBSET Files]
          PROVE  [item EXCEPT !.status = status, !.file = current]
                   \in [rule : Rules, status : DocumentStatuses, file : SUBSET Files]
      BY <1>1
    <3>2. load[l].items \subseteq [rule : Rules, status : DocumentStatuses, file : SUBSET Files]
      OBVIOUS
    <3> QED BY <3>1, <3>2
  <2> QED BY <1>3, <2>1 DEF ReadDocuments
<1>4. ASSUME NEW l \in Loads, ShowDocuments(l) PROVE FlowInv'
  <2>1. load' \in [Loads -> [step : {"none", "sent", "reading", "read"},
                    items : SUBSET [rule : Rules, status : DocumentStatuses, file : SUBSET Files]]]
    BY <1>4 DEF ShowDocuments, NoLoad
  <2>2. readiness' = Readiness(load[l].items)
    BY <1>4 DEF ShowDocuments
  <2>3. CASE \A item \in load[l].items : SubmissionReady(item)
    <3>1. \A item \in load[l].items : Accepted(item, Today)
      BY <1>1, <2>3, ReadyIsAccepted
    <3>2. readiness'.items = load[l].items /\ readiness'.day = Today
      BY <2>2, <2>3 DEF Readiness
    <3> QED BY <2>1, <3>1, <3>2 DEF Accepted
  <2>4. CASE ~ \A item \in load[l].items : SubmissionReady(item)
    BY <2>1, <2>2, <2>4 DEF Readiness, NotReady
  <2> QED BY <2>3, <2>4
<1>5. ASSUME Mount PROVE FlowInv'
  BY <1>5 DEF Mount, Ask
<1>6. ASSUME UNCHANGED <<documentsEnabled, readiness>>,
             UNCHANGED load \/ (\E l \in Loads : Ask(l) \/ load' = [load EXCEPT ![l] = NoLoad])
      PROVE  FlowInv'
  BY <1>6 DEF Ask, NoLoad
<1>7. ASSUME Sent PROVE FlowInv'
  BY <1>7 DEF Sent, NoLoad, NotReady
<1>8. CASE Page
  <2>1. ASSUME NEW p \in Requests, SaveAndContinue(p) PROVE FlowInv'
    BY <1>5, <2>1 DEF SaveAndContinue
  <2> QED
    BY <1>2, <1>3, <1>4, <1>5, <1>6, <1>8, <2>1 DEF Page, LoseDocuments, Upload, UploadAnswered, NotAnswered,
       ContinueEmpty, BackToDocuments, BackToForm, AskReview, OpenReview, Send
<1>9. CASE UNCHANGED flowVars
  BY <1>6, <1>9 DEF flowVars
<1> QED BY <1>7, <1>8, <1>9 DEF FlowNext, Server

(* The page offers what the server refuses only after a change it did not   *)
(* see, however many answers are under way and in whatever order they come. *)
THEOREM PageIsOnlyBehind == FlowSpec => []StaleScreenHasACause
<1>1. FlowSpec => []IInv
  BY FlowUsesSubmission, Invariance, PTL
<1>2. FlowSpec => []FlowInv
  BY <1>1, FlowStarts, FlowStep, PTL DEF FlowSpec
<1>3. FlowInv => StaleScreenHasACause
  <2> SUFFICES ASSUME FlowInv, documentsEnabled, SendEnabled,
                      readiness.items = DocumentsNow, readiness.day = Today,
                      NEW v \in pinned, Applicable(v, answers)
               PROVE  Satisfied(v)
    BY DEF StaleScreenHasACause, ServerReady
  <2> DEFINE item == [rule |-> requirement[v].rule, status |-> status, file |-> current]
  <2>1. item \in readiness.items
    BY DEF DocumentsNow, Items
  <2>2. Accepted(item, Today)
    BY <2>1 DEF FlowInv, SendEnabled
  <2> QED BY <2>2 DEF Accepted, Satisfied, IsCurrentOn
<1> QED BY <1>2, <1>3, PTL
=============================================================================
