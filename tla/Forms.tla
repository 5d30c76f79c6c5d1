-------------------------------- MODULE Forms --------------------------------
(***************************************************************************)
(* One version of a form and one application that answers it:              *)
(* packages/database/src/forms.ts (edit, publish, archive, assign, save,   *)
(* submit), the sessions of assistance.ts and the triggers of migration    *)
(* e5b that are to keep published forms and submitted answers immutable.   *)
(*                                                                         *)
(* Editors and families read a status WITHOUT a lock, and the triggers     *)
(* read it again, unlocked, when the row is written; other transactions    *)
(* can commit between that moment and the commit.  A request that writes   *)
(* is therefore two steps: the statement (with its trigger), the commit.   *)
(*                                                                         *)
(* The next-state relation is in Submission, which adds the documents the  *)
(* application must bring.                                                 *)
(***************************************************************************)
EXTENDS Integers, FiniteSets

CONSTANTS
  Requests,  \* transactions that can be in progress at once
  Fields,    \* fields the form can have
  Values     \* answers to a field

ASSUME ValuesAssumption == "none" \notin Values

VARIABLES
  lifecycle,  \* form_versions.lifecycle
  content,    \* form_fields of the version
  assigned,   \* the offering points to the version
  appStatus,  \* applications.status
  answers,    \* application_draft_answers
  snapshots,  \* application_snapshots
  assisted,   \* the application was created in the session
  session,    \* assistance_sessions.status of one session
  tx          \* the transaction each request is in

formVars == <<lifecycle, content, assigned>>
applicationVars == <<appStatus, answers, snapshots, assisted>>
vars == <<formVars, applicationVars, session, tx>>

Answers == [Fields -> Values \cup {"none"}]
NoAnswers == [k \in Fields |-> "none"]
Present == {"optional", "required", "unlawful"}  \* unlawful: publication refuses it

Idle == [op |-> "none", step |-> "idle", field |-> CHOOSE k \in Fields : TRUE,
         value |-> "none", assisted |-> FALSE, payload |-> NoAnswers]

Init ==
  /\ lifecycle = "DRAFT"
  /\ content = [k \in Fields |-> "absent"]
  /\ assigned = FALSE
  /\ appStatus = "NONE"
  /\ answers = NoAnswers
  /\ snapshots = {}
  /\ assisted = FALSE
  /\ session = "NONE"
  /\ tx = [p \in Requests |-> Idle]

At(p, op, step) == tx[p].op = op /\ tx[p].step = step
Leave(p) == tx' = [tx EXCEPT ![p] = Idle]

(* Row locks: two statements on the same row wait for each other. *)
RowFree(op, k) == \A q \in Requests : ~(At(q, op, "written") /\ tx[q].field = k)
SessionFree_Unlocked == TRUE
SessionFree ==
  \A q \in Requests : ~(tx[q].assisted /\ tx[q].step \in {"sessionLocked", "locked"})
ApplicationFree == \A q \in Requests : ~At(q, "submit", "locked")

-----------------------------------------------------------------------------
(* The form builder *)

(* createField, updateField, moveField and their section counterparts. *)
WriteField(p) ==
  /\ tx[p] = Idle
  /\ lifecycle = "DRAFT"
  /\ \E k \in Fields, v \in Present :
       /\ RowFree("edit", k)
       /\ tx' = [tx EXCEPT ![p] = [Idle EXCEPT !.op = "edit", !.step = "written",
                                     !.field = k, !.value = v]]
  /\ UNCHANGED <<formVars, applicationVars, session>>

CommitField(p) ==
  /\ At(p, "edit", "written")
  /\ content' = [content EXCEPT ![tx[p].field] = tx[p].value]
  /\ Leave(p)
  /\ UNCHANGED <<lifecycle, assigned, applicationVars, session>>

(* publishVersion reads the version and validates it ... *)
ValidateVersion(p) ==
  /\ tx[p] = Idle
  /\ lifecycle = "DRAFT"
  /\ \E k \in Fields : content[k] # "absent"
  /\ \A k \in Fields : content[k] # "unlawful"
  /\ tx' = [tx EXCEPT ![p] = [Idle EXCEPT !.op = "publish", !.step = "checked"]]
  /\ UNCHANGED <<formVars, applicationVars, session>>

(* ... and updates it by id; the history trigger sees the committed row. *)
PublishVersion(p) ==
  /\ At(p, "publish", "checked")
  /\ lifecycle = "DRAFT"
  /\ lifecycle' = "PUBLISHED"
  /\ Leave(p)
  /\ UNCHANGED <<content, assigned, applicationVars, session>>

ArchiveVersion ==
  /\ lifecycle = "PUBLISHED"
  /\ lifecycle' = "ARCHIVED"
  /\ UNCHANGED <<content, assigned, applicationVars, session, tx>>

AssignOfferingVersion ==
  /\ lifecycle = "PUBLISHED"
  /\ assigned' = TRUE
  /\ UNCHANGED <<lifecycle, content, applicationVars, session, tx>>

-----------------------------------------------------------------------------
(* The application *)

StartSession ==
  /\ session = "NONE"
  /\ session' = "ACTIVE"
  /\ UNCHANGED <<formVars, applicationVars, tx>>

(* createApplicationDraft checks the offering in one transaction ... *)
CheckOffering(p) ==
  /\ tx[p] = Idle
  /\ appStatus = "NONE"
  /\ assigned /\ lifecycle = "PUBLISHED"
  /\ tx' = [tx EXCEPT ![p] = [Idle EXCEPT !.op = "create", !.step = "checked"]]
  /\ UNCHANGED <<formVars, applicationVars, session>>

(* ... and inserts the application in another: a second one is refused. *)
CreateDraft(p) ==
  /\ At(p, "create", "checked")
  /\ appStatus = "NONE"
  /\ appStatus' = "DRAFT"
  /\ Leave(p)
  /\ UNCHANGED <<formVars, answers, snapshots, assisted, session>>

CreateAssistedDraft ==
  /\ appStatus = "NONE"
  /\ session = "ACTIVE" /\ SessionFree
  /\ assigned /\ lifecycle = "PUBLISHED"
  /\ appStatus' = "DRAFT"
  /\ assisted' = TRUE
  /\ UNCHANGED <<formVars, answers, snapshots, session, tx>>

(* saveAssistedAnswers locks the session in a transaction of its own. *)
CheckSession(p) ==
  /\ tx[p] = Idle
  /\ session = "ACTIVE" /\ SessionFree
  /\ assisted
  /\ tx' = [tx EXCEPT ![p] = [Idle EXCEPT !.op = "save", !.step = "checked",
                                !.assisted = TRUE]]
  /\ UNCHANGED <<formVars, applicationVars, session>>

(* One answer of a patch; "none" deletes it. *)
WriteAnswer(p) ==
  /\ tx[p] = Idle \/ At(p, "save", "checked")
  /\ appStatus = "DRAFT"
  /\ \E k \in Fields, v \in Values \cup {"none"} :
       /\ content[k] # "absent"
       /\ RowFree("save", k)
       /\ tx' = [tx EXCEPT ![p].op = "save", ![p].step = "written",
                           ![p].field = k, ![p].value = v]
  /\ UNCHANGED <<formVars, applicationVars, session>>

CommitAnswer_NoForeignKey(p) ==
  /\ At(p, "save", "written")
  /\ answers' = [answers EXCEPT ![tx[p].field] = tx[p].value]
  /\ Leave(p)
  /\ UNCHANGED <<formVars, appStatus, snapshots, assisted, session>>

(* A new row takes a key share of the application (its foreign key is      *)
(* checked after the trigger) and waits for a submission; a change of an   *)
(* existing row does not.                                                  *)
CommitAnswer(p) ==
  /\ At(p, "save", "written")
  /\ answers[tx[p].field] = "none" => ApplicationFree
  /\ answers' = [answers EXCEPT ![tx[p].field] = tx[p].value]
  /\ Leave(p)
  /\ UNCHANGED <<formVars, appStatus, snapshots, assisted, session>>

(* submitApplicationCore: AssistanceSession before Application. *)
LockSession(p) ==
  /\ tx[p] = Idle
  /\ appStatus # "NONE"
  /\ session = "ACTIVE" /\ SessionFree
  /\ tx' = [tx EXCEPT ![p] = [Idle EXCEPT !.op = "submit", !.step = "sessionLocked",
                                !.assisted = TRUE]]
  /\ UNCHANGED <<formVars, applicationVars, session>>

Complete == \A k \in Fields : content[k] = "required" => answers[k] # "none"

LockApplication(p) ==
  /\ \/ tx[p] = Idle
     \/ At(p, "submit", "sessionLocked") /\ assisted
  /\ appStatus = "DRAFT" /\ ApplicationFree
  /\ lifecycle \in {"PUBLISHED", "ARCHIVED"}
  /\ Complete
  /\ tx' = [tx EXCEPT ![p].op = "submit", ![p].step = "locked", ![p].payload = answers]
  /\ UNCHANGED <<formVars, applicationVars, session>>

CommitSubmission(p) ==
  /\ At(p, "submit", "locked")
  /\ snapshots = {}                      \* the unique index
  /\ snapshots' = {tx[p].payload}
  /\ appStatus' = "SUBMITTED"
  /\ Leave(p)
  /\ UNCHANGED <<formVars, answers, assisted, session>>

CloseSession ==
  /\ session = "ACTIVE" /\ SessionFree
  /\ session' = "CLOSED"
  /\ UNCHANGED <<formVars, applicationVars, tx>>

(* A request is refused, repeats a submission that is done (it answers     *)
(* with the same snapshot and writes nothing), or is rolled back.          *)
Abort(p) ==
  /\ tx[p] # Idle
  /\ Leave(p)
  /\ UNCHANGED <<formVars, applicationVars, session>>

-----------------------------------------------------------------------------
(* Properties *)

(* Every row and request has its shape, and there is one snapshot of a     *)
(* submitted application and none of another.                              *)
TypeOK ==
  /\ lifecycle \in {"DRAFT", "PUBLISHED", "ARCHIVED"}
  /\ content \in [Fields -> Present \cup {"absent"}]
  /\ assigned \in BOOLEAN
  /\ appStatus \in {"NONE", "DRAFT", "SUBMITTED"}
  /\ answers \in Answers
  /\ snapshots \in {{}} \cup {{s} : s \in Answers}
  /\ (appStatus = "SUBMITTED") = (snapshots # {})
  /\ assisted \in BOOLEAN
  /\ session \in {"NONE", "ACTIVE", "CLOSED"}
  /\ tx \in [Requests ->
       [op : {"none", "edit", "publish", "create", "save", "submit"},
        step : {"idle", "written", "checked", "sessionLocked", "locked"},
        field : Fields, value : Values \cup Present \cup {"none"},
        assisted : BOOLEAN, payload : Answers]]

(* An assisted submission that found its session active still has it       *)
(* active when it commits.                                                 *)
SessionOutlivesSubmission ==
  \A p \in Requests :
    tx[p].assisted /\ tx[p].step \in {"sessionLocked", "locked"} => session = "ACTIVE"

(* A submission in progress keeps new answers out: an answer that its      *)
(* snapshot does not have cannot appear before it commits.                 *)
NewAnswersWait ==
  \A p \in Requests, k \in Fields :
    At(p, "submit", "locked") /\ tx[p].payload[k] = "none" => answers[k] = "none"

-----------------------------------------------------------------------------
(* What the documents and triggers say and the code does not ensure *)

(* The triggers keep the content of a published or archived version from   *)
(* being inserted or modified.                                             *)
PublishedContentIsFrozen ==
  [][lifecycle # "DRAFT" => content' = content]_vars

(* Draft answers can be written only while the application is a draft. *)
SubmittedAnswersAreFrozen ==
  [][appStatus = "SUBMITTED" => answers' = answers]_vars

(* An assisted answer is saved in an active session. *)
AssistedAnswersNeedSession ==
  [][\A p \in Requests :
       tx[p].assisted /\ At(p, "save", "written") /\ tx'[p] = Idle /\ answers' # answers
         => session = "ACTIVE"]_vars
=============================================================================
