------------------------------ MODULE FamilyFlow ------------------------------
(***************************************************************************)
(* The page on which a family fills in its application, brings its         *)
(* document and sends both: FamilyApplicationFlow                          *)
(* (apps/web/app/form-workflows.tsx) and the FamilyDocumentWorkspace it    *)
(* mounts (document-workflows.tsx).  The server is Submission.             *)
(*                                                                         *)
(* The page asks for the documents when the documents stage is mounted and *)
(* after an upload, and keeps what it computed when the answer came: a     *)
(* later review, another tab or midnight leave it as it was, also after    *)
(* the stage is left.  (It would ask again every 2.5 s for a CURRENT file  *)
(* in quarantine or processing, and a file is current only after both.)    *)
(*                                                                         *)
(* What is typed but not saved is not modelled; the page saves, uploads and *)
(* sends one thing of a kind at a time, and leaving it ends it.            *)
(***************************************************************************)
EXTENDS Submission

CONSTANTS
  Loads,     \* bound: requests for the documents under way at once
  MaxAtOnce  \* bound: requests of Submission in progress while the page is open

VARIABLES
  documentsEnabled,  \* NEXT_PUBLIC_ADMISSION_DOCUMENTS_ENABLED, of the build
  stage,     \* "closed": no such page is open
  load,      \* each GET .../documents
  waiting,   \* the other answers the page waits for
  complete,  \* the review shown has nothing missing
  readiness  \* documentReadiness and, for the properties, what it is of

flowVars == <<documentsEnabled, stage, load, waiting, complete, readiness>>

NoLoad == [step |-> "none", items |-> {}]
NotReady == [ready |-> FALSE, items |-> {}, day |-> 0]

FlowInit ==
  /\ InitSubmission
  /\ \/ appStatus = "DRAFT" /\ stage = "form" /\ documentsEnabled \in BOOLEAN
     \/ appStatus = "NONE" /\ stage = "closed" /\ documentsEnabled = TRUE
  /\ load = [l \in Loads |-> NoLoad]
  /\ waiting = {}
  /\ complete = FALSE
  /\ readiness = NotReady

-----------------------------------------------------------------------------
(* What the page computes *)

(* validitySatisfied: the age is counted to the moment, not to the day. *)
ValiditySatisfied(rule, file) ==
  rule = "aged" => \E f \in file : f <= time /\ time - f <= MaxAge

SubmissionReady_NoValidity(item) ==
  \/ item.status = "EXENTO"
  \/ item.status \in {"EN_REVISION", "ACEPTADO"} /\ item.file # {}
SubmissionReady(item) ==
  \/ item.status = "EXENTO"
  \/ /\ item.status \in {"EN_REVISION", "ACEPTADO"} /\ item.file # {}
     /\ ValiditySatisfied(item.rule, item.file)

(* readiness: nothing blocks the submission. *)
Readiness(items) ==
  IF \A item \in items : SubmissionReady(item)
  THEN [ready |-> TRUE, items |-> items, day |-> Today]
  ELSE NotReady

(* "Enviar postulacion" *)
SendEnabled == stage = "review" /\ complete /\ readiness.ready

-----------------------------------------------------------------------------
(* The documents *)

(* The requirements that apply, with what is known of their document. *)
Items(known, file) ==
  {[rule |-> requirement[v].rule, status |-> known, file |-> file] :
     v \in {u \in pinned : Applicable(u, answers)}}

Ask(l) == load[l].step = "none" /\ load' = [load EXCEPT ![l].step = "sent"]

(* Mounting the documents stage. *)
Mount ==
  /\ stage' = "documents"
  /\ IF documentsEnabled
     THEN (\E l \in Loads : Ask(l)) /\ UNCHANGED readiness
     ELSE readiness' = [NotReady EXCEPT !.ready = TRUE] /\ UNCHANGED load
  /\ UNCHANGED <<documentsEnabled, waiting, complete>>

(* The server reads the answers of the application and then its documents, *)
(* in one transaction that locks neither.                                  *)
ReadAnswers(l) ==
  /\ load[l].step = "sent"
  /\ load' = [load EXCEPT ![l].step = "reading", ![l].items = Items("PENDIENTE", {})]
  /\ UNCHANGED <<allVars, documentsEnabled, stage, waiting, complete, readiness>>

ReadDocuments(l) ==
  /\ load[l].step = "reading"
  /\ load' = [load EXCEPT ![l].step = "read",
       ![l].items = {[item EXCEPT !.status = status, !.file = current] : item \in load[l].items}]
  /\ UNCHANGED <<allVars, documentsEnabled, stage, waiting, complete, readiness>>

(* Its answer arrives, whichever stage is open and whatever arrived before. *)
ShowDocuments(l) ==
  /\ load[l].step = "read"
  /\ readiness' = Readiness(load[l].items)
  /\ load' = [load EXCEPT ![l] = NoLoad]
  /\ UNCHANGED <<allVars, documentsEnabled, stage, waiting, complete>>

(* The request fails: what was computed before stays. *)
LoseDocuments(l) ==
  /\ load[l].step # "none"
  /\ load' = [load EXCEPT ![l] = NoLoad]
  /\ UNCHANGED <<allVars, documentsEnabled, stage, waiting, complete, readiness>>

Upload(f) ==
  /\ stage = "documents" /\ documentsEnabled
  /\ pinned # {} /\ "upload" \notin waiting
  /\ Document!Receive(f)
  /\ waiting' = waiting \cup {"upload"}
  /\ UNCHANGED <<vars, catalogueVars, pinned, evaluated, evidence, time>>
  /\ UNCHANGED <<documentsEnabled, stage, load, complete, readiness>>

UploadAnswered ==
  /\ "upload" \in waiting
  /\ \E l \in Loads : Ask(l)
  /\ waiting' = waiting \ {"upload"}
  /\ UNCHANGED <<allVars, documentsEnabled, stage, complete, readiness>>

(* An answer that does not come, or is a refusal, leaves the page as it is. *)
NotAnswered(request) ==
  /\ request \in waiting
  /\ waiting' = waiting \ {request}
  /\ UNCHANGED <<allVars, documentsEnabled, stage, load, complete, readiness>>

-----------------------------------------------------------------------------
(* The stages *)

(* persist(true): the answers are saved and the documents stage is mounted; *)
(* a save that fails is a step of Submission or none.                       *)
SaveAndContinue(p) ==
  /\ stage = "form"
  /\ CommitAnswer(p)
  /\ UNCHANGED <<catalogueVars, pinned, documentVars, evaluated, evidence, time>>
  /\ Mount

(* With nothing answered there is nothing to save. *)
ContinueEmpty == stage = "form" /\ Mount /\ UNCHANGED allVars

BackToDocuments == stage = "review" /\ Mount /\ UNCHANGED allVars

BackToForm ==
  /\ stage = "documents"
  /\ stage' = "form"
  /\ UNCHANGED <<allVars, documentsEnabled, load, waiting, complete, readiness>>

(* openReview: the answer opens the review from wherever the family is. *)
AskReview ==
  /\ stage = "documents" /\ "review" \notin waiting
  /\ waiting' = waiting \cup {"review"}
  /\ UNCHANGED <<allVars, documentsEnabled, stage, load, complete, readiness>>

OpenReview ==
  /\ "review" \in waiting
  /\ stage' = "review"
  /\ complete' = Complete
  /\ waiting' = waiting \ {"review"}
  /\ UNCHANGED <<allVars, documentsEnabled, load, readiness>>

(* submit: confirmed in a dialog, once at a time.  The submission itself is *)
(* that of a request of Submission.                                         *)
Send ==
  /\ SendEnabled /\ "submit" \notin waiting
  /\ waiting' = waiting \cup {"submit"}
  /\ UNCHANGED <<allVars, documentsEnabled, stage, load, complete, readiness>>

Sent ==
  /\ "submit" \in waiting
  /\ appStatus = "SUBMITTED"
  /\ stage' = "sent"
  /\ load' = [l \in Loads |-> NoLoad]
  /\ waiting' = {} /\ complete' = FALSE /\ readiness' = NotReady
  /\ UNCHANGED <<allVars, documentsEnabled>>

Page ==
  \/ \E l \in Loads : ReadAnswers(l) \/ ReadDocuments(l) \/ ShowDocuments(l) \/ LoseDocuments(l)
  \/ \E f \in Files : Upload(f)
  \/ UploadAnswered \/ \E request \in waiting : NotAnswered(request)
  \/ \E p \in Requests : SaveAndContinue(p)
  \/ ContinueEmpty \/ BackToDocuments \/ BackToForm
  \/ AskReview \/ OpenReview \/ Send

(* The server, and whoever else uses it: another tab, a reviewer, midnight. *)
Server == NextSubmission /\ UNCHANGED flowVars

(* Bounds: while the page is open at most MaxAtOnce requests are in         *)
(* progress, a submission that evaluated its documents is the next to step, *)
(* and once the application is submitted only the answer to the page        *)
(* follows.                                                                 *)
Undecided == appStatus = "DRAFT" /\ \A p \in Requests : evaluated[p] = {}
AtOnce == Cardinality({p \in Requests : tx[p] # Idle}) <= MaxAtOnce

FlowNext ==
  \/ Undecided /\ Page
  \/ Sent
  \/ stage = "closed" /\ Server
  \/ stage # "closed" /\ Undecided /\ Server /\ AtOnce'
  \/ stage # "closed" /\ (\E p \in Requests : Submit(p) \/ RollBack(p)) /\ UNCHANGED flowVars

FlowSpec == FlowInit /\ [][FlowNext]_<<allVars, flowVars>>

-----------------------------------------------------------------------------
(* Properties *)

(* What a load that reads everything now would be answered. *)
DocumentsNow == Items(status, current)

(* The page can be behind the server, never wrong about what it was told:   *)
(* when it offers to send what the server would refuse, then what applies,  *)
(* the status or the file are not as the answer it shows had them (it may   *)
(* be an old one, each part read at a time of its own), or the day in which *)
(* it counted the age of the file is over.                                  *)
StaleScreenHasACause ==
  documentsEnabled /\ SendEnabled /\ ~ServerReady(answers)
    => readiness.items # DocumentsNow \/ readiness.day # Today

-----------------------------------------------------------------------------
(* What the code does not keep (README, known deviations) *)

(* The page never offers to send what the server refuses. *)
ScreenIsNotAheadOfServer == SendEnabled => ServerReady(answers)

(* Without documents the server asks for none either. *)
DisabledDocumentsAreNotAsked == ~documentsEnabled /\ SendEnabled => ServerReady(answers)

(* The last day a file is valid counts on the page as on the server. *)
LastDayCounts == ServerReady(answers) => Readiness(DocumentsNow).ready

(* The operator's workflow shows the technical status of a reviewable file *)
(* as READY (assistedTechnicalStatus), and its page computes the readiness *)
(* with it whenever it is drawn.                                           *)
TechnicalStatus == IF current = {} THEN "FALTANTE" ELSE "READY_FOR_REVIEW"
AssistedTechnicalStatus == IF TechnicalStatus = "READY_FOR_REVIEW" THEN "READY" ELSE TechnicalStatus
AssistedReadiness(items) ==
  \A item \in items :
    \/ item.status = "EXENTO"
    \/ /\ item.status \in {"EN_REVISION", "ACEPTADO"}
       /\ AssistedTechnicalStatus = "READY_FOR_REVIEW"
       /\ ValiditySatisfied(item.rule, item.file)

(* The operator can send what the server would accept. *)
OperatorCanSend == assisted /\ ServerReady(answers) => AssistedReadiness(DocumentsNow)
=============================================================================
