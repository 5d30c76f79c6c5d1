------------------------------ MODULE Documents ------------------------------
(***************************************************************************)
(* The document pipeline of ONE submission (one requirement of one         *)
(* application): packages/database/src/documents.ts, the object storage it *)
(* writes, the outbox job "document.process:<version>" and the worker that *)
(* inspects the file.                                                      *)
(*                                                                         *)
(* An upload and the processing of a file are NOT one transaction each:    *)
(* they alternate database transactions and storage calls, and either side *)
(* may die between two of them.  Each action is one transaction or one     *)
(* storage call.  Every transaction that decides something holds the row   *)
(* lock of the submission or of the version, so it is one step.            *)
(***************************************************************************)
EXTENDS Integers, FiniteSets

CONSTANTS
  Uploaders,    \* upload requests that can be in progress at once
  Reviewers,    \* staff members who review the submission
  Workers,      \* document workers
  MaxVersions,  \* bound: uploads of this submission
  MaxAttempts,  \* deliveries after which a failing job is FAILED
  MaxFaults     \* bound: crashes, failed calls and late leases

ASSUME DocumentBounds ==
  /\ MaxVersions \in Nat \ {0}
  /\ MaxAttempts \in Nat \ {0}
  /\ MaxFaults \in Nat

Versions == 1..MaxVersions
None == 0

VARIABLES
  tech,        \* document_versions.technical_status
  file,        \* what the uploaded bytes really are, once somebody looked at them
  replaced,    \* versions with document_versions.replaced_at
  status,      \* document_submissions.status
  current,     \* document_submissions.current_document_version_id, None at first
  review,      \* the last row of document_reviews, as <<verdict, version>>
  quarantine,  \* versions whose object is in the quarantine area
  approved,    \* versions whose object is in the approved area
  job,         \* the outbox message of each version
  upload,      \* the upload request of each uploader
  seen,        \* the version each reviewer has on the screen
  work,        \* the delivery each worker is busy with
  faults       \* faults so far (bound only)

versionVars == <<tech, file, replaced>>
submissionVars == <<status, current, review>>
storageVars == <<quarantine, approved>>
vars == <<versionVars, submissionVars, storageVars, job, upload, seen, work, faults>>

Files == {"clean", "infected", "invalid"}   \* invalid: wrong size, type or signature
Blocked == {"BLOCKED_INVALID", "BLOCKED_INFECTED", "BLOCKED_SCAN_ERROR"}
Terminal == {"READY_FOR_REVIEW"} \cup Blocked
Active == {"UPLOAD_PENDING", "QUARANTINED", "PROCESSING"}

NoJob == [status |-> "NONE", attempts |-> 0, owner |-> "nobody"]
NoUpload == [step |-> "idle", version |-> None]
NoWork == [step |-> "idle", version |-> None, outcome |-> "none"]

Init ==
  /\ tech = [v \in Versions |-> "NONE"]
  /\ file = [v \in Versions |-> "unread"]
  /\ replaced = {}
  /\ status = "PENDIENTE"
  /\ current = None
  /\ review = <<"NONE", None>>
  /\ quarantine = {}
  /\ approved = {}
  /\ job = [v \in Versions |-> NoJob]
  /\ upload = [c \in Uploaders |-> NoUpload]
  /\ seen = [r \in Reviewers |-> None]
  /\ work = [w \in Workers |-> NoWork]
  /\ faults = 0

Fault == faults < MaxFaults /\ faults' = faults + 1
NoFault == faults' = faults

ActiveVersions == {v \in Versions : tech[v] \in Active}

-----------------------------------------------------------------------------
(* uploadDocument: prepare, store, finish *)

PrepareUpload(c) ==
  \E v \in Versions :
    /\ upload[c].step = "idle"
    /\ ActiveVersions = {}
    /\ v = 1 + Cardinality({u \in Versions : tech[u] # "NONE"})
    /\ tech' = [tech EXCEPT ![v] = "UPLOAD_PENDING"]
    /\ upload' = [upload EXCEPT ![c] = [step |-> "prepared", version |-> v]]
    /\ UNCHANGED <<file, replaced, submissionVars, storageVars, job, seen, work, faults>>

StoreFile(c) ==
  /\ upload[c].step = "prepared"
  /\ quarantine' = quarantine \cup {upload[c].version}
  /\ upload' = [upload EXCEPT ![c].step = "stored"]
  /\ UNCHANGED <<versionVars, submissionVars, approved, job, seen, work, faults>>

(* The storage call throws, whether or not the object was written. *)
StoreFails(c) ==
  LET v == upload[c].version
  IN  /\ upload[c].step = "prepared" /\ Fault
      /\ quarantine' \in {quarantine, quarantine \cup {v}}
      /\ tech' = [tech EXCEPT ![v] = IF @ = "UPLOAD_PENDING" THEN "UPLOAD_FAILED" ELSE @]
      /\ upload' = [upload EXCEPT ![c] = NoUpload]
      /\ UNCHANGED <<file, replaced, submissionVars, approved, job, seen, work>>

(* The second transaction: the version, the submission and the job. *)
Quarantined(v) ==
  /\ tech' = [tech EXCEPT ![v] = "QUARANTINED"]
  /\ status' = "CARGADO"
  /\ job' = [job EXCEPT ![v] = IF @ = NoJob THEN [NoJob EXCEPT !.status = "PENDING"] ELSE @]

FinishUpload(c) ==
  /\ upload[c].step = "stored"
  /\ Quarantined(upload[c].version)
  /\ upload' = [upload EXCEPT ![c] = NoUpload]
  /\ UNCHANGED <<file, replaced, current, review, storageVars, seen, work, faults>>

(* The caller sees an error: the transaction was rolled back, or it was    *)
(* committed and the answer was lost.                                      *)
FinishFails(c) ==
  /\ upload[c].step = "stored" /\ Fault
  /\ \/ Quarantined(upload[c].version)
     \/ UNCHANGED <<tech, status, job>>
  /\ upload' = [upload EXCEPT ![c].step = "failed"]
  /\ UNCHANGED <<file, replaced, current, review, storageVars, seen, work>>

(* ... and then deletes the object, if the storage lets it. *)
DeleteAfterFailure(c) ==
  /\ upload[c].step = "failed"
  /\ quarantine' \in {quarantine, quarantine \ {upload[c].version}}
  /\ upload' = [upload EXCEPT ![c] = NoUpload]
  /\ UNCHANGED <<versionVars, submissionVars, approved, job, seen, work, faults>>

UploaderCrashes(c) ==
  /\ upload[c].step # "idle" /\ Fault
  /\ upload' = [upload EXCEPT ![c] = NoUpload]
  /\ UNCHANGED <<versionVars, submissionVars, storageVars, job, seen, work>>

-----------------------------------------------------------------------------
(* Reviews: one transaction each, under the lock of the submission *)

OpenReview(r) ==
  /\ current # None /\ seen[r] = None
  /\ seen' = [seen EXCEPT ![r] = current]
  /\ UNCHANGED <<versionVars, submissionVars, storageVars, job, upload, work, faults>>

(* assertExpectedReviewVersion *)
ReviewVersionExpected(r) ==
  /\ seen[r] = current
  /\ \A u \in Versions :
       u > current => tech[u] \notin Active \cup {"READY_FOR_REVIEW"}

Review(r, verdict, outcome) ==
  /\ seen[r] # None
  /\ ReviewVersionExpected(r)
  /\ tech[current] = "READY_FOR_REVIEW"
  /\ review' = <<verdict, current>>
  /\ status' = outcome
  /\ seen' = [seen EXCEPT ![r] = None]
  /\ UNCHANGED <<versionVars, current, storageVars, job, upload, work, faults>>

AcceptDocument(r) == Review(r, "ACCEPTED", "ACEPTADO")
ObserveDocument(r) == Review(r, "OBSERVED", "OBSERVADO")

(* DOCUMENT_VERSION_CHANGED, or the reviewer leaves the page. *)
CloseReview(r) ==
  /\ seen[r] # None
  /\ seen' = [seen EXCEPT ![r] = None]
  /\ UNCHANGED <<versionVars, submissionVars, storageVars, job, upload, work, faults>>

ExemptDocument_WhileProcessing ==
  /\ review' = <<"EXEMPTED", current>>
  /\ status' = "EXENTO"
  /\ UNCHANGED <<versionVars, current, storageVars, job, upload, seen, work, faults>>

ExemptDocument ==
  /\ ActiveVersions = {}
  /\ review' = <<"EXEMPTED", current>>
  /\ status' = "EXENTO"
  /\ UNCHANGED <<versionVars, current, storageVars, job, upload, seen, work, faults>>

-----------------------------------------------------------------------------
(* The worker: claim, processDocument, acknowledge *)

Busy(w, step) == work[w].step = step
Owner(w, v) == job[v].status = "PROCESSING" /\ job[v].owner = w
OwnerGone(v) == \A w \in Workers : ~(Owner(w, v) /\ work[w].version = v)

(* A PENDING job, or a PROCESSING one whose lease ran out because its      *)
(* owner died or (a fault) is only slow.                                   *)
Claim(w, v) ==
  /\ Busy(w, "idle")
  /\ \/ job[v].status = "PENDING" /\ NoFault
     \/ job[v].status = "PROCESSING" /\ OwnerGone(v) /\ NoFault
     \/ job[v].status = "PROCESSING" /\ ~OwnerGone(v) /\ Fault
  /\ job' = [job EXCEPT ![v] = [status |-> "PROCESSING", owner |-> w,
                                attempts |-> @.attempts + 1]]
  /\ work' = [work EXCEPT ![w] = [NoWork EXCEPT !.step = "claimed", !.version = v]]
  /\ UNCHANGED <<versionVars, submissionVars, storageVars, upload, seen>>

StartProcessing_OnlyOnce(w) ==
  LET v == work[w].version
      again == tech[v] \in Terminal
  IN  /\ Busy(w, "claimed")
      /\ again \/ tech[v] = "QUARANTINED"
      /\ tech' = [tech EXCEPT ![v] = IF again THEN @ ELSE "PROCESSING"]
      /\ work' = [work EXCEPT ![w].step = IF again THEN "done" ELSE "processing"]
      /\ UNCHANGED <<file, replaced, submissionVars, storageVars, job, upload, seen, faults>>

StartProcessing_TakenForDone(w) ==
  LET v == work[w].version
      again == tech[v] \in Terminal \cup {"PROCESSING"}
  IN  /\ Busy(w, "claimed")
      /\ again \/ tech[v] = "QUARANTINED"
      /\ tech' = [tech EXCEPT ![v] = IF again THEN @ ELSE "PROCESSING"]
      /\ work' = [work EXCEPT ![w].step = IF again THEN "done" ELSE "processing"]
      /\ UNCHANGED <<file, replaced, submissionVars, storageVars, job, upload, seen, faults>>

(* First transaction: a redelivered job of a finished version ends here. *)
StartProcessing(w) ==
  LET v == work[w].version
      again == tech[v] \in Terminal
  IN  /\ Busy(w, "claimed")
      /\ again \/ tech[v] \in {"QUARANTINED", "PROCESSING"}
      /\ tech' = [tech EXCEPT ![v] = IF again THEN @ ELSE "PROCESSING"]
      /\ work' = [work EXCEPT ![w].step = IF again THEN "done" ELSE "processing"]
      /\ UNCHANGED <<file, replaced, submissionVars, storageVars, job, upload, seen, faults>>

ScanOutcomes_FailOpen(f) ==
  CASE f = "invalid"  -> {"BLOCKED_INVALID"}
    [] f = "infected" -> {"BLOCKED_INFECTED", "READY_FOR_REVIEW"}
    [] f = "clean"    -> {"READY_FOR_REVIEW"}

(* Size, type and signature checks, then the scanner: it never calls an    *)
(* infected file clean, but it may fail (ERROR, UNSCANNABLE) on any file.  *)
ScanOutcomes(f) ==
  CASE f = "invalid"  -> {"BLOCKED_INVALID"}
    [] f = "infected" -> {"BLOCKED_INFECTED", "BLOCKED_SCAN_ERROR"}
    [] f = "clean"    -> {"READY_FOR_REVIEW", "BLOCKED_SCAN_ERROR"}

Inspected(w, outcome) ==
  work' = [work EXCEPT ![w].outcome = outcome,
             ![w].step = IF outcome = "READY_FOR_REVIEW" THEN "scanned" ELSE "promoted"]

Bytes(v) == IF file[v] = "unread" THEN Files ELSE {file[v]}

(* The bytes are read and inspected; nothing is written. *)
Inspect(w) ==
  LET v == work[w].version
  IN  /\ Busy(w, "processing")
      /\ \/ /\ v \in quarantine
            /\ \E f \in Bytes(v) : /\ file' = [file EXCEPT ![v] = f]
                                  /\ \E o \in ScanOutcomes(f) : Inspected(w, o)
         \/ v \notin quarantine /\ Inspected(w, "BLOCKED_INVALID") /\ UNCHANGED file
      /\ UNCHANGED <<tech, replaced, submissionVars, storageVars, job, upload, seen, faults>>

(* Any error of the storage while it reads counts as a missing object. *)
ReadFails(w) ==
  /\ Busy(w, "processing") /\ Fault
  /\ Inspected(w, "BLOCKED_INVALID")
  /\ UNCHANGED <<versionVars, submissionVars, storageVars, job, upload, seen>>

(* promote copies the object once; without a source it throws. *)
Promote(w) ==
  LET v == work[w].version
  IN  /\ Busy(w, "scanned")
      /\ v \in approved \cup quarantine
      /\ approved' = approved \cup {v}
      /\ work' = [work EXCEPT ![w].step = "promoted"]
      /\ UNCHANGED <<versionVars, submissionVars, quarantine, job, upload, seen, faults>>

Settle_KeepsPredecessor(v, outcome) ==
  IF tech[v] = "PROCESSING"
  THEN /\ tech' = [tech EXCEPT ![v] = outcome]
       /\ IF outcome = "READY_FOR_REVIEW"
          THEN current' = v /\ status' = "EN_REVISION" /\ UNCHANGED replaced
          ELSE UNCHANGED <<replaced, current, status>>
  ELSE UNCHANGED <<tech, replaced, current, status>>

(* The last transaction: only a version still in PROCESSING is settled. *)
Settle(v, outcome) ==
  IF tech[v] = "PROCESSING"
  THEN /\ tech' = [tech EXCEPT ![v] = outcome]
       /\ IF outcome = "READY_FOR_REVIEW"
          THEN /\ replaced' = replaced \cup ({current} \ {None, v})
               /\ current' = v
               /\ status' = "EN_REVISION"
          ELSE UNCHANGED <<replaced, current, status>>
  ELSE UNCHANGED <<tech, replaced, current, status>>

FinishProcessing(w) ==
  /\ Busy(w, "promoted")
  /\ Settle(work[w].version, work[w].outcome)
  /\ work' = [work EXCEPT ![w].step =
                IF work[w].outcome = "READY_FOR_REVIEW" THEN "settled" ELSE "done"]
  /\ UNCHANGED <<file, review, storageVars, job, upload, seen, faults>>

DeleteQuarantine(w) ==
  /\ Busy(w, "settled")
  /\ quarantine' \in {quarantine, quarantine \ {work[w].version}}
  /\ work' = [work EXCEPT ![w].step = "done"]
  /\ UNCHANGED <<versionVars, submissionVars, approved, job, upload, seen, faults>>

MarkSent(w) ==
  LET v == work[w].version
  IN  /\ Busy(w, "done")
      /\ job' = IF Owner(w, v) THEN [job EXCEPT ![v].status = "SENT"] ELSE job
      /\ work' = [work EXCEPT ![w] = NoWork]
      /\ UNCHANGED <<versionVars, submissionVars, storageVars, upload, seen, faults>>

(* The delivery throws: requeueAfterFailure, or markFailed at the last.    *)
(* Promotion throws by itself when both objects are gone.                  *)
DeliveryFails(w) ==
  LET v == work[w].version
      next == IF job[v].attempts >= MaxAttempts THEN "FAILED" ELSE "PENDING"
  IN  /\ \/ Busy(w, "scanned") /\ v \notin approved \cup quarantine /\ NoFault
         \/ work[w].step # "idle" /\ Fault
      /\ job' = IF Owner(w, v) THEN [job EXCEPT ![v].status = next] ELSE job
      /\ work' = [work EXCEPT ![w] = NoWork]
      /\ UNCHANGED <<versionVars, submissionVars, storageVars, upload, seen>>

WorkerCrashes(w) ==
  /\ work[w].step # "idle" /\ Fault
  /\ work' = [work EXCEPT ![w] = NoWork]
  /\ UNCHANGED <<versionVars, submissionVars, storageVars, job, upload, seen>>

-----------------------------------------------------------------------------
AdvanceUpload(c) == StoreFile(c) \/ FinishUpload(c) \/ DeleteAfterFailure(c)

Deliver(w) ==
  \/ StartProcessing(w) \/ Inspect(w) \/ Promote(w) \/ FinishProcessing(w)
  \/ DeleteQuarantine(w) \/ MarkSent(w)
  \/ DeliveryFails(w) /\ NoFault

Next ==
  \/ \E c \in Uploaders : \/ PrepareUpload(c) \/ AdvanceUpload(c)
                          \/ StoreFails(c) \/ FinishFails(c) \/ UploaderCrashes(c)
  \/ \E r \in Reviewers : \/ OpenReview(r) \/ AcceptDocument(r)
                          \/ ObserveDocument(r) \/ CloseReview(r)
  \/ ExemptDocument
  \/ \E w \in Workers : \/ \E v \in Versions : Claim(w, v)
                        \/ Deliver(w) \/ ReadFails(w) \/ DeliveryFails(w)
                        \/ WorkerCrashes(w)

Spec == Init /\ [][Next]_vars

(* A request that is not interrupted runs to its end; a worker polls until *)
(* it is told to stop and goes on with what it claimed.                    *)
Fairness ==
  /\ \A c \in Uploaders : WF_vars(AdvanceUpload(c))
  /\ \A w \in Workers : /\ WF_vars(\E v \in Versions : Claim(w, v) /\ NoFault)
                        /\ WF_vars(Deliver(w))

FairSpec == Spec /\ Fairness

-----------------------------------------------------------------------------
(* Properties *)

(* Every row, object and request has its shape. *)
TypeOK ==
  /\ tech \in [Versions -> {"NONE", "UPLOAD_FAILED"} \cup Active \cup Terminal]
  /\ file \in [Versions -> Files \cup {"unread"}]
  /\ replaced \subseteq Versions
  /\ status \in {"PENDIENTE", "CARGADO", "EN_REVISION", "ACEPTADO", "OBSERVADO", "EXENTO"}
  /\ current \in Versions \cup {None}
  /\ review \in {"NONE", "ACCEPTED", "OBSERVED", "EXEMPTED"} \X (Versions \cup {None})
  /\ quarantine \subseteq Versions
  /\ approved \subseteq Versions
  /\ job \in [Versions -> [status : {"NONE", "PENDING", "PROCESSING", "SENT", "FAILED"},
                           attempts : Nat, owner : Workers \cup {"nobody"}]]
  /\ upload \in [Uploaders -> [step : {"idle", "prepared", "stored", "failed"},
                               version : Versions \cup {None}]]
  /\ seen \in [Reviewers -> Versions \cup {None}]
  /\ work \in [Workers -> [step : {"idle", "claimed", "processing", "scanned",
                                   "promoted", "settled", "done"},
                           version : Versions \cup {None},
                           outcome : {"none"} \cup Terminal]]
  /\ faults \in Nat

(* Fail closed: whatever fails, is redelivered or races, only clean files  *)
(* reach the approved area, and a version offered for review has its       *)
(* approved object.                                                        *)
OnlyCleanIsApproved ==
  /\ \A v \in approved : file[v] = "clean"
  /\ \A v \in Versions : tech[v] = "READY_FOR_REVIEW" => v \in approved

(* ACEPTADO and OBSERVADO rest on a review of the current version, and the *)
(* current version is the newest reviewable one; all the older ones, and   *)
(* only they, are marked as replaced.                                      *)
ReviewMatchesCurrent ==
  /\ status = "ACEPTADO" => review = <<"ACCEPTED", current>>
  /\ status = "OBSERVADO" => review = <<"OBSERVED", current>>
  /\ \A v \in Versions :
       tech[v] = "READY_FOR_REVIEW" <=> v = current \/ v \in replaced
  /\ \A v \in replaced : v < current

(* A file is stopped by faults only.  While it waits for its outcome, its    *)
(* job is open, or was given up after as many faults as it has deliveries; a *)
(* job is never acknowledged before its file has its outcome.  Without a     *)
(* fault no upload is left pending, and no file is blocked as invalid that   *)
(* is not.                                                                   *)
BeingUploaded(v) == \E c \in Uploaders : upload[c].version = v /\ upload[c].step \in {"prepared", "stored"}
OnlyFaultsStopAFile ==
  \A v \in Versions :
    /\ tech[v] \in {"QUARANTINED", "PROCESSING"} =>
         \/ job[v].status \in {"PENDING", "PROCESSING"}
         \/ job[v].status = "FAILED" /\ faults >= MaxAttempts
    /\ tech[v] = "UPLOAD_PENDING" => BeingUploaded(v) \/ faults > 0
    /\ tech[v] = "BLOCKED_INVALID" => file[v] = "invalid" \/ faults > 0

(* Whatever the storages, jobs and workers do, whoever reads the status of *)
(* the submission sees one file at a time arrive, become current or be     *)
(* blocked, and verdicts on the current file.                              *)
Abstract == INSTANCE DocumentStatus WITH
  Files <- Versions,
  current <- {current} \ {None},
  arriving <- {v \in Versions : tech[v] \in {"QUARANTINED", "PROCESSING"}}
ImplementsDocumentStatus == Abstract!StatusSpec

(* With fewer faults than deliveries, an uploaded file gets an outcome. *)
UploadedFileIsSettled ==
  \A v \in Versions : tech[v] = "QUARANTINED" ~> tech[v] \in Terminal

-----------------------------------------------------------------------------
(* What the documents say and the code does not do *)

(* Incomplete uploads are cleaned up by a job. *)
IncompleteUploadIsCleaned ==
  \A v \in Versions : tech[v] = "UPLOAD_PENDING" ~> tech[v] # "UPLOAD_PENDING"

(* An unexpected error of the storage puts the job back in the queue: a    *)
(* file that is there and is well formed is not blocked as invalid.        *)
StorageErrorIsRetried ==
  [][\A v \in Versions :
       tech[v] = "PROCESSING" /\ tech'[v] = "BLOCKED_INVALID" =>
         file[v] = "invalid" \/ v \notin quarantine]_vars
=============================================================================
