--------------------------- MODULE Documents_proofs ---------------------------
(***************************************************************************)
(* Proofs about Documents for every number of uploads, requests, workers,  *)
(* deliveries and faults.  The inductive invariant says that a version is  *)
(* begun only when all earlier ones are finished (OneAtATime), that an     *)
(* upload in progress owns the pending version (UploadsHold), and what a   *)
(* worker knows of its file between two steps (WorkHolds).  From it, every *)
(* step of the pipeline is a step of DocumentStatus or none.               *)
(*                                                                         *)
(* The second invariant, FaultInv, is the account of faults: a delivery of *)
(* a file that waits is lost to a fault of its own, and before the first   *)
(* fault nothing is lost.                                                  *)
(***************************************************************************)
EXTENDS Documents, FiniteSetTheorems, TLAPS

(* The upload that is in progress is the only one, and its version waits.  *)
InProgress(c) == upload[c].step \in {"prepared", "stored"}
UploadsHold ==
  \A c \in Uploaders :
    /\ upload[c].step # "idle" => upload[c].version \in Versions
    /\ InProgress(c) => tech[upload[c].version] = "UPLOAD_PENDING"
    /\ \A d \in Uploaders : InProgress(c) /\ InProgress(d) => c = d

(* A version exists only when every earlier one is finished. *)
OneAtATime ==
  \A u, v \in Versions : u < v /\ tech[v] # "NONE" => tech[u] \notin Active \cup {"NONE"}

(* What a worker found still holds when it goes on: however often a job is *)
(* delivered again, a file that was read keeps its contents, and an object *)
(* that was approved is not removed.                                       *)
WorkHolds ==
  \A w \in Workers :
    LET v == work[w].version
    IN  /\ work[w].step # "idle" => v \in Versions
        /\ work[w].step = "scanned" => work[w].outcome = "READY_FOR_REVIEW" /\ file[v] = "clean"
        /\ work[w].step = "promoted" =>
             /\ work[w].outcome \in Terminal
             /\ work[w].outcome = "READY_FOR_REVIEW" => v \in approved

IInv ==
  /\ TypeOK
  /\ UploadsHold /\ OneAtATime /\ WorkHolds
  /\ OnlyCleanIsApproved /\ ReviewMatchesCurrent

-----------------------------------------------------------------------------
LEMMA VersionsAreNumbers == Versions \subseteq Nat \ {0} /\ None \notin Versions
BY DocumentBounds DEF Versions, None

(* The empty submission satisfies the invariant. *)
LEMMA InitHolds == Init => IInv
<1> SUFFICES ASSUME Init PROVE IInv
  OBVIOUS
<1> USE VersionsAreNumbers DEF Init, NoUpload, NoWork, NoJob
<1>1. TypeOK
  BY DEF TypeOK, None
<1>2. UploadsHold /\ OneAtATime /\ WorkHolds
  BY DEF UploadsHold, OneAtATime, WorkHolds, InProgress
<1>3. OnlyCleanIsApproved /\ ReviewMatchesCurrent
  BY DEF OnlyCleanIsApproved, ReviewMatchesCurrent, None
<1> QED BY <1>1, <1>2, <1>3 DEF IInv

-----------------------------------------------------------------------------
(* Uploads *)

(* The number of a new version has not been used, and all before it have. *)
LEMMA NextNumberIsFree ==
  ASSUME TypeOK, OneAtATime, NEW v \in Versions,
         v = 1 + Cardinality({u \in Versions : tech[u] # "NONE"})
  PROVE  tech[v] = "NONE" /\ \A u \in Versions : u < v => tech[u] # "NONE"
<1> DEFINE Used == {u \in Versions : tech[u] # "NONE"}
<1> USE DocumentBounds, VersionsAreNumbers
<1>1. IsFiniteSet(Versions) /\ IsFiniteSet(Used)
  <2>1. IsFiniteSet(1..MaxVersions)
    BY FS_Interval
  <2>2. IsFiniteSet(Versions)
    BY <2>1 DEF Versions
  <2> QED BY <2>2, FS_Subset
<1>2. Cardinality(Used) \in Nat
  BY <1>1, FS_CardinalityType
<1>3. ASSUME tech[v] # "NONE" PROVE FALSE
  <2>1. 1..v \subseteq Used
    <3> SUFFICES ASSUME NEW u \in 1..v PROVE u \in Used
      OBVIOUS
    <3>1. u \in Versions BY DEF Versions
    <3>2. CASE u = v BY <3>1, <3>2, <1>3
    <3>3. CASE u < v BY <3>1, <3>3, <1>3 DEF OneAtATime
    <3> QED BY <3>2, <3>3
  <2>2. Cardinality(1..v) = v
    BY FS_Interval
  <2>3. Cardinality(1..v) <= Cardinality(Used)
    BY <2>1, <1>1, FS_Subset
  <2> QED BY <2>2, <2>3, <1>2
<1>4. ASSUME NEW u \in Versions, u < v, tech[u] = "NONE" PROVE FALSE
  <2>1. Used \subseteq 1..(u - 1)
    <3> SUFFICES ASSUME NEW x \in Used PROVE x < u
      BY DEF Versions
    <3>1. x # u /\ ~(u < x) BY <1>4 DEF OneAtATime
    <3> QED BY <3>1
  <2>2. Cardinality(1..(u - 1)) = u - 1 /\ IsFiniteSet(1..(u - 1))
    BY FS_Interval
  <2>3. Cardinality(Used) <= u - 1
    BY <2>1, <2>2, FS_Subset
  <2> QED BY <1>4, <2>3, <1>2
<1> QED BY <1>3, <1>4

LEMMA PrepareKeeps ==
  ASSUME IInv, NEW c \in Uploaders, PrepareUpload(c) PROVE IInv'
<1> USE DEF IInv
<1>1. PICK v \in Versions :
        /\ upload[c].step = "idle"
        /\ ActiveVersions = {}
        /\ v = 1 + Cardinality({u \in Versions : tech[u] # "NONE"})
        /\ tech' = [tech EXCEPT ![v] = "UPLOAD_PENDING"]
        /\ upload' = [upload EXCEPT ![c] = [step |-> "prepared", version |-> v]]
  BY DEF PrepareUpload
<1>2. UNCHANGED <<file, replaced, status, current, review, quarantine, approved, job, seen, work, faults>>
  BY DEF PrepareUpload, submissionVars, storageVars
<1>3. tech[v] = "NONE" /\ \A u \in Versions : u < v => tech[u] # "NONE"
  BY <1>1, NextNumberIsFree
<1>4. \A u \in Versions : tech[u] \notin Active
  BY <1>1 DEF ActiveVersions
<1>5. TypeOK'
  BY <1>1, <1>2 DEF TypeOK, Active
<1>6. UploadsHold'
  <2>1. \A d \in Uploaders : ~InProgress(d)
    BY <1>4 DEF UploadsHold, InProgress, Active
  <2>2. \A d \in Uploaders : upload'[d] = IF d = c THEN [step |-> "prepared", version |-> v] ELSE upload[d]
    BY <1>1 DEF TypeOK
  <2>3. tech'[v] = "UPLOAD_PENDING"
    BY <1>1 DEF TypeOK
  <2> QED BY <2>1, <2>2, <2>3 DEF UploadsHold, InProgress
<1>7. OneAtATime'
  <2>1. \A u \in Versions : v < u => tech[u] = "NONE"
    BY <1>3 DEF OneAtATime
  <2> QED BY <1>1, <1>3, <1>4, <2>1, VersionsAreNumbers DEF TypeOK, OneAtATime
<1>8. WorkHolds' /\ OnlyCleanIsApproved'
  BY <1>1, <1>2 DEF TypeOK, WorkHolds, OnlyCleanIsApproved
<1>9. ReviewMatchesCurrent'
  <2>1. \A u \in Versions : tech'[u] = "READY_FOR_REVIEW" <=> tech[u] = "READY_FOR_REVIEW"
    BY <1>1, <1>3 DEF TypeOK
  <2> QED BY <1>2, <2>1 DEF ReviewMatchesCurrent
<1> QED BY <1>5, <1>6, <1>7, <1>8, <1>9

(* A version leaves UPLOAD_PENDING only by the upload that owns it: the    *)
(* others keep theirs, and neither workers nor reviews look at it.         *)
LEMMA UploadStepKeeps ==
  ASSUME IInv, NEW c \in Uploaders, NEW t \in [step : {"idle", "stored", "failed"}, version : Versions \cup {None}],
         upload' = [upload EXCEPT ![c] = t],
         t.step # "idle" => t.version \in Versions,
         t.step = "stored" => InProgress(c) /\ t.version = upload[c].version /\ tech' = tech,
         tech' # tech =>
           /\ InProgress(c)
           /\ \E next \in {"UPLOAD_FAILED", "QUARANTINED"} : tech' = [tech EXCEPT ![upload[c].version] = next],
         TypeOK',
         status' \in {status, "CARGADO"},
         UNCHANGED <<file, replaced, current, review, approved, seen, work>>
  PROVE  IInv'
<1> DEFINE v == upload[c].version
<1> USE DEF IInv
<1>1. \A d \in Uploaders : upload'[d] = IF d = c THEN t ELSE upload[d]
  BY DEF TypeOK
<1>2. \A u \in Versions : tech'[u] # tech[u] =>
         u = v /\ InProgress(c) /\ tech[u] = "UPLOAD_PENDING" /\ tech'[u] \in {"UPLOAD_FAILED", "QUARANTINED"}
  BY DEF TypeOK, UploadsHold
<1> HIDE DEF v
<1>3. UploadsHold'
  <2>1. ASSUME NEW d \in Uploaders, InProgress(d)' PROVE tech'[upload'[d].version] = "UPLOAD_PENDING"
    <3>1. CASE d = c BY <3>1, <1>1, <2>1 DEF InProgress, UploadsHold, v
    <3>2. CASE d # c
      <4>1. InProgress(d) /\ ~InProgress(c) BY <3>2, <1>1, <2>1 DEF InProgress, UploadsHold
      <4> QED BY <4>1, <3>2, <1>1 DEF UploadsHold
    <3> QED BY <3>1, <3>2
  <2>2. \A d \in Uploaders : InProgress(d)' => InProgress(d)
    BY <1>1 DEF InProgress
  <2>3. \A d \in Uploaders : upload'[d].step # "idle" => upload'[d].version \in Versions
    BY <1>1 DEF UploadsHold
  <2> QED BY <2>1, <2>2, <2>3 DEF UploadsHold
<1>4. OneAtATime'
  BY <1>2 DEF OneAtATime, Active
<1>5. WorkHolds'
  BY DEF WorkHolds
<1>6. \A u \in Versions : tech'[u] = "READY_FOR_REVIEW" <=> tech[u] = "READY_FOR_REVIEW"
  BY <1>2
<1>7. OnlyCleanIsApproved' /\ ReviewMatchesCurrent'
  BY <1>6 DEF OnlyCleanIsApproved, ReviewMatchesCurrent
<1> QED BY <1>3, <1>4, <1>5, <1>7

LEMMA QuarantinedIsTyped ==
  ASSUME TypeOK, NEW v \in Versions, Quarantined(v),
         UNCHANGED <<file, replaced, current, review, quarantine, approved, seen, work>>,
         upload' \in [Uploaders -> [step : {"idle", "prepared", "stored", "failed"},
                                   version : Versions \cup {None}]],
         faults' \in Nat
  PROVE  TypeOK'
BY DEF TypeOK, Quarantined, Active, NoJob

LEMMA UploaderKeeps ==
  ASSUME IInv, NEW c \in Uploaders,
         StoreFile(c) \/ StoreFails(c) \/ FinishUpload(c) \/ FinishFails(c)
           \/ DeleteAfterFailure(c) \/ UploaderCrashes(c)
  PROVE  IInv'
<1> DEFINE v == upload[c].version
<1> USE DEF IInv, versionVars, submissionVars, storageVars
<1>1. upload[c] \in [step : {"idle", "prepared", "stored", "failed"}, version : Versions \cup {None}]
  BY DEF TypeOK
<1>2. upload[c].step # "idle" => v \in Versions
  BY DEF UploadsHold
<1>3. NoUpload \in [step : {"idle", "stored", "failed"}, version : Versions \cup {None}]
  BY DEF NoUpload
<1>4. CASE StoreFile(c)
  <2>1. TypeOK' BY <1>4, <1>2 DEF TypeOK, StoreFile
  <2>2. PICK t : t = [upload[c] EXCEPT !.step = "stored"] OBVIOUS
  <2>3. upload' = [upload EXCEPT ![c] = t] BY <1>4, <2>2 DEF StoreFile
  <2> QED BY <1>4, <1>1, <1>2, <2>1, <2>2, <2>3, UploadStepKeeps DEF StoreFile, InProgress
<1>5. CASE StoreFails(c)
  <2>1. TypeOK' BY <1>5, <1>2, <1>3 DEF TypeOK, StoreFails, Fault
  <2>2. InProgress(c) /\ upload' = [upload EXCEPT ![c] = NoUpload] /\ status' = status
    BY <1>5 DEF StoreFails, InProgress
  <2>3. tech' = [tech EXCEPT ![v] = "UPLOAD_FAILED"]
    BY <1>5, <2>2 DEF StoreFails, UploadsHold
  <2> QED BY <1>5, <1>3, <2>1, <2>2, <2>3, UploadStepKeeps DEF StoreFails, NoUpload
<1>6. CASE FinishUpload(c)
  <2>1. InProgress(c) /\ Quarantined(v) /\ upload' = [upload EXCEPT ![c] = NoUpload]
    BY <1>6 DEF FinishUpload, InProgress
  <2>2. TypeOK' BY <1>6, <1>2, <1>3, <2>1, QuarantinedIsTyped DEF FinishUpload, InProgress, TypeOK
  <2> QED BY <1>6, <1>3, <2>1, <2>2, UploadStepKeeps DEF FinishUpload, Quarantined, NoUpload
<1>7. CASE FinishFails(c)
  <2>1. PICK t : t = [upload[c] EXCEPT !.step = "failed"] OBVIOUS
  <2>2. InProgress(c) /\ upload' = [upload EXCEPT ![c] = t]
    BY <1>7, <2>1 DEF FinishFails, InProgress
  <2>3. t \in [step : {"idle", "stored", "failed"}, version : Versions \cup {None}] /\ t.step = "failed" /\ t.version = v
    BY <1>1, <2>1
  <2>4. TypeOK'
    <3>1. CASE Quarantined(v) BY <1>7, <1>2, <2>2, <2>3, <3>1, QuarantinedIsTyped DEF FinishFails, Fault, InProgress, TypeOK
    <3>2. CASE UNCHANGED <<tech, status, job>> BY <1>7, <2>2, <2>3, <3>2 DEF FinishFails, Fault, TypeOK
    <3> QED BY <1>7, <3>1, <3>2 DEF FinishFails
  <2> QED BY <1>7, <1>2, <2>2, <2>3, <2>4, UploadStepKeeps DEF FinishFails, Quarantined, InProgress
<1>8. CASE DeleteAfterFailure(c) \/ UploaderCrashes(c)
  <2>1. TypeOK' BY <1>8, <1>3 DEF TypeOK, DeleteAfterFailure, UploaderCrashes, Fault
  <2>2. upload' = [upload EXCEPT ![c] = NoUpload] /\ status' = status /\ tech' = tech
    BY <1>8 DEF DeleteAfterFailure, UploaderCrashes
  <2> QED BY <1>8, <1>3, <2>1, <2>2, UploadStepKeeps DEF DeleteAfterFailure, UploaderCrashes, NoUpload
<1> QED BY <1>4, <1>5, <1>6, <1>7, <1>8

-----------------------------------------------------------------------------
(* Reviews *)

LEMMA ReviewKeeps ==
  ASSUME IInv,
         \/ ExemptDocument
         \/ \E r \in Reviewers :
              OpenReview(r) \/ AcceptDocument(r) \/ ObserveDocument(r) \/ CloseReview(r)
  PROVE  IInv'
<1> USE DEF IInv, versionVars, submissionVars, storageVars, OpenReview, AcceptDocument, ObserveDocument,
            CloseReview, Review, ExemptDocument
<1>1. UNCHANGED <<tech, file, replaced, current, quarantine, approved, job, upload, work, faults>>
  OBVIOUS
<1>2. TypeOK'
  BY <1>1 DEF TypeOK
<1>3. UploadsHold' /\ OneAtATime' /\ WorkHolds' /\ OnlyCleanIsApproved'
  BY <1>1 DEF UploadsHold, InProgress, OneAtATime, WorkHolds, OnlyCleanIsApproved
<1>4. ReviewMatchesCurrent'
  BY <1>1 DEF ReviewMatchesCurrent
<1> QED BY <1>2, <1>3, <1>4

-----------------------------------------------------------------------------
(* The worker *)

(* A delivery that leaves the version and the approved objects as they are.*)
LEMMA DeliveryKeeps ==
  ASSUME IInv, NEW w \in Workers, NEW t,
         work' = [work EXCEPT ![w] = t],
         t \in [step : {"idle", "claimed", "processing", "promoted", "settled", "done"},
                version : Versions \cup {None}, outcome : {"none"} \cup Terminal],
         t.step # "idle" => t.version \in Versions,
         t.step = "promoted" => t.outcome \in Terminal
           /\ (t.outcome = "READY_FOR_REVIEW" => t.version \in approved'),
         job' \in [Versions -> [status : {"NONE", "PENDING", "PROCESSING", "SENT", "FAILED"},
                               attempts : Nat, owner : Workers \cup {"nobody"}]],
         quarantine' \subseteq Versions, faults' \in Nat,
         approved' = approved \/ (\E v \in Versions : file[v] = "clean" /\ approved' = approved \cup {v}),
         tech' = tech \/ (\E v \in Versions : tech[v] = "QUARANTINED" /\ tech' = [tech EXCEPT ![v] = "PROCESSING"]),
         UNCHANGED <<file, replaced, status, current, review, upload, seen>>
  PROVE  IInv'
<1> USE DEF IInv
<1>1. \A x \in Workers : work'[x] = IF x = w THEN t ELSE work[x]
  BY DEF TypeOK
<1>2. \A u \in Versions : \/ tech'[u] = tech[u]
                          \/ tech[u] = "QUARANTINED" /\ tech'[u] = "PROCESSING"
  BY DEF TypeOK
<1>3. TypeOK'
  BY DEF TypeOK, Active
<1>4. UploadsHold' /\ OneAtATime'
  BY <1>2 DEF UploadsHold, InProgress, OneAtATime, Active
<1>5. WorkHolds'
  BY <1>1 DEF WorkHolds
<1>6. OnlyCleanIsApproved' /\ ReviewMatchesCurrent'
  BY <1>2 DEF OnlyCleanIsApproved, ReviewMatchesCurrent
<1> QED BY <1>3, <1>4, <1>5, <1>6

DeliveryStep(w) ==
  \/ StartProcessing(w) \/ ReadFails(w) \/ Promote(w) \/ DeleteQuarantine(w)
  \/ MarkSent(w) \/ DeliveryFails(w) \/ WorkerCrashes(w)

LEMMA WorkerKeeps ==
  ASSUME IInv, NEW w \in Workers
  PROVE  DeliveryStep(w) \/ (\E v \in Versions : Claim(w, v)) => IInv'
<1> DEFINE v == work[w].version
           WorkType == [step : {"idle", "claimed", "processing", "promoted", "settled", "done"},
                        version : Versions \cup {None}, outcome : {"none"} \cup Terminal]
           JobType == [Versions -> [status : {"NONE", "PENDING", "PROCESSING", "SENT", "FAILED"},
                                    attempts : Nat, owner : Workers \cup {"nobody"}]]
<1> USE DEF IInv, versionVars, submissionVars, storageVars, Busy, Fault, NoFault
<1>1. /\ work[w] \in [step : {"idle", "claimed", "processing", "scanned", "promoted", "settled", "done"},
                      version : Versions \cup {None}, outcome : {"none"} \cup Terminal]
      /\ job \in JobType /\ quarantine \subseteq Versions /\ faults \in Nat
  BY DEF TypeOK
<1>2. work[w].step # "idle" => v \in Versions
  BY DEF WorkHolds
<1>3. NoWork \in WorkType /\ NoWork.step = "idle"
  BY DEF NoWork
<1>4. ASSUME NEW u \in Versions, Claim(w, u) PROVE IInv'
  <2>1. PICK t : t = [NoWork EXCEPT !.step = "claimed", !.version = u] OBVIOUS
  <2>2. work' = [work EXCEPT ![w] = t] BY <1>4, <2>1 DEF Claim
  <2>3. t \in WorkType /\ t.step = "claimed" /\ t.version = u BY <2>1 DEF NoWork
  <2>4. job' \in JobType BY <1>1, <1>4 DEF Claim
  <2>5. faults' \in Nat BY <1>1, <1>4 DEF Claim
  <2>6. UNCHANGED <<tech, file, replaced, status, current, review, quarantine, approved, upload, seen>>
    BY <1>4 DEF Claim
  <2> QED BY <1>1, <2>2, <2>3, <2>4, <2>5, <2>6, DeliveryKeeps
<1>5. CASE StartProcessing(w)
  <2>1. PICK t : t = [work[w] EXCEPT !.step = IF tech[v] \in Terminal THEN "done" ELSE "processing"] OBVIOUS
  <2>2. work' = [work EXCEPT ![w] = t] BY <1>5, <2>1 DEF StartProcessing
  <2>3. t \in WorkType /\ t.step \in {"done", "processing"} /\ t.version = v BY <1>1, <2>1
  <2>4. v \in Versions BY <1>2, <1>5 DEF StartProcessing
  <2>5. tech' = tech \/ (tech[v] = "QUARANTINED" /\ tech' = [tech EXCEPT ![v] = "PROCESSING"])
    BY <1>5, <2>4 DEF StartProcessing, TypeOK
  <2>6. UNCHANGED <<file, replaced, status, current, review, quarantine, approved, job, upload, seen, faults>>
    BY <1>5 DEF StartProcessing
  <2> QED BY <1>1, <2>2, <2>3, <2>4, <2>5, <2>6, DeliveryKeeps
<1>6. CASE ReadFails(w)
  <2>1. PICK t : t = [work[w] EXCEPT !.outcome = "BLOCKED_INVALID", !.step = "promoted"] OBVIOUS
  <2>2. work' = [work EXCEPT ![w] = t] BY <1>6, <2>1 DEF ReadFails, Inspected
  <2>3. t \in WorkType /\ t.step = "promoted" /\ t.version = v /\ t.outcome = "BLOCKED_INVALID"
    BY <1>1, <2>1 DEF Terminal, Blocked
  <2>4. v \in Versions /\ t.outcome \in Terminal BY <1>2, <1>6, <2>3 DEF ReadFails, Terminal, Blocked
  <2>5. UNCHANGED <<tech, file, replaced, status, current, review, quarantine, approved, job, upload, seen>>
    BY <1>6 DEF ReadFails
  <2>6. faults' \in Nat BY <1>1, <1>6 DEF ReadFails
  <2> QED BY <1>1, <2>2, <2>3, <2>4, <2>5, <2>6, DeliveryKeeps
<1>7. CASE Promote(w)
  <2>1. PICK t : t = [work[w] EXCEPT !.step = "promoted"] OBVIOUS
  <2>2. work' = [work EXCEPT ![w] = t] BY <1>7, <2>1 DEF Promote
  <2>3. t \in WorkType /\ t.step = "promoted" /\ t.version = v /\ t.outcome = work[w].outcome BY <1>1, <2>1
  <2>4. v \in Versions /\ file[v] = "clean" /\ t.outcome = "READY_FOR_REVIEW"
    BY <1>2, <1>7, <2>3 DEF Promote, WorkHolds
  <2>5. approved' = approved \cup {v} BY <1>7 DEF Promote
  <2>6. t.outcome \in Terminal BY <2>4 DEF Terminal
  <2>7. UNCHANGED <<tech, file, replaced, status, current, review, quarantine, job, upload, seen, faults>>
    BY <1>7 DEF Promote
  <2>8. v \in approved' BY <2>5
  <2> QED BY <1>1, <2>2, <2>3, <2>4, <2>5, <2>6, <2>7, <2>8, DeliveryKeeps
<1>8. CASE DeleteQuarantine(w)
  <2>1. PICK t : t = [work[w] EXCEPT !.step = "done"] OBVIOUS
  <2>2. work' = [work EXCEPT ![w] = t] BY <1>8, <2>1 DEF DeleteQuarantine
  <2>3. t \in WorkType /\ t.step = "done" /\ t.version = v BY <1>1, <2>1
  <2> QED BY <1>1, <1>2, <1>8, <2>2, <2>3, DeliveryKeeps DEF DeleteQuarantine
<1>9. CASE MarkSent(w) \/ DeliveryFails(w) \/ WorkerCrashes(w)
  <2>1. job' \in JobType BY <1>1, <1>2, <1>9 DEF MarkSent, DeliveryFails, WorkerCrashes
  <2>2. work' = [work EXCEPT ![w] = NoWork] BY <1>9 DEF MarkSent, DeliveryFails, WorkerCrashes
  <2>3. faults' \in Nat BY <1>1, <1>9 DEF MarkSent, DeliveryFails, WorkerCrashes
  <2> QED BY <1>1, <1>3, <1>9, <2>1, <2>2, <2>3, DeliveryKeeps DEF MarkSent, DeliveryFails, WorkerCrashes
<1> QED BY <1>4, <1>5, <1>6, <1>7, <1>8, <1>9 DEF DeliveryStep

(* What one worker reads is what every other one read before it. *)
LEMMA InspectKeeps ==
  ASSUME IInv, NEW w \in Workers, Inspect(w) PROVE IInv'
<1> DEFINE v == work[w].version
<1> USE DEF IInv, versionVars, submissionVars, storageVars
<1>1. v \in Versions /\ work[w].step = "processing"
  BY DEF Inspect, Busy, WorkHolds
<1>2. UNCHANGED <<tech, replaced, status, current, review, quarantine, approved, job, upload, seen, faults>>
  BY DEF Inspect
<1>3. PICK f, o :
        /\ Inspected(w, o)
        /\ \/ f \in Bytes(v) /\ file' = [file EXCEPT ![v] = f] /\ o \in ScanOutcomes(f)
           \/ o = "BLOCKED_INVALID" /\ file' = file
  BY DEF Inspect
<1>4. \A u \in Versions : file'[u] \in Files \cup {"unread"} /\ (file[u] # "unread" => file'[u] = file[u])
  BY <1>1, <1>3 DEF Bytes, Files, TypeOK
<1>5. o \in Terminal /\ (o = "READY_FOR_REVIEW" => file'[v] = "clean")
  <2>1. CASE o = "BLOCKED_INVALID" BY <2>1 DEF Terminal, Blocked
  <2>2. CASE f \in Bytes(v) /\ file' = [file EXCEPT ![v] = f] /\ o \in ScanOutcomes(f)
    <3>1. f \in Files BY <1>1, <2>2 DEF Bytes, TypeOK
    <3> QED BY <1>1, <2>2, <3>1 DEF ScanOutcomes, Files, Terminal, Blocked, TypeOK
  <2> QED BY <1>3, <2>1, <2>2
<1>6. TypeOK'
  <2>1. file' \in [Versions -> Files \cup {"unread"}]
    BY <1>1, <1>3, <1>4 DEF TypeOK
  <2>2. work' \in [Workers -> [step : {"idle", "claimed", "processing", "scanned",
                                      "promoted", "settled", "done"},
                               version : Versions \cup {None},
                               outcome : {"none"} \cup Terminal]]
    <3>1. PICK t : t = [work[w] EXCEPT !.outcome = o, !.step = IF o = "READY_FOR_REVIEW" THEN "scanned" ELSE "promoted"]
      OBVIOUS
    <3>2. work[w] \in [step : {"idle", "claimed", "processing", "scanned", "promoted", "settled", "done"},
                      version : Versions \cup {None}, outcome : {"none"} \cup Terminal]
      BY DEF TypeOK
    <3>3. t \in [step : {"idle", "claimed", "processing", "scanned", "promoted", "settled", "done"},
                version : Versions \cup {None}, outcome : {"none"} \cup Terminal]
      BY <1>5, <3>1, <3>2
    <3>4. work' = [work EXCEPT ![w] = t]
      BY <1>3, <3>1 DEF Inspected
    <3> QED BY <3>3, <3>4 DEF TypeOK
  <2> QED BY <1>2, <2>1, <2>2 DEF TypeOK
<1>7. UploadsHold' /\ OneAtATime' /\ ReviewMatchesCurrent'
  BY <1>2 DEF UploadsHold, InProgress, OneAtATime, ReviewMatchesCurrent
<1>8. WorkHolds'
  <2>1. \A x \in Workers \ {w} : work'[x] = work[x]
    BY <1>3 DEF Inspected, TypeOK
  <2>2. /\ work'[w].version = v /\ work'[w].outcome = o
        /\ work'[w].step = IF o = "READY_FOR_REVIEW" THEN "scanned" ELSE "promoted"
    BY <1>3 DEF Inspected, TypeOK
  <2> QED BY <1>1, <1>2, <1>4, <1>5, <2>1, <2>2 DEF WorkHolds
<1>9. OnlyCleanIsApproved'
  BY <1>2, <1>4 DEF OnlyCleanIsApproved, TypeOK
<1> QED BY <1>6, <1>7, <1>8, <1>9

(* The version a worker settles is the newest one, and becomes current.    *)
LEMMA FinishKeeps ==
  ASSUME IInv, NEW w \in Workers, FinishProcessing(w) PROVE IInv'
<1> DEFINE v == work[w].version
           outcome == work[w].outcome
<1> USE VersionsAreNumbers DEF IInv, storageVars
<1>1. v \in Versions /\ outcome \in Terminal /\ (outcome = "READY_FOR_REVIEW" => v \in approved)
  BY DEF FinishProcessing, Busy, WorkHolds
<1>2. UNCHANGED <<file, review, quarantine, approved, job, upload, seen, faults>> /\ Settle(v, outcome)
  BY DEF FinishProcessing
<1>3. PICK t : /\ t = [work[w] EXCEPT !.step = IF outcome = "READY_FOR_REVIEW" THEN "settled" ELSE "done"]
               /\ work' = [work EXCEPT ![w] = t]
  BY DEF FinishProcessing
<1>4. /\ t.version = v /\ t.step \in {"settled", "done"}
      /\ t \in [step : {"idle", "claimed", "processing", "scanned", "promoted", "settled", "done"},
               version : Versions \cup {None}, outcome : {"none"} \cup Terminal]
  <2>1. work[w] \in [step : {"idle", "claimed", "processing", "scanned", "promoted", "settled", "done"},
                    version : Versions \cup {None}, outcome : {"none"} \cup Terminal]
    BY DEF TypeOK
  <2> QED BY <1>3, <2>1 DEF v
<1> HIDE DEF v, outcome
<1>5. TypeOK'
  <2>1. work' \in [Workers -> [step : {"idle", "claimed", "processing", "scanned",
                                      "promoted", "settled", "done"},
                               version : Versions \cup {None},
                               outcome : {"none"} \cup Terminal]]
    BY <1>3, <1>4 DEF TypeOK
  <2>2. tech' \in [Versions -> {"NONE", "UPLOAD_FAILED"} \cup Active \cup Terminal]
    BY <1>1, <1>2 DEF TypeOK, Settle
  <2>3. current' \in {current, v} /\ (replaced' = replaced \/ replaced' = replaced \cup ({current} \ {None, v}))
    BY <1>2 DEF Settle
  <2>4. status' \in {status, "EN_REVISION"}
    BY <1>2 DEF Settle
  <2> QED BY <1>1, <1>2, <2>1, <2>2, <2>3, <2>4 DEF TypeOK
<1>6. WorkHolds'
  BY <1>1, <1>2, <1>3, <1>4 DEF WorkHolds, TypeOK
<1>7. CASE tech[v] # "PROCESSING"
  <2>1. UNCHANGED <<tech, replaced, current, status>> BY <1>2, <1>7 DEF Settle
  <2> QED BY <1>2, <1>5, <1>6, <2>1
          DEF UploadsHold, InProgress, OneAtATime, OnlyCleanIsApproved, ReviewMatchesCurrent
<1>8. CASE tech[v] = "PROCESSING"
  <2>1. \A u \in Versions : tech'[u] = IF u = v THEN outcome ELSE tech[u]
    BY <1>2, <1>8 DEF Settle, TypeOK
  <2>2. UploadsHold'
    BY <1>2, <1>8, <2>1 DEF UploadsHold, InProgress
  <2>3. OneAtATime'
    BY <1>1, <1>8, <2>1 DEF OneAtATime, Active, Terminal, Blocked
  <2>4. OnlyCleanIsApproved'
    BY <1>1, <1>2, <2>1 DEF OnlyCleanIsApproved
  <2>5. CASE outcome # "READY_FOR_REVIEW"
    <3>1. UNCHANGED <<replaced, current, status>> BY <1>2, <1>8, <2>5 DEF Settle
    <3>2. ReviewMatchesCurrent' BY <1>2, <1>8, <2>1, <2>5, <3>1 DEF ReviewMatchesCurrent
    <3> QED BY <1>5, <1>6, <2>2, <2>3, <2>4, <3>2
  <2>6. CASE outcome = "READY_FOR_REVIEW"
    <3>1. replaced' = replaced \cup ({current} \ {None, v}) /\ current' = v /\ status' = "EN_REVISION"
      BY <1>2, <1>8, <2>6 DEF Settle
    <3>2. \A u \in Versions : tech[u] = "READY_FOR_REVIEW" => u < v
      BY <1>1, <1>8 DEF OneAtATime, Active
    <3>3. current # None => current \in Versions /\ tech[current] = "READY_FOR_REVIEW"
      BY DEF TypeOK, ReviewMatchesCurrent
    <3>4. \A u \in replaced' : u \in Versions /\ u < v
      BY <3>1, <3>2, <3>3 DEF ReviewMatchesCurrent, TypeOK
    <3>5. \A u \in Versions : tech'[u] = "READY_FOR_REVIEW" <=> u = current' \/ u \in replaced'
      BY <1>8, <2>1, <2>6, <3>1 DEF ReviewMatchesCurrent
    <3>6. ReviewMatchesCurrent'
      BY <3>1, <3>4, <3>5 DEF ReviewMatchesCurrent
    <3> QED BY <1>5, <1>6, <2>2, <2>3, <2>4, <3>6
  <2> QED BY <2>5, <2>6
<1> QED BY <1>7, <1>8

-----------------------------------------------------------------------------
(* The invariant is inductive. *)
LEMMA StepHolds == IInv /\ [Next]_vars => IInv'
<1> SUFFICES ASSUME IInv, [Next]_vars PROVE IInv'
  OBVIOUS
<1>1. ASSUME NEW c \in Uploaders,
             PrepareUpload(c) \/ AdvanceUpload(c) \/ StoreFails(c) \/ FinishFails(c) \/ UploaderCrashes(c)
      PROVE  IInv'
  BY <1>1, PrepareKeeps, UploaderKeeps DEF AdvanceUpload
<1>2. ASSUME NEW r \in Reviewers,
             OpenReview(r) \/ AcceptDocument(r) \/ ObserveDocument(r) \/ CloseReview(r)
      PROVE  IInv'
  BY <1>2, ReviewKeeps
<1>3. CASE ExemptDocument
  BY <1>3, ReviewKeeps
<1>4. ASSUME NEW w \in Workers,
             (\E v \in Versions : Claim(w, v)) \/ Deliver(w) \/ ReadFails(w) \/ DeliveryFails(w)
               \/ WorkerCrashes(w)
      PROVE  IInv'
  BY <1>4, WorkerKeeps, InspectKeeps, FinishKeeps DEF Deliver, DeliveryStep
<1>5. CASE UNCHANGED vars
  BY <1>5 DEF IInv, TypeOK, UploadsHold, InProgress, OneAtATime, WorkHolds, OnlyCleanIsApproved,
              ReviewMatchesCurrent, vars, versionVars, submissionVars, storageVars
<1> QED BY <1>1, <1>2, <1>3, <1>4, <1>5 DEF Next

LEMMA Inductive == Spec => []IInv
BY InitHolds, StepHolds, PTL DEF Spec

(* Every row, object and request of the pipeline keeps its shape. *)
THEOREM DocumentTypes == Spec => []TypeOK
<1>1. IInv => TypeOK BY DEF IInv
<1> QED BY Inductive, <1>1, PTL

(* Fail closed: whatever fails, is redelivered or races, only clean files  *)
(* reach the approved area, and what is offered for review is there.       *)
THEOREM FailsClosed == Spec => []OnlyCleanIsApproved
<1>1. IInv => OnlyCleanIsApproved BY DEF IInv
<1> QED BY Inductive, <1>1, PTL

(* A verdict is about the current version, which is the newest reviewable  *)
(* one, and all the older ones are marked as replaced.                     *)
THEOREM VerdictIsOnCurrent == Spec => []ReviewMatchesCurrent
<1>1. IInv => ReviewMatchesCurrent BY DEF IInv
<1> QED BY Inductive, <1>1, PTL

-----------------------------------------------------------------------------
(* What stops a file *)

Waiting == {"QUARANTINED", "PROCESSING"}

(* The job of a version exists once the upload is finished, a worker that  *)
(* is past a step has a version that is past it too, and an upload has a   *)
(* version of its own, whose object is there once it is stored.            *)
StagesMatch ==
  /\ \A v \in Versions :
       /\ tech[v] \in {"NONE", "UPLOAD_PENDING", "UPLOAD_FAILED"} => job[v] = NoJob
       /\ tech[v] \in Waiting => job[v].status \in {"PENDING", "PROCESSING", "FAILED"}
  /\ \A w \in Workers :
       /\ IF work[w].step = "idle" THEN work[w].version = None
          ELSE tech[work[w].version] \in Waiting \cup Terminal
       /\ work[w].step \in {"processing", "scanned", "promoted"} => tech[work[w].version] # "QUARANTINED"
       /\ work[w].step \in {"settled", "done"} => tech[work[w].version] \in Terminal
  /\ \A c \in Uploaders :
       /\ upload[c].step # "idle" =>
            /\ tech[upload[c].version] # "NONE"
            /\ \A d \in Uploaders :
                 upload[d].step # "idle" /\ upload[d].version = upload[c].version => c = d
       /\ upload[c].step \in {"stored", "failed"} /\ tech[upload[c].version] \in Waiting \cup {"UPLOAD_PENDING"} =>
            upload[c].version \in quarantine
       /\ upload[c].step = "failed" => faults > 0

(* The job has an owner that still works on it. *)
Held(v) == \E w \in Workers : Owner(w, v) /\ work[w].version = v

(* The object of a file that waits is deleted, or may be, because the      *)
(* answer to its upload was lost: one delivery may fail for that.          *)
AnswerLost(v) ==
  \/ \E c \in Uploaders : upload[c].step = "failed" /\ upload[c].version = v
  \/ /\ v \notin quarantine \cup approved
     /\ \E w \in Workers : Owner(w, v) /\ work[w].version = v /\ work[w].step = "scanned"

(* Every delivery of a file that waits, but for the one in progress, was   *)
(* lost to a fault of its own.                                             *)
Paid(v) ==
  tech[v] \in Waiting =>
    /\ job[v].status \in {"PENDING", "PROCESSING"} =>
         job[v].attempts + (IF AnswerLost(v) THEN 1 ELSE 0) <= faults + (IF Held(v) THEN 1 ELSE 0)
    /\ job[v].status = "FAILED" => faults >= MaxAttempts
DeliveriesArePaid == \A v \in Versions : Paid(v)

(* Before the first fault a delivery owns its job, no object is missing,   *)
(* and what a worker found is what the file is.                            *)
NothingLostYet ==
  faults = 0 =>
    /\ \A w \in Workers : work[w].step # "idle" =>
         /\ Owner(w, work[w].version)
         /\ work[w].step \in {"processing", "scanned", "promoted"} => tech[work[w].version] = "PROCESSING"
         /\ work[w].step = "promoted" /\ work[w].outcome = "BLOCKED_INVALID" => file[work[w].version] = "invalid"
    /\ \A v \in Versions :
         /\ tech[v] \in Waiting => v \in quarantine
         /\ tech[v] = "BLOCKED_INVALID" => file[v] = "invalid"
         /\ tech[v] = "UPLOAD_PENDING" => BeingUploaded(v)

FaultInv == IInv /\ StagesMatch /\ DeliveriesArePaid /\ NothingLostYet

LEMMA FaultInit == Init => FaultInv
<1> SUFFICES ASSUME Init PROVE FaultInv
  OBVIOUS
<1>1. IInv BY InitHolds
<1> USE DEF Init, NoUpload, NoWork, NoJob, Waiting
<1>2. StagesMatch BY DEF StagesMatch
<1>3. DeliveriesArePaid BY DEF DeliveriesArePaid, Paid
<1>4. NothingLostYet BY DEF NothingLostYet
<1> QED BY <1>1, <1>2, <1>3, <1>4 DEF FaultInv

(* The invariant says what it is for. *)
LEMMA FaultInvSays == FaultInv => OnlyFaultsStopAFile
<1> SUFFICES ASSUME FaultInv, NEW v \in Versions
             PROVE  /\ tech[v] \in {"QUARANTINED", "PROCESSING"} =>
                         \/ job[v].status \in {"PENDING", "PROCESSING"}
                         \/ job[v].status = "FAILED" /\ faults >= MaxAttempts
                    /\ tech[v] = "UPLOAD_PENDING" => BeingUploaded(v) \/ faults > 0
                    /\ tech[v] = "BLOCKED_INVALID" => file[v] = "invalid" \/ faults > 0
  BY DEF OnlyFaultsStopAFile
<1>1. faults \in Nat BY DEF FaultInv, IInv, TypeOK
<1>2. faults = 0 \/ faults > 0 BY <1>1
<1>3. tech[v] \in {"QUARANTINED", "PROCESSING"} =>
        \/ job[v].status \in {"PENDING", "PROCESSING"}
        \/ job[v].status = "FAILED" /\ faults >= MaxAttempts
  BY DEF FaultInv, StagesMatch, DeliveriesArePaid, Paid, Waiting
<1>4. faults = 0 => /\ tech[v] = "UPLOAD_PENDING" => BeingUploaded(v)
                    /\ tech[v] = "BLOCKED_INVALID" => file[v] = "invalid"
  BY DEF FaultInv, NothingLostYet
<1> QED BY <1>2, <1>3, <1>4

-----------------------------------------------------------------------------
(* Uploads and reviews *)

(* A file whose job, owner and worker stay as they are stays paid, unless  *)
(* an answer to its upload is lost.                                        *)
LEMMA PaidStays ==
  ASSUME IInv, NEW v \in Versions, Paid(v),
         tech'[v] \in Waiting => tech[v] \in Waiting,
         job'[v] = job[v], faults' \in Nat, faults' >= faults,
         tech'[v] \in Waiting => (AnswerLost(v)' => AnswerLost(v)),
         Held(v) => Held(v)' \/ faults' >= faults + 1
  PROVE  Paid(v)'
<1>1. job[v].attempts \in Nat /\ faults \in Nat BY DEF IInv, TypeOK
<1>2. SUFFICES ASSUME tech'[v] \in Waiting
      PROVE /\ job'[v].status \in {"PENDING", "PROCESSING"} =>
                 job'[v].attempts + (IF AnswerLost(v)' THEN 1 ELSE 0) <= faults' + (IF Held(v)' THEN 1 ELSE 0)
            /\ job'[v].status = "FAILED" => faults' >= MaxAttempts
  BY DEF Paid
<1>3. job[v].status = "FAILED" => faults >= MaxAttempts BY <1>2 DEF Paid
<1>4. job[v].status \in {"PENDING", "PROCESSING"} =>
        job[v].attempts + (IF AnswerLost(v) THEN 1 ELSE 0) <= faults + (IF Held(v) THEN 1 ELSE 0)
  BY <1>2 DEF Paid
<1>5. AnswerLost(v)' => AnswerLost(v) BY <1>2
<1> HIDE DEF AnswerLost, Held
<1>6. MaxAttempts \in Nat BY DocumentBounds
<1> QED BY <1>1, <1>3, <1>4, <1>5, <1>6

(* An upload request that moves no job and no worker. *)
UploadMove(c, t) ==
  /\ upload' = [upload EXCEPT ![c] = t]
  /\ UNCHANGED <<file, job, work, approved>>
  /\ faults' \in Nat /\ faults' >= faults
  /\ t.step \in {"idle", "prepared", "stored", "failed"}
  /\ t.step = "prepared" => t.version \in Versions /\ tech[t.version] = "NONE"
                              /\ tech'[t.version] = "UPLOAD_PENDING"
  /\ t.step = "stored" => upload[c].step # "idle" /\ t.version = upload[c].version
                            /\ t.version \in quarantine'
  /\ t.step = "failed" => upload[c].step = "stored" /\ t.version = upload[c].version
                            /\ faults' > faults /\ tech' = tech
  /\ \A v \in Versions : \/ tech'[v] = tech[v]
                         \/ tech[v] = "NONE" /\ tech'[v] = "UPLOAD_PENDING"
                              /\ t.step = "prepared" /\ t.version = v
                         \/ tech[v] = "UPLOAD_PENDING" /\ tech'[v] = "UPLOAD_FAILED"
  /\ \A v \in quarantine \ quarantine' :
       upload[c].step = "failed" /\ v = upload[c].version /\ t.step = "idle"
  /\ InProgress(c) => \/ faults' > faults
                      \/ t.step \in {"prepared", "stored"} /\ t.version = upload[c].version

LEMMA UploaderFaults ==
  ASSUME FaultInv, IInv', NEW c \in Uploaders, NEW t, UploadMove(c, t)
  PROVE  FaultInv'
<1> USE DEF FaultInv, UploadMove
<1>1. \A d \in Uploaders : upload'[d] = IF d = c THEN t ELSE upload[d]
  BY DEF IInv, TypeOK
<1>2. faults \in Nat BY DEF IInv, TypeOK
<1>3. \A v \in Versions : (tech'[v] \in Waiting \cup Terminal \/ tech[v] \in Waiting \cup Terminal) => tech'[v] = tech[v]
  BY DEF Waiting, Terminal, Blocked
<1>4. StagesMatch'
  <2>1. \A v \in Versions :
          /\ tech'[v] \in {"NONE", "UPLOAD_PENDING", "UPLOAD_FAILED"} => job'[v] = NoJob
          /\ tech'[v] \in Waiting => job'[v].status \in {"PENDING", "PROCESSING", "FAILED"}
    BY <1>3 DEF StagesMatch, Waiting
  <2>2. \A w \in Workers : work[w].step # "idle" => tech'[work[w].version] = tech[work[w].version]
    BY <1>3 DEF StagesMatch, IInv, WorkHolds
  <2>3. \A d \in Uploaders : upload'[d].step = "failed" => faults' > 0
    BY <1>1, <1>2 DEF StagesMatch
  <2>4. ASSUME NEW d \in Uploaders, upload'[d].step # "idle"
        PROVE  \/ d # c /\ upload'[d] = upload[d]
               \/ d = c /\ upload[c].step # "idle" /\ upload'[c].version = upload[c].version
               \/ d = c /\ upload'[c] = t /\ t.step = "prepared"
    BY <1>1, <2>4
  <2>5. ASSUME NEW d \in Uploaders, upload'[d].step # "idle"
        PROVE  /\ tech'[upload'[d].version] # "NONE"
               /\ \A e \in Uploaders :
                    upload'[e].step # "idle" /\ upload'[e].version = upload'[d].version => d = e
    <3>1. ASSUME NEW e \in Uploaders, upload'[e].step # "idle", upload'[e] # t
          PROVE  upload[e].step # "idle" /\ upload[e].version = upload'[e].version /\ tech[upload'[e].version] # "NONE"
      BY <2>4, <3>1 DEF StagesMatch
    <3>2. tech'[upload'[d].version] # "NONE"
      BY <2>4, <2>5 DEF StagesMatch, IInv, UploadsHold
    <3>3. ASSUME NEW e \in Uploaders, upload'[e].step # "idle", upload'[e].version = upload'[d].version
          PROVE  d = e
      BY <2>4, <2>5, <3>3 DEF StagesMatch
    <3> QED BY <3>2, <3>3
  <2>6. ASSUME NEW d \in Uploaders, upload'[d].step \in {"stored", "failed"},
               tech'[upload'[d].version] \in Waiting \cup {"UPLOAD_PENDING"}
        PROVE  upload'[d].version \in quarantine'
    <3> DEFINE u == upload'[d].version
    <3>1. CASE d # c
      <4>1. upload'[d] = upload[d] BY <1>1, <3>1
      <4>2. u \in Versions /\ tech[u] # "NONE" BY <2>6, <4>1 DEF StagesMatch, IInv, UploadsHold
      <4>3. tech[u] \in Waiting \cup {"UPLOAD_PENDING"} BY <2>6, <4>2 DEF Waiting
      <4>4. u \in quarantine BY <2>6, <4>1, <4>3 DEF StagesMatch
      <4>5. upload[c].step # "idle" => upload[c].version # u BY <2>6, <3>1, <4>1 DEF StagesMatch
      <4> QED BY <4>4, <4>5
    <3>2. CASE d = c
      <4>1. CASE t.step = "stored" BY <1>1, <3>2, <4>1
      <4>2. CASE t.step = "failed"
        <5>1. u = upload[c].version /\ tech' = tech BY <1>1, <3>2, <4>2
        <5>2. u \in quarantine BY <2>6, <4>2, <5>1 DEF StagesMatch
        <5> QED BY <4>2, <5>2
      <4> QED BY <1>1, <2>6, <3>2, <4>1, <4>2
    <3> QED BY <3>1, <3>2
  <2> QED BY <2>1, <2>2, <2>3, <2>5, <2>6 DEF StagesMatch
<1>5. DeliveriesArePaid'
  <2> SUFFICES ASSUME NEW v \in Versions PROVE Paid(v)'
    BY DEF DeliveriesArePaid
  <2>1. Paid(v) BY DEF DeliveriesArePaid
  <2>2. Held(v) => Held(v)' BY DEF Held, Owner
  <2>3. tech'[v] \in Waiting => tech[v] \in Waiting BY <1>3
  <2>4. ASSUME tech'[v] \in Waiting, AnswerLost(v)' PROVE AnswerLost(v)
    <3>1. tech[v] \in Waiting BY <2>3, <2>4
    <3>2. CASE \E d \in Uploaders : upload'[d].step = "failed" /\ upload'[d].version = v
      <4>1. PICK d \in Uploaders : upload'[d].step = "failed" /\ upload'[d].version = v BY <3>2
      <4>2. CASE d # c BY <1>1, <4>1, <4>2 DEF AnswerLost
      <4>3. CASE d = c
        <5>1. upload[c].step = "stored" /\ upload[c].version = v BY <1>1, <4>1, <4>3
        <5>2. tech[v] = "UPLOAD_PENDING" BY <5>1 DEF IInv, UploadsHold, InProgress
        <5> QED BY <3>1, <5>2 DEF Waiting
      <4> QED BY <4>2, <4>3
    <3>3. CASE v \notin quarantine' \cup approved' /\ \E w \in Workers : Owner(w, v)' /\ work'[w].version = v /\ work'[w].step = "scanned"
      <4>1. \E w \in Workers : Owner(w, v) /\ work[w].version = v /\ work[w].step = "scanned"
        BY <3>3 DEF Owner
      <4>2. CASE v \in quarantine BY <3>3, <4>2 DEF AnswerLost
      <4>3. CASE v \notin quarantine BY <3>3, <4>1, <4>3 DEF AnswerLost
      <4> QED BY <4>2, <4>3
    <3> QED BY <2>4, <3>2, <3>3 DEF AnswerLost
  <2> QED BY <2>1, <2>2, <2>3, <2>4, PaidStays
<1>6. NothingLostYet'
  <2> SUFFICES ASSUME faults' = 0 PROVE NothingLostYet'
    BY DEF NothingLostYet
  <2>1. faults = 0 /\ ~(faults' > faults) BY <1>2
  <2>2. \A d \in Uploaders : upload[d].step # "failed" BY <2>1 DEF StagesMatch
  <2>3. quarantine \subseteq quarantine' BY <2>2
  <2>4. \A w \in Workers : work'[w].step # "idle" =>
         /\ Owner(w, work[w].version)'
         /\ work'[w].step \in {"processing", "scanned", "promoted"} => tech'[work'[w].version] = "PROCESSING"
         /\ work'[w].step = "promoted" /\ work'[w].outcome = "BLOCKED_INVALID" => file'[work'[w].version] = "invalid"
    BY <2>1, <1>3 DEF NothingLostYet, Owner, IInv, WorkHolds, Waiting
  <2>5. \A v \in Versions :
         /\ tech'[v] \in Waiting => v \in quarantine'
         /\ tech'[v] = "BLOCKED_INVALID" => file'[v] = "invalid"
    BY <2>1, <2>3, <1>3 DEF NothingLostYet, Terminal, Blocked
  <2>6. ASSUME NEW v \in Versions, tech'[v] = "UPLOAD_PENDING" PROVE BeingUploaded(v)'
    <3>1. CASE tech[v] = "UPLOAD_PENDING"
      <4>1. PICK d \in Uploaders : upload[d].version = v /\ upload[d].step \in {"prepared", "stored"}
        BY <2>1, <3>1 DEF NothingLostYet, BeingUploaded
      <4>2. CASE d # c BY <1>1, <4>1, <4>2 DEF BeingUploaded
      <4>3. CASE d = c BY <1>1, <2>1, <4>1, <4>3 DEF BeingUploaded, InProgress
      <4> QED BY <4>2, <4>3
    <3>2. CASE tech[v] # "UPLOAD_PENDING" BY <1>1, <2>6, <3>2 DEF BeingUploaded
    <3> QED BY <3>1, <3>2
  <2> QED BY <2>4, <2>5, <2>6 DEF NothingLostYet
<1> QED BY <1>4, <1>5, <1>6

(* The upload that is finished: its job is new, and its object is there    *)
(* unless a fault was the price of losing it.                              *)
LEMMA QuarantinedFaults ==
  ASSUME FaultInv, IInv', NEW c \in Uploaders, NEW t,
         upload[c].step = "stored", Quarantined(upload[c].version),
         upload' = [upload EXCEPT ![c] = t],
         UNCHANGED <<file, work, quarantine, approved>>,
         faults' \in Nat, faults' >= faults,
         \/ t.step = "idle"
         \/ t.step = "failed" /\ t.version = upload[c].version /\ faults' > faults
  PROVE  FaultInv'
<1> DEFINE v == upload[c].version
<1> USE DEF FaultInv
<1>1. \A d \in Uploaders : upload'[d] = IF d = c THEN t ELSE upload[d]
  BY DEF IInv, TypeOK
<1>2. faults \in Nat BY DEF IInv, TypeOK
<1>3. v \in Versions /\ tech[v] = "UPLOAD_PENDING" /\ job[v] = NoJob
  BY DEF IInv, UploadsHold, InProgress, StagesMatch
<1>4. \A u \in Versions : tech'[u] = IF u = v THEN "QUARANTINED" ELSE tech[u]
  BY <1>3 DEF Quarantined, IInv, TypeOK
<1>5. \A u \in Versions \ {v} : job'[u] = job[u]
  BY DEF Quarantined, IInv, TypeOK
<1>6. job'[v].status = "PENDING" /\ job'[v].attempts = 0
  BY <1>3 DEF Quarantined, IInv, TypeOK, NoJob
<1>7. \A w \in Workers : work[w].step # "idle" => work[w].version \in Versions \ {v}
  BY <1>3 DEF StagesMatch, IInv, WorkHolds, Waiting, Terminal, Blocked
<1> HIDE DEF v
<1>8. StagesMatch'
  <2>1. \A u \in Versions :
          /\ tech'[u] \in {"NONE", "UPLOAD_PENDING", "UPLOAD_FAILED"} => job'[u] = NoJob
          /\ tech'[u] \in Waiting => job'[u].status \in {"PENDING", "PROCESSING", "FAILED"}
    BY <1>4, <1>5, <1>6 DEF StagesMatch
  <2>2. \A w \in Workers : work[w].step # "idle" => tech'[work[w].version] = tech[work[w].version]
    BY <1>4, <1>7
  <2>3. \A d \in Uploaders : upload'[d].step = "failed" => faults' > 0
    BY <1>1, <1>2 DEF StagesMatch
  <2>4. ASSUME NEW d \in Uploaders, upload'[d].step # "idle"
        PROVE  upload[d].step # "idle" /\ upload'[d].version = upload[d].version
    BY <1>1, <2>4 DEF v
  <2>5. ASSUME NEW d \in Uploaders, upload'[d].step # "idle"
        PROVE  /\ tech'[upload'[d].version] # "NONE"
               /\ \A e \in Uploaders :
                    upload'[e].step # "idle" /\ upload'[e].version = upload'[d].version => d = e
    <3>1. tech'[upload'[d].version] # "NONE"
      BY <1>4, <2>4, <2>5 DEF StagesMatch, IInv, UploadsHold
    <3> QED BY <2>4, <2>5, <3>1 DEF StagesMatch
  <2>6. ASSUME NEW d \in Uploaders, upload'[d].step \in {"stored", "failed"},
               tech'[upload'[d].version] \in Waiting \cup {"UPLOAD_PENDING"}
        PROVE  upload'[d].version \in quarantine'
    <3>1. v \in quarantine BY <1>3 DEF StagesMatch, v
    <3>2. CASE upload'[d].version = v BY <3>1, <3>2
    <3>3. CASE upload'[d].version # v
      <4>1. d # c BY <1>1, <2>6, <3>3 DEF v
      <4>2. upload'[d] = upload[d] BY <1>1, <4>1
      <4>3. upload[d].version \in Versions BY <2>6, <4>2 DEF IInv, UploadsHold
      <4>4. tech[upload[d].version] \in Waiting \cup {"UPLOAD_PENDING"} BY <1>4, <2>6, <3>3, <4>2, <4>3
      <4> QED BY <2>6, <4>2, <4>4 DEF StagesMatch
    <3> QED BY <3>2, <3>3
  <2> QED BY <2>1, <2>2, <2>3, <2>5, <2>6 DEF StagesMatch
<1>9. DeliveriesArePaid'
  <2> SUFFICES ASSUME NEW u \in Versions PROVE Paid(u)'
    BY DEF DeliveriesArePaid
  <2>1. CASE u = v
    <3>1. ~Held(u)' BY <1>6, <2>1 DEF Held, Owner
    <3>2. faults' = 0 => ~AnswerLost(u)'
      <4>1. faults' = 0 => \A d \in Uploaders : upload'[d].step # "failed"
        BY <1>1, <1>2 DEF StagesMatch
      <4>2. \A w \in Workers : ~Owner(w, u)'
        BY <1>6, <2>1 DEF Owner
      <4> QED BY <4>1, <4>2 DEF AnswerLost
    <3>3. faults' \in Nat /\ (~AnswerLost(u)' \/ faults' # 0)
      BY ONLY <3>2, faults' \in Nat
    <3> HIDE DEF AnswerLost, Held
    <3>4. /\ job'[u].status = "PENDING" => 0 + (IF AnswerLost(u)' THEN 1 ELSE 0) <= faults' + (IF Held(u)' THEN 1 ELSE 0)
          /\ job'[u].status = "PENDING" /\ job'[u].attempts = 0
      BY <1>6, <2>1, <3>1, <3>3
    <3> QED BY <3>4 DEF Paid
  <2>2. CASE u # v
    <3>1. Paid(u) /\ job'[u] = job[u] /\ tech'[u] = tech[u] BY <1>4, <1>5, <2>2 DEF DeliveriesArePaid
    <3>2. Held(u) => Held(u)' BY <3>1 DEF Held, Owner
    <3>3. ASSUME AnswerLost(u)' PROVE AnswerLost(u)
      <4>1. \A w \in Workers : Owner(w, u)' => Owner(w, u) BY <3>1 DEF Owner
      <4>2. t.step = "failed" => t.version # u BY <2>2 DEF v
      <4>3. \A d \in Uploaders : upload'[d].step = "failed" /\ upload'[d].version = u =>
                                 upload[d].step = "failed" /\ upload[d].version = u
        BY <1>1, <4>2
      <4> QED BY <3>3, <4>1, <4>3 DEF AnswerLost
    <3> QED BY <3>1, <3>2, <3>3, PaidStays
  <2> QED BY <2>1, <2>2
<1>10. NothingLostYet'
  <2> SUFFICES ASSUME faults' = 0 PROVE NothingLostYet'
    BY DEF NothingLostYet
  <2>1. faults = 0 /\ t.step = "idle" BY <1>2
  <2>2. v \in quarantine BY <1>3 DEF StagesMatch, v
  <2>3. \A w \in Workers : work'[w].step # "idle" =>
         /\ Owner(w, work[w].version)'
         /\ work'[w].step \in {"processing", "scanned", "promoted"} => tech'[work'[w].version] = "PROCESSING"
         /\ work'[w].step = "promoted" /\ work'[w].outcome = "BLOCKED_INVALID" => file'[work'[w].version] = "invalid"
    BY <2>1, <1>4, <1>5, <1>7 DEF NothingLostYet, Owner
  <2>4. \A u \in Versions :
         /\ tech'[u] \in Waiting => u \in quarantine'
         /\ tech'[u] = "BLOCKED_INVALID" => file'[u] = "invalid"
    BY <2>1, <2>2, <1>4 DEF NothingLostYet
  <2>5. ASSUME NEW u \in Versions, tech'[u] = "UPLOAD_PENDING" PROVE BeingUploaded(u)'
    <3>1. u # v /\ tech[u] = "UPLOAD_PENDING" BY <1>4, <2>5
    <3>2. PICK d \in Uploaders : upload[d].version = u /\ upload[d].step \in {"prepared", "stored"}
      BY <2>1, <3>1 DEF NothingLostYet, BeingUploaded
    <3>3. d # c BY <3>1, <3>2 DEF v
    <3> QED BY <1>1, <3>2, <3>3 DEF BeingUploaded
  <2> QED BY <2>3, <2>4, <2>5 DEF NothingLostYet
<1> QED BY <1>8, <1>9, <1>10

LEMMA UploadFaults ==
  ASSUME FaultInv, IInv', NEW c \in Uploaders,
         PrepareUpload(c) \/ AdvanceUpload(c) \/ StoreFails(c) \/ FinishFails(c) \/ UploaderCrashes(c)
  PROVE  FaultInv'
<1> DEFINE v == upload[c].version
<1> USE DEF versionVars, submissionVars, storageVars
<1>0. IInv /\ TypeOK /\ faults \in Nat /\ (upload[c].step # "idle" => v \in Versions)
  BY DEF FaultInv, IInv, TypeOK, UploadsHold
<1>1. CASE PrepareUpload(c)
  <2>1. PICK u \in Versions :
          /\ upload[c].step = "idle"
          /\ u = 1 + Cardinality({x \in Versions : tech[x] # "NONE"})
          /\ tech' = [tech EXCEPT ![u] = "UPLOAD_PENDING"]
          /\ upload' = [upload EXCEPT ![c] = [step |-> "prepared", version |-> u]]
          /\ UNCHANGED <<file, replaced, submissionVars, storageVars, job, seen, work, faults>>
    BY <1>1 DEF PrepareUpload
  <2>2. tech[u] = "NONE" BY <1>0, <2>1, NextNumberIsFree DEF IInv
  <2>3. \A x \in Versions : tech'[x] = IF x = u THEN "UPLOAD_PENDING" ELSE tech[x]
    BY <1>0, <2>1 DEF TypeOK
  <2>4. PICK t : t = [step |-> "prepared", version |-> u] OBVIOUS
  <2>5. t.step = "prepared" /\ t.version = u /\ upload' = [upload EXCEPT ![c] = t] BY <2>1, <2>4
  <2>6. ~InProgress(c) BY <2>1 DEF InProgress
  <2>7. UNCHANGED <<file, job, work, approved, quarantine, faults>> BY <2>1
  <2>8. UploadMove(c, t) BY <1>0, <2>2, <2>3, <2>5, <2>6, <2>7, VersionsAreNumbers DEF UploadMove
  <2> QED BY <2>8, UploaderFaults
<1>2. CASE StoreFile(c)
  <2>1. PICK t : t = [upload[c] EXCEPT !.step = "stored"] OBVIOUS
  <2>2. upload[c].step # "idle" /\ t.step = "stored" /\ t.version = v /\ upload' = [upload EXCEPT ![c] = t]
    BY <1>0, <1>2, <2>1 DEF StoreFile, TypeOK
  <2>3. quarantine' = quarantine \cup {v} /\ UNCHANGED <<tech, file, job, work, approved, faults>>
    BY <1>2 DEF StoreFile
  <2>4. UploadMove(c, t) BY <1>0, <2>2, <2>3, VersionsAreNumbers DEF UploadMove
  <2> QED BY <2>4, UploaderFaults
<1>3. CASE StoreFails(c)
  <2>1. PICK t : t = NoUpload OBVIOUS
  <2>2. /\ upload' = [upload EXCEPT ![c] = t] /\ t.step = "idle"
        /\ UNCHANGED <<file, job, work, approved>> /\ quarantine \subseteq quarantine'
    BY <1>3, <2>1 DEF StoreFails, NoUpload
  <2>3. faults' \in Nat /\ faults' >= faults /\ faults' > faults BY <1>0, <1>3 DEF StoreFails, Fault
  <2>4. v \in Versions /\ tech[v] = "UPLOAD_PENDING"
    BY <1>0, <1>3 DEF StoreFails, IInv, UploadsHold, InProgress
  <2>5. \A u \in Versions : tech'[u] = tech[u] \/ (tech[u] = "UPLOAD_PENDING" /\ tech'[u] = "UPLOAD_FAILED")
    BY <1>0, <1>3, <2>4 DEF StoreFails, TypeOK
  <2>6. UploadMove(c, t) BY <1>0, <2>2, <2>3, <2>5 DEF UploadMove
  <2> QED BY <2>6, UploaderFaults
<1>4. CASE FinishUpload(c) \/ (FinishFails(c) /\ Quarantined(v))
  <2>1. PICK t : t = IF FinishUpload(c) THEN NoUpload ELSE [upload[c] EXCEPT !.step = "failed"] OBVIOUS
  <2>2. upload' = [upload EXCEPT ![c] = t]
    BY <1>4, <2>1 DEF FinishUpload, FinishFails
  <2>3. upload[c].step = "stored" /\ Quarantined(v) /\ UNCHANGED <<file, work, quarantine, approved>>
    BY <1>4 DEF FinishUpload, FinishFails
  <2>4. \/ t.step = "idle" /\ faults' = faults
        \/ t.step = "failed" /\ t.version = v /\ faults' = faults + 1
    <3>1. CASE FinishUpload(c) BY <2>1, <3>1 DEF FinishUpload, NoUpload
    <3>2. CASE ~FinishUpload(c) BY <1>0, <1>4, <2>1, <3>2 DEF FinishFails, Fault, TypeOK
    <3> QED BY <3>1, <3>2
  <2>5. /\ faults' \in Nat /\ faults' >= faults
        /\ t.step = "idle" \/ (t.step = "failed" /\ t.version = v /\ faults' > faults)
    BY <1>0, <2>4
  <2> QED BY <2>2, <2>3, <2>5, QuarantinedFaults
<1>5. CASE FinishFails(c) /\ UNCHANGED <<tech, status, job>>
  <2>1. PICK t : t = [upload[c] EXCEPT !.step = "failed"] OBVIOUS
  <2>2. /\ upload[c].step = "stored" /\ t.step = "failed" /\ t.version = v
        /\ upload' = [upload EXCEPT ![c] = t]
    BY <1>0, <1>5, <2>1 DEF FinishFails, TypeOK
  <2>3. UNCHANGED <<tech, file, job, work, approved, quarantine>> /\ faults' = faults + 1
    BY <1>5 DEF FinishFails, Fault
  <2>4. UploadMove(c, t) BY <1>0, <2>2, <2>3, VersionsAreNumbers DEF UploadMove
  <2> QED BY <2>4, UploaderFaults
<1>6. CASE DeleteAfterFailure(c)
  <2>1. /\ upload[c].step = "failed" /\ upload' = [upload EXCEPT ![c] = NoUpload]
        /\ UNCHANGED <<tech, file, job, work, approved, faults>>
        /\ quarantine' \in {quarantine, quarantine \ {v}}
    BY <1>6 DEF DeleteAfterFailure
  <2>2. NoUpload.step = "idle" /\ ~InProgress(c) BY <2>1 DEF NoUpload, InProgress
  <2>3. UploadMove(c, NoUpload) BY <1>0, <2>1, <2>2, VersionsAreNumbers DEF UploadMove
  <2> QED BY <2>3, UploaderFaults
<1>7. CASE UploaderCrashes(c)
  <2>1. PICK t : t = NoUpload OBVIOUS
  <2>2. /\ upload' = [upload EXCEPT ![c] = t] /\ t.step = "idle"
        /\ UNCHANGED <<tech, file, job, work, approved, quarantine>>
    BY <1>7, <2>1 DEF UploaderCrashes, NoUpload
  <2>3. faults' \in Nat /\ faults' >= faults /\ faults' > faults BY <1>0, <1>7 DEF UploaderCrashes, Fault
  <2>4. UploadMove(c, t) BY <1>0, <2>2, <2>3 DEF UploadMove
  <2> QED BY <2>4, UploaderFaults
<1> QED BY <1>1, <1>2, <1>3, <1>4, <1>5, <1>6, <1>7 DEF AdvanceUpload, FinishFails

(* Reviews and exemptions touch nothing of this. *)
LEMMA RestFaults ==
  ASSUME FaultInv, IInv', UNCHANGED <<tech, file, quarantine, approved, job, upload, work, faults>>
  PROVE  FaultInv'
BY DEF FaultInv, StagesMatch, DeliveriesArePaid, Paid, Held, AnswerLost, Owner, NothingLostYet, BeingUploaded

-----------------------------------------------------------------------------
(* Deliveries *)

(* Before the first fault two workers never have the same file. *)
LEMMA OneDelivery ==
  ASSUME FaultInv, faults = 0, NEW w \in Workers, NEW x \in Workers,
         work[w].step # "idle", work[x].step # "idle", work[w].version = work[x].version
  PROVE  w = x
BY DEF FaultInv, NothingLostYet, Owner

(* A step of a delivery that goes on: it moves its own version v, and      *)
(* takes the object away only once the version has its outcome.            *)
DeliveryMove(w, v, t) ==
  /\ work[w].step # "idle" /\ t.step # "idle" /\ t.version = v
  /\ work' = [work EXCEPT ![w] = t]
  /\ UNCHANGED <<job, upload>>
  /\ faults' \in Nat /\ faults' >= faults
  /\ approved \subseteq approved'
  /\ \A u \in Versions \ {v} : tech'[u] = tech[u] /\ file'[u] = file[u]
  /\ \/ tech'[v] = tech[v]
     \/ tech[v] = "QUARANTINED" /\ tech'[v] = "PROCESSING"
     \/ tech[v] = "PROCESSING" /\ tech'[v] \in Terminal
  /\ file'[v] = file[v] \/ file[v] = "unread"
  /\ quarantine' \in {quarantine, quarantine \ {v}}
  /\ quarantine' # quarantine => tech[v] \in Terminal
  /\ t.step \in {"processing", "scanned", "promoted"} => tech'[v] # "QUARANTINED"
  /\ t.step \in {"settled", "done"} => tech'[v] \in Terminal
  /\ t.step = "scanned" => v \in quarantine
  /\ faults' = 0 =>
       /\ t.step \in {"processing", "scanned", "promoted"} => tech'[v] = "PROCESSING"
       /\ t.step = "promoted" /\ t.outcome = "BLOCKED_INVALID" => file'[v] = "invalid"
       /\ tech'[v] = "BLOCKED_INVALID" => file'[v] = "invalid"

LEMMA DeliveryStepFaults ==
  ASSUME FaultInv, IInv', NEW w \in Workers, NEW v, v = work[w].version, NEW t, DeliveryMove(w, v, t)
  PROVE  FaultInv'
<1> USE DEF FaultInv, DeliveryMove
<1>1. \A x \in Workers : work'[x] = IF x = w THEN t ELSE work[x]
  BY DEF IInv, TypeOK
<1>2. faults \in Nat /\ v \in Versions /\ tech[v] \in Waiting \cup Terminal
  BY DEF IInv, TypeOK, WorkHolds, StagesMatch
<1>3. \A u \in Versions :
        /\ tech'[u] \notin Waiting \cup Terminal => tech'[u] = tech[u]
        /\ tech[u] \notin Waiting \cup Terminal => tech'[u] = tech[u]
        /\ tech'[u] \in Waiting => tech[u] \in Waiting
        /\ tech[u] \in Terminal => tech'[u] = tech[u]
  BY <1>2 DEF Waiting, Terminal, Blocked
<1>4. \A u \in Versions : tech[u] \in Waiting \cup Terminal => tech'[u] \in Waiting \cup Terminal
  BY <1>2 DEF Waiting, Terminal, Blocked
<1>5. \A u \in Versions : tech[u] \in Waiting \cup {"UPLOAD_PENDING"} => (u \in quarantine <=> u \in quarantine')
  BY <1>2 DEF Waiting, Terminal, Blocked
<1>6. StagesMatch'
  <2>1. \A u \in Versions :
          /\ tech'[u] \in {"NONE", "UPLOAD_PENDING", "UPLOAD_FAILED"} => job'[u] = NoJob
          /\ tech'[u] \in Waiting => job'[u].status \in {"PENDING", "PROCESSING", "FAILED"}
    BY <1>3 DEF StagesMatch, Waiting, Terminal, Blocked
  <2>2. ASSUME NEW x \in Workers, work'[x].step # "idle"
        PROVE  /\ tech'[work'[x].version] \in Waiting \cup Terminal
               /\ work'[x].step \in {"processing", "scanned", "promoted"} => tech'[work'[x].version] # "QUARANTINED"
               /\ work'[x].step \in {"settled", "done"} => tech'[work'[x].version] \in Terminal
    <3>1. CASE x = w BY <1>1, <1>2, <1>4, <3>1
    <3>2. CASE x # w
      <4>1. work'[x] = work[x] /\ work[x].version \in Versions BY <1>1, <2>2, <3>2 DEF IInv, WorkHolds
      <4>2. tech[work[x].version] \in Terminal => tech'[work[x].version] \in Terminal BY <1>3, <4>1
      <4>3. tech'[work[x].version] = "QUARANTINED" => tech[work[x].version] = "QUARANTINED"
        BY <1>2, <4>1 DEF Terminal, Blocked
      <4> QED BY <1>4, <2>2, <4>1, <4>2, <4>3 DEF StagesMatch
    <3> QED BY <3>1, <3>2
  <2>3. ASSUME NEW c \in Uploaders, upload[c].step # "idle"
        PROVE  /\ tech'[upload[c].version] # "NONE"
               /\ upload[c].step \in {"stored", "failed"}
                    /\ tech'[upload[c].version] \in Waiting \cup {"UPLOAD_PENDING"} => upload[c].version \in quarantine'
    <3>1. upload[c].version \in Versions /\ tech[upload[c].version] # "NONE"
      BY <2>3 DEF IInv, UploadsHold, StagesMatch
    <3>2. tech'[upload[c].version] # "NONE" BY <1>3, <3>1 DEF Waiting, Terminal, Blocked
    <3>3. tech'[upload[c].version] \in Waiting \cup {"UPLOAD_PENDING"} =>
            tech[upload[c].version] \in Waiting \cup {"UPLOAD_PENDING"}
      BY <1>3, <3>1 DEF Waiting, Terminal, Blocked
    <3> QED BY <1>5, <2>3, <3>1, <3>2, <3>3 DEF StagesMatch
  <2>4. \A c \in Uploaders : upload[c].step = "failed" => faults' > 0
    BY <1>2 DEF StagesMatch
  <2>5. \A x \in Workers : work'[x].step = "idle" => work'[x].version = None
    BY <1>1 DEF StagesMatch
  <2> QED BY <2>1, <2>2, <2>3, <2>4, <2>5 DEF StagesMatch
<1>7. DeliveriesArePaid'
  <2> SUFFICES ASSUME NEW u \in Versions PROVE Paid(u)'
    BY DEF DeliveriesArePaid
  <2>1. Paid(u) BY DEF DeliveriesArePaid
  <2>2. \A x \in Workers : /\ Owner(x, u)' = Owner(x, u)
                           /\ work'[x].version = work[x].version
    BY <1>1 DEF Owner
  <2>3. Held(u) => Held(u)' BY <2>2 DEF Held
  <2>4. ASSUME tech'[u] \in Waiting, AnswerLost(u)' PROVE AnswerLost(u)
    <3>1. tech[u] \in Waiting BY <1>3, <2>4
    <3>2. u \in quarantine => u \in quarantine' BY <1>5, <3>1
    <3>3. \A x \in Workers : /\ work'[x].step = "scanned" /\ work'[x].version = u /\ u \notin quarantine
                             => work[x].step = "scanned"
      BY <1>1
    <3> QED BY <2>2, <2>4, <3>2, <3>3 DEF AnswerLost
  <2> QED BY <1>3, <2>1, <2>3, <2>4, PaidStays
<1>8. NothingLostYet'
  <2> SUFFICES ASSUME faults' = 0 PROVE NothingLostYet'
    BY DEF NothingLostYet
  <2>1. faults = 0 BY <1>2
  <2>2. ASSUME NEW x \in Workers, work'[x].step # "idle"
        PROVE  /\ Owner(x, work[x].version)'
               /\ work'[x].step \in {"processing", "scanned", "promoted"} => tech'[work'[x].version] = "PROCESSING"
               /\ work'[x].step = "promoted" /\ work'[x].outcome = "BLOCKED_INVALID" => file'[work'[x].version] = "invalid"
    <3>1. CASE x = w
      <4>1. work'[x] = t BY <1>1, <3>1
      <4>2. Owner(w, v) BY <2>1 DEF NothingLostYet
      <4>3. Owner(x, work[x].version)' BY <3>1, <4>1, <4>2 DEF Owner
      <4> QED BY <4>1, <4>3, <2>1
    <3>2. CASE x # w
      <4>1. work'[x] = work[x] /\ work[x].version \in Versions \ {v}
        BY <1>1, <2>1, <2>2, <3>2, OneDelivery DEF IInv, WorkHolds
      <4> QED BY <2>1, <2>2, <4>1 DEF NothingLostYet, Owner
    <3> QED BY <3>1, <3>2
  <2>3. ASSUME NEW u \in Versions
        PROVE  /\ tech'[u] \in Waiting => u \in quarantine'
               /\ tech'[u] = "BLOCKED_INVALID" => file'[u] = "invalid"
               /\ tech'[u] = "UPLOAD_PENDING" => BeingUploaded(u)'
    <3>1. tech'[u] \in Waiting => u \in quarantine' BY <1>3, <1>5, <2>1 DEF NothingLostYet
    <3>2. tech'[u] = "BLOCKED_INVALID" => file'[u] = "invalid" BY <2>1 DEF NothingLostYet
    <3>3. tech'[u] = "UPLOAD_PENDING" => BeingUploaded(u)'
      BY <1>3, <2>1 DEF NothingLostYet, BeingUploaded, Waiting, Terminal, Blocked
    <3> QED BY <3>1, <3>2, <3>3
  <2> QED BY <2>2, <2>3 DEF NothingLostYet
<1> QED BY <1>6, <1>7, <1>8

LEMMA DeliverFaults ==
  ASSUME FaultInv, IInv', NEW w \in Workers,
         StartProcessing(w) \/ Inspect(w) \/ ReadFails(w) \/ Promote(w) \/ FinishProcessing(w) \/ DeleteQuarantine(w)
  PROVE  FaultInv'
<1>v. PICK v : v = work[w].version OBVIOUS
<1> USE <1>v
<1> USE DEF versionVars, submissionVars, storageVars, Busy
<1>0. PICK WorkType :
        WorkType = [step : {"idle", "claimed", "processing", "scanned", "promoted", "settled", "done"},
                    version : Versions \cup {None}, outcome : {"none"} \cup Terminal]
  OBVIOUS
<1>1. /\ work[w] \in WorkType /\ IInv /\ faults \in Nat /\ tech \in [Versions -> {"NONE", "UPLOAD_FAILED"} \cup Active \cup Terminal]
      /\ file \in [Versions -> Files \cup {"unread"}]
  BY <1>0 DEF FaultInv, IInv, TypeOK
<1>2. work[w].step # "idle" => v \in Versions
  BY DEF FaultInv, IInv, WorkHolds
<1>3. CASE StartProcessing(w)
  <2>1. PICK t : t = [work[w] EXCEPT !.step = IF tech[v] \in Terminal THEN "done" ELSE "processing"] OBVIOUS
  <2>2. /\ work' = [work EXCEPT ![w] = t] /\ work[w].step = "claimed"
        /\ tech[v] \in Terminal \cup Waiting
        /\ tech' = [tech EXCEPT ![v] = IF tech[v] \in Terminal THEN tech[v] ELSE "PROCESSING"]
        /\ UNCHANGED <<file, job, upload, quarantine, approved, faults>>
    BY <1>3, <2>1 DEF StartProcessing, Waiting
  <2>3. t.version = v /\ t.step = IF tech[v] \in Terminal THEN "done" ELSE "processing" BY <1>0, <1>1, <2>1
  <2>4. \A u \in Versions : tech'[u] = IF u = v /\ tech[v] \notin Terminal THEN "PROCESSING" ELSE tech[u]
    BY <1>1, <2>2
  <2>5. v \in Versions BY <1>2, <2>2
  <2>6. tech'[v] = "BLOCKED_INVALID" /\ faults' = 0 => file'[v] = "invalid"
    BY <2>2, <2>4, <2>5 DEF FaultInv, NothingLostYet
  <2>7. tech[v] = "PROCESSING" \/ tech[v] = "QUARANTINED" \/ tech[v] \in Terminal BY <2>2 DEF Waiting
  <2>8. "PROCESSING" \notin Terminal BY DEF Terminal, Blocked
  <2>9. /\ t.step \in {"processing", "scanned", "promoted"} => tech'[v] = "PROCESSING"
        /\ t.step \in {"settled", "done"} => tech'[v] \in Terminal
        /\ t.step \notin {"scanned", "promoted", "idle"}
    BY <2>3, <2>4, <2>5, <2>7
  <2>10. tech'[v] = tech[v] \/ (tech[v] = "QUARANTINED" /\ tech'[v] = "PROCESSING")
    BY <2>4, <2>5, <2>7
  <2>11. DeliveryMove(w, v, t) BY <1>1, <2>2, <2>3, <2>4, <2>5, <2>6, <2>9, <2>10 DEF DeliveryMove
  <2> QED BY <2>11, DeliveryStepFaults
<1>4. CASE Inspect(w) \/ ReadFails(w)
  <2>1. PICK o, f :
          /\ Inspected(w, o) /\ work[w].step = "processing"
          /\ \/ v \in quarantine /\ f \in Bytes(v) /\ file' = [file EXCEPT ![v] = f] /\ o \in ScanOutcomes(f) /\ faults' = faults
             \/ v \notin quarantine /\ o = "BLOCKED_INVALID" /\ file' = file /\ faults' = faults
             \/ o = "BLOCKED_INVALID" /\ file' = file /\ faults' = faults + 1
    BY <1>4 DEF Inspect, ReadFails, Fault
  <2>2. PICK t : t = [work[w] EXCEPT !.outcome = o, !.step = IF o = "READY_FOR_REVIEW" THEN "scanned" ELSE "promoted"]
    OBVIOUS
  <2>3. work' = [work EXCEPT ![w] = t] BY <2>1, <2>2 DEF Inspected
  <2>4. t.version = v /\ t.outcome = o /\ t.step = IF o = "READY_FOR_REVIEW" THEN "scanned" ELSE "promoted"
    BY <1>0, <1>1, <2>2
  <2>5. v \in Versions /\ tech' = tech /\ UNCHANGED <<job, upload, quarantine, approved>>
    BY <1>2, <1>4, <2>1 DEF Inspect, ReadFails
  <2>6. tech[v] # "QUARANTINED" BY <2>1 DEF FaultInv, StagesMatch
  <2>7. faults' \in Nat /\ faults' >= faults BY <1>1, <2>1
  <2>8. \A u \in Versions \ {v} : file'[u] = file[u] BY <1>1, <2>1
  <2>9. file'[v] = file[v] \/ file[v] = "unread" BY <1>1, <2>1, <2>5 DEF Bytes
  <2>10. faults' = 0 => faults = 0 BY <1>1, <2>7
  <2>11. faults' = 0 => tech[v] = "PROCESSING" /\ v \in quarantine
    BY <2>1, <2>5, <2>10 DEF FaultInv, NothingLostYet, Waiting
  <2>12. t.step = "scanned" => v \in quarantine BY <2>1, <2>4
  <2>13. faults' = 0 => (o = "BLOCKED_INVALID" => file'[v] = "invalid")
    <3> SUFFICES ASSUME faults' = 0, o = "BLOCKED_INVALID" PROVE file'[v] = "invalid"
      OBVIOUS
    <3>1. f \in Bytes(v) /\ file' = [file EXCEPT ![v] = f] /\ o \in ScanOutcomes(f)
      BY <1>1, <2>1, <2>10, <2>11
    <3>2. f \in Files BY <1>1, <2>5, <3>1 DEF Bytes
    <3>3. f = "invalid" BY <3>1, <3>2 DEF ScanOutcomes, Files
    <3> QED BY <1>1, <2>5, <3>1, <3>3
  <2>14. t.step \in {"scanned", "promoted"} BY <2>4
  <2>15. faults' = 0 => tech'[v] # "BLOCKED_INVALID" BY <2>5, <2>11
  <2>16. DeliveryMove(w, v, t) BY <1>1, <2>1, <2>3, <2>4, <2>5, <2>6, <2>7, <2>8, <2>9, <2>11, <2>12, <2>13, <2>14, <2>15 DEF DeliveryMove
  <2> QED BY <2>16, DeliveryStepFaults
<1>5. CASE Promote(w)
  <2>1. PICK t : t = [work[w] EXCEPT !.step = "promoted"] OBVIOUS
  <2>2. /\ work' = [work EXCEPT ![w] = t] /\ work[w].step = "scanned" /\ approved \subseteq approved'
        /\ UNCHANGED <<tech, file, job, upload, quarantine, faults>>
    BY <1>5, <2>1 DEF Promote
  <2>3. t.version = v /\ t.step = "promoted" /\ t.outcome = work[w].outcome BY <1>0, <1>1, <2>1
  <2>4. t.outcome = "READY_FOR_REVIEW" BY <2>2, <2>3 DEF FaultInv, IInv, WorkHolds
  <2>5. v \in Versions /\ tech[v] # "QUARANTINED" BY <1>2, <2>2 DEF FaultInv, StagesMatch
  <2>6. faults' = 0 => tech'[v] = "PROCESSING" BY <2>2 DEF FaultInv, NothingLostYet
  <2>7. DeliveryMove(w, v, t) BY <1>1, <2>2, <2>3, <2>4, <2>5, <2>6 DEF DeliveryMove
  <2> QED BY <2>7, DeliveryStepFaults
<1>6. CASE FinishProcessing(w)
  <2>0. PICK o : o = work[w].outcome OBVIOUS
  <2>1. PICK t : t = [work[w] EXCEPT !.step = IF o = "READY_FOR_REVIEW" THEN "settled" ELSE "done"] OBVIOUS
  <2>2. /\ work' = [work EXCEPT ![w] = t] /\ work[w].step = "promoted" /\ Settle(v, o)
        /\ UNCHANGED <<file, job, upload, quarantine, approved, faults>>
    BY <1>6, <2>0, <2>1 DEF FinishProcessing
  <2>3. t.version = v /\ t.step \in {"settled", "done"} BY <1>0, <1>1, <2>1
  <2>4. v \in Versions /\ o \in Terminal BY <1>2, <2>0, <2>2 DEF FaultInv, IInv, WorkHolds
  <2>5. tech[v] = "PROCESSING" \/ tech[v] \in Terminal BY <2>2 DEF FaultInv, StagesMatch, Waiting
  <2>6. \A u \in Versions : tech'[u] = IF u = v /\ tech[v] = "PROCESSING" THEN o ELSE tech[u]
    BY <1>1, <2>2 DEF Settle
  <2>7. "QUARANTINED" \notin Terminal /\ "PROCESSING" \notin Terminal BY DEF Terminal, Blocked
  <2>8. faults' = 0 => (tech'[v] = "BLOCKED_INVALID" => file'[v] = "invalid")
    <3>1. faults = 0 => (o = "BLOCKED_INVALID" => file[v] = "invalid") BY <2>0, <2>2 DEF FaultInv, NothingLostYet
    <3>2. faults = 0 => (tech[v] = "BLOCKED_INVALID" => file[v] = "invalid") BY <2>4 DEF FaultInv, NothingLostYet
    <3> QED BY <2>2, <2>4, <2>6, <3>1, <3>2
  <2>9. tech'[v] \in Terminal /\ (tech'[v] = tech[v] \/ tech[v] = "PROCESSING")
    BY <2>4, <2>5, <2>6
  <2>10. DeliveryMove(w, v, t) BY <1>1, <2>2, <2>3, <2>4, <2>6, <2>7, <2>8, <2>9 DEF DeliveryMove
  <2> QED BY <2>10, DeliveryStepFaults
<1>7. CASE DeleteQuarantine(w)
  <2>1. PICK t : t = [work[w] EXCEPT !.step = "done"] OBVIOUS
  <2>2. /\ work' = [work EXCEPT ![w] = t] /\ work[w].step = "settled" /\ quarantine' \in {quarantine, quarantine \ {v}}
        /\ UNCHANGED <<tech, file, job, upload, approved, faults>>
    BY <1>7, <2>1 DEF DeleteQuarantine
  <2>3. t.version = v /\ t.step = "done" BY <1>0, <1>1, <2>1
  <2>4. v \in Versions /\ tech[v] \in Terminal BY <1>2, <2>2 DEF FaultInv, StagesMatch
  <2>5. faults' = 0 => (tech'[v] = "BLOCKED_INVALID" => file'[v] = "invalid")
    BY <2>2, <2>4 DEF FaultInv, NothingLostYet
  <2>6. DeliveryMove(w, v, t) BY <1>1, <2>2, <2>3, <2>4, <2>5 DEF DeliveryMove
  <2> QED BY <2>6, DeliveryStepFaults
<1> QED BY <1>3, <1>4, <1>5, <1>6, <1>7

(* A delivery that ends is acknowledged, pays with a fault, or found that  *)
(* its object was deleted, which a fault has paid for.                     *)
LEMMA ReleaseFaults ==
  ASSUME FaultInv, IInv', NEW w \in Workers,
         MarkSent(w) \/ DeliveryFails(w) \/ WorkerCrashes(w)
  PROVE  FaultInv'
<1>v. PICK v : v = work[w].version OBVIOUS
<1> USE <1>v
<1> USE DEF versionVars, submissionVars, storageVars, Busy, Fault, NoFault
<1>1. /\ UNCHANGED <<tech, file, quarantine, approved, upload>>
      /\ work' = [work EXCEPT ![w] = NoWork] /\ work[w].step # "idle" /\ faults' \in {faults, faults + 1}
  BY DEF MarkSent, DeliveryFails, WorkerCrashes
<1>2. faults \in Nat /\ v \in Versions /\ IInv
  BY <1>1 DEF FaultInv, IInv, TypeOK, WorkHolds
<1>3. \A x \in Workers : work'[x] = IF x = w THEN NoWork ELSE work[x]
  BY <1>1 DEF FaultInv, IInv, TypeOK
<1>4. PICK s :
        /\ job' = IF Owner(w, v) /\ ~WorkerCrashes(w) THEN [job EXCEPT ![v].status = s] ELSE job
        /\ \/ s = "SENT" /\ work[w].step = "done"
           \/ s = "FAILED" /\ job[v].attempts >= MaxAttempts
           \/ s = "PENDING"
        /\ \/ s = "SENT"
           \/ faults' = faults + 1
           \/ work[w].step = "scanned" /\ v \notin approved \cup quarantine
  <2>1. CASE WorkerCrashes(w)
    <3>1. job' = job /\ faults' = faults + 1 BY <2>1 DEF WorkerCrashes
    <3>2. PICK s : s = "PENDING" OBVIOUS
    <3> QED BY <2>1, <3>1, <3>2
  <2>2. CASE ~WorkerCrashes(w) /\ MarkSent(w)
    <3>1. PICK s : s = "SENT" OBVIOUS
    <3> QED BY <2>2, <3>1 DEF MarkSent
  <2>3. CASE ~WorkerCrashes(w) /\ ~MarkSent(w)
    <3>1. PICK s : s = IF job[v].attempts >= MaxAttempts THEN "FAILED" ELSE "PENDING" OBVIOUS
    <3>2. DeliveryFails(w) BY <2>3
    <3>3. job' = IF Owner(w, v) THEN [job EXCEPT ![v].status = s] ELSE job BY <3>1, <3>2 DEF DeliveryFails
    <3>4. faults' = faults + 1 \/ (work[w].step = "scanned" /\ v \notin approved \cup quarantine)
      BY <3>2 DEF DeliveryFails
    <3> QED BY <2>3, <3>1, <3>3, <3>4
  <2> QED BY <2>1, <2>2, <2>3
<1>5. \A u \in Versions \ {v} : job'[u] = job[u]
  BY <1>4 DEF FaultInv, IInv, TypeOK
<1>6. \/ job'[v] = job[v] /\ (~Owner(w, v) \/ faults' = faults + 1)
      \/ Owner(w, v) /\ job'[v] = [job[v] EXCEPT !.status = s]
  <2>1. WorkerCrashes(w) => faults' = faults + 1 BY DEF WorkerCrashes
  <2> QED BY <1>2, <1>4, <2>1 DEF FaultInv, IInv, TypeOK
<1>7. tech[v] \in Waiting \cup Terminal /\ (work[w].step = "done" => tech[v] \in Terminal)
  BY <1>1 DEF FaultInv, StagesMatch
<1>8. /\ job[v].attempts \in Nat
      /\ [job[v] EXCEPT !.status = s].status = s /\ [job[v] EXCEPT !.status = s].attempts = job[v].attempts
  BY <1>2 DEF IInv, TypeOK
<1>9. Waiting \cap Terminal = {} BY DEF Waiting, Terminal, Blocked
<1>10. StagesMatch'
  <2>1. \A u \in Versions :
          /\ tech[u] \in {"NONE", "UPLOAD_PENDING", "UPLOAD_FAILED"} => job'[u] = NoJob
          /\ tech[u] \in Waiting => job'[u].status \in {"PENDING", "PROCESSING", "FAILED"}
    <3>1. tech[v] \notin {"NONE", "UPLOAD_PENDING", "UPLOAD_FAILED"} BY <1>7 DEF Waiting, Terminal, Blocked
    <3>2. tech[v] \in Waiting => job'[v].status \in {"PENDING", "PROCESSING", "FAILED"}
      BY <1>2, <1>4, <1>6, <1>7, <1>8, <1>9 DEF FaultInv, StagesMatch
    <3> QED BY <1>5, <3>1, <3>2 DEF FaultInv, StagesMatch
  <2>2. \A x \in Workers : work'[x].step # "idle" => work'[x] = work[x]
    BY <1>3 DEF NoWork
  <2>3. \A x \in Workers :
       /\ work'[x].step # "idle" => tech[work'[x].version] \in Waiting \cup Terminal
       /\ work'[x].step \in {"processing", "scanned", "promoted"} => tech[work'[x].version] # "QUARANTINED"
       /\ work'[x].step \in {"settled", "done"} => tech[work'[x].version] \in Terminal
    BY <2>2 DEF FaultInv, StagesMatch
  <2>4. \A x \in Workers : work'[x].step = "idle" => work'[x].version = None
    BY <1>3 DEF FaultInv, StagesMatch, NoWork
  <2>5. \A c \in Uploaders : upload[c].step = "failed" => faults' > 0
    BY <1>1, <1>2 DEF FaultInv, StagesMatch
  <2> QED BY <1>1, <2>1, <2>3, <2>4, <2>5 DEF FaultInv, StagesMatch
<1>11. DeliveriesArePaid'
  <2> SUFFICES ASSUME NEW u \in Versions PROVE Paid(u)'
    BY DEF DeliveriesArePaid
  <2>1. Paid(u) BY DEF FaultInv, DeliveriesArePaid
  <2>2. faults' \in Nat /\ faults' >= faults BY <1>1, <1>2
  <2>3. ASSUME job'[u] = job[u], u # v \/ ~Owner(w, v) \/ faults' = faults + 1 PROVE Paid(u)'
    <3>1. AnswerLost(u)' => AnswerLost(u) BY <1>1, <1>3, <2>3 DEF AnswerLost, Owner, NoWork
    <3>2. Held(u) => Held(u)' \/ faults' >= faults + 1
      <4> SUFFICES ASSUME Held(u), ~(faults' >= faults + 1) PROVE Held(u)'
        OBVIOUS
      <4>1. PICK x \in Workers : Owner(x, u) /\ work[x].version = u BY DEF Held
      <4>2. x # w BY <1>1, <1>2, <2>3, <4>1
      <4> QED BY <1>3, <2>3, <4>1, <4>2 DEF Held, Owner
    <3> QED BY <1>1, <1>2, <2>1, <2>2, <2>3, <3>1, <3>2, PaidStays
  <2>4. ASSUME u = v, Owner(w, v), job'[v] = [job[v] EXCEPT !.status = s] PROVE Paid(v)'
    <3> SUFFICES ASSUME tech'[v] \in Waiting
                 PROVE  /\ job'[v].status \in {"PENDING", "PROCESSING"} =>
                             job'[v].attempts + (IF AnswerLost(v)' THEN 1 ELSE 0) <= faults' + (IF Held(v)' THEN 1 ELSE 0)
                        /\ job'[v].status = "FAILED" => faults' >= MaxAttempts
      BY DEF Paid
    <3>1. tech[v] \in Waiting /\ s \in {"PENDING", "FAILED"} BY <1>1, <1>4, <1>7, <1>9
    <3>2. job'[v].status = s /\ job'[v].attempts = job[v].attempts /\ (s = "FAILED" => job[v].attempts >= MaxAttempts)
      BY <1>4, <1>8, <2>4
    <3>3. job[v].attempts + (IF AnswerLost(v) THEN 1 ELSE 0) <= faults + 1
      <4>1. job[v].status = "PROCESSING" BY <2>4 DEF Owner
      <4>2. Held(v) BY <2>4 DEF Held
      <4> QED BY <2>1, <2>4, <3>1, <4>1, <4>2 DEF Paid
    <3>4. \A x \in Workers : ~Owner(x, v)' BY <3>1, <3>2 DEF Owner
    <3>5. AnswerLost(v)' => AnswerLost(v) BY <1>1, <3>4 DEF AnswerLost
    <3>6. ~Held(v)' BY <3>4 DEF Held
    <3>7. CASE faults' = faults + 1
      <4>1. job[v].attempts + (IF AnswerLost(v)' THEN 1 ELSE 0) <= faults' BY <1>2, <1>8, <3>3, <3>5, <3>7
      <4> HIDE DEF AnswerLost, Held
      <4>2. job[v].attempts <= faults' BY <1>2, <1>8, <3>7, <4>1
      <4>3. MaxAttempts \in Nat BY DocumentBounds
      <4> QED BY <1>2, <1>8, <2>2, <3>1, <3>2, <3>6, <4>1, <4>2, <4>3
    <3>8. CASE work[w].step = "scanned" /\ v \notin approved \cup quarantine
      <4>1. AnswerLost(v) BY <2>4, <3>8 DEF AnswerLost
      <4>2. ~AnswerLost(v)'
        <5>1. ASSUME NEW c \in Uploaders, upload[c].step = "failed", upload[c].version = v PROVE FALSE
          BY <3>1, <3>8, <5>1 DEF FaultInv, StagesMatch
        <5> QED BY <1>1, <3>4, <5>1 DEF AnswerLost
      <4>3. job[v].attempts + 1 <= faults + 1 BY <3>3, <4>1
      <4>4. job[v].attempts <= faults' BY <1>2, <1>8, <2>2, <4>3
      <4>5. MaxAttempts \in Nat BY DocumentBounds
      <4> HIDE DEF AnswerLost, Held
      <4> QED BY <1>2, <1>8, <2>2, <3>1, <3>2, <3>6, <4>2, <4>4, <4>5
    <3> QED BY <1>4, <3>1, <3>7, <3>8
  <2> QED BY <1>5, <1>6, <2>3, <2>4
<1>12. NothingLostYet'
  <2> SUFFICES ASSUME faults' = 0 PROVE NothingLostYet'
    BY DEF NothingLostYet
  <2>1. faults = 0 BY <1>1, <1>2
  <2>2. \A x \in Workers : work'[x].step # "idle" => x # w /\ work'[x] = work[x]
    BY <1>3 DEF NoWork
  <2>3. ASSUME NEW x \in Workers, work'[x].step # "idle"
        PROVE  Owner(x, work[x].version)'
    <3>1. x # w /\ work'[x] = work[x] /\ work[x].step # "idle" BY <2>2, <2>3
    <3>2. work[x].version \in Versions \ {v} BY <1>1, <2>1, <3>1, OneDelivery DEF FaultInv, IInv, WorkHolds
    <3>3. Owner(x, work[x].version) BY <2>1, <3>1 DEF FaultInv, NothingLostYet
    <3> QED BY <1>5, <3>1, <3>2, <3>3 DEF Owner
  <2> QED BY <1>1, <2>1, <2>2, <2>3 DEF FaultInv, NothingLostYet, BeingUploaded
<1> QED BY <1>10, <1>11, <1>12 DEF FaultInv

(* A delivery more: the one before it was lost to a fault, or its owner is *)
(* only slow, which is one.                                                *)
LEMMA ClaimFaults ==
  ASSUME FaultInv, IInv', NEW w \in Workers, NEW v \in Versions, Claim(w, v)
  PROVE  FaultInv'
<1> USE DEF versionVars, submissionVars, storageVars, Busy, Fault, NoFault
<1>1. /\ UNCHANGED <<tech, file, quarantine, approved, upload>>
      /\ work[w].step = "idle" /\ faults' \in {faults, faults + 1}
      /\ \/ job[v].status = "PENDING"
         \/ job[v].status = "PROCESSING" /\ OwnerGone(v)
         \/ job[v].status = "PROCESSING" /\ faults' = faults + 1
  BY DEF Claim
<1>2. faults \in Nat /\ IInv /\ job[v].attempts \in Nat
  BY DEF FaultInv, IInv, TypeOK
<1>3. PICK t : t = [NoWork EXCEPT !.step = "claimed", !.version = v] OBVIOUS
<1>4. t.step = "claimed" /\ t.version = v BY <1>3 DEF NoWork
<1>5. \A x \in Workers : work'[x] = IF x = w THEN t ELSE work[x]
  BY <1>3 DEF Claim, FaultInv, IInv, TypeOK
<1>6. /\ \A u \in Versions \ {v} : job'[u] = job[u]
      /\ job'[v].status = "PROCESSING" /\ job'[v].owner = w /\ job'[v].attempts = job[v].attempts + 1
  BY DEF Claim, FaultInv, IInv, TypeOK
<1>7. tech[v] \in Waiting \cup Terminal
  <2>1. job[v] # NoJob BY <1>1 DEF NoJob
  <2> QED BY <1>2, <2>1 DEF FaultInv, StagesMatch, IInv, TypeOK, Active, Waiting
<1>8. StagesMatch'
  <2>1. \A u \in Versions :
          /\ tech[u] \in {"NONE", "UPLOAD_PENDING", "UPLOAD_FAILED"} => job'[u] = NoJob
          /\ tech[u] \in Waiting => job'[u].status \in {"PENDING", "PROCESSING", "FAILED"}
    <3>1. tech[v] \notin {"NONE", "UPLOAD_PENDING", "UPLOAD_FAILED"} BY <1>7 DEF Waiting, Terminal, Blocked
    <3> QED BY <1>6, <3>1 DEF FaultInv, StagesMatch
  <2>2. \A x \in Workers :
       /\ work'[x].step # "idle" => tech[work'[x].version] \in Waiting \cup Terminal
       /\ work'[x].step \in {"processing", "scanned", "promoted"} => tech[work'[x].version] # "QUARANTINED"
       /\ work'[x].step \in {"settled", "done"} => tech[work'[x].version] \in Terminal
    BY <1>4, <1>5, <1>7 DEF FaultInv, StagesMatch
  <2>3. \A c \in Uploaders : upload[c].step = "failed" => faults' > 0
    BY <1>1, <1>2 DEF FaultInv, StagesMatch
  <2>4. \A x \in Workers : work'[x].step = "idle" => work'[x].version = None
    BY <1>4, <1>5 DEF FaultInv, StagesMatch
  <2> QED BY <1>1, <2>1, <2>2, <2>3, <2>4 DEF FaultInv, StagesMatch
<1>9. DeliveriesArePaid'
  <2> SUFFICES ASSUME NEW u \in Versions PROVE Paid(u)'
    BY DEF DeliveriesArePaid
  <2>1. Paid(u) BY DEF FaultInv, DeliveriesArePaid
  <2>2. faults' \in Nat /\ faults' >= faults BY <1>1, <1>2
  <2>3. CASE u # v
    <3>1. job'[u] = job[u] /\ tech'[u] = tech[u] BY <1>1, <1>6, <2>3
    <3>2. AnswerLost(u)' => AnswerLost(u) BY <1>1, <1>4, <1>5, <2>3, <3>1 DEF AnswerLost, Owner
    <3>3. Held(u) => Held(u)'
      <4> SUFFICES ASSUME Held(u) PROVE Held(u)'
        OBVIOUS
      <4>1. PICK x \in Workers : Owner(x, u) /\ work[x].version = u BY DEF Held
      <4>2. x # w BY <1>1, <4>1, VersionsAreNumbers DEF FaultInv, StagesMatch
      <4> QED BY <1>5, <3>1, <4>1, <4>2 DEF Held, Owner
    <3> QED BY <1>2, <2>1, <2>2, <3>1, <3>2, <3>3, PaidStays
  <2>4. CASE u = v
    <3> SUFFICES ASSUME tech'[v] \in Waiting
                 PROVE  job'[v].attempts + (IF AnswerLost(v)' THEN 1 ELSE 0) <= faults' + (IF Held(v)' THEN 1 ELSE 0)
      BY <1>6, <2>4 DEF Paid
    <3>1. Held(v)' BY <1>4, <1>5, <1>6 DEF Held, Owner
    <3>2. AnswerLost(v)' => AnswerLost(v)
      <4>1. \A x \in Workers : Owner(x, v)' => x = w BY <1>6 DEF Owner
      <4> QED BY <1>1, <1>4, <1>5, <4>1 DEF AnswerLost
    <3>3. job[v].attempts + (IF AnswerLost(v) THEN 1 ELSE 0) <= faults + (IF Held(v) THEN 1 ELSE 0)
      BY <1>1, <2>1, <2>4 DEF Paid
    <3>4. ~Held(v) \/ faults' = faults + 1
      BY <1>1 DEF OwnerGone, Held, Owner
    <3> HIDE DEF Held, AnswerLost
    <3> QED BY <1>2, <1>6, <2>2, <3>1, <3>2, <3>3, <3>4
  <2> QED BY <2>3, <2>4
<1>10. NothingLostYet'
  <2> SUFFICES ASSUME faults' = 0 PROVE NothingLostYet'
    BY DEF NothingLostYet
  <2>1. faults = 0 /\ faults' # faults + 1 BY <1>1, <1>2
  <2>2. ASSUME NEW x \in Workers, work[x].step # "idle", work[x].version = v PROVE FALSE
    <3>1. Owner(x, v) BY <2>1, <2>2 DEF FaultInv, NothingLostYet
    <3> QED BY <1>1, <2>1, <2>2, <3>1 DEF OwnerGone, Owner
  <2>3. Owner(w, v)' BY <1>6 DEF Owner
  <2>4. ASSUME NEW x \in Workers, x # w, work[x].step # "idle" PROVE Owner(x, work[x].version)'
    <3>1. work[x].version \in Versions \ {v} BY <2>2, <2>4 DEF FaultInv, IInv, WorkHolds
    <3>2. Owner(x, work[x].version) BY <2>1, <2>4 DEF FaultInv, NothingLostYet
    <3>3. work'[x] = work[x] BY <1>5, <2>4
    <3> QED BY <1>6, <3>1, <3>2, <3>3 DEF Owner
  <2>5. ASSUME NEW x \in Workers, work'[x].step # "idle"
        PROVE  /\ Owner(x, work[x].version)'
               /\ work'[x].step \in {"processing", "scanned", "promoted"} => tech[work'[x].version] = "PROCESSING"
               /\ work'[x].step = "promoted" /\ work'[x].outcome = "BLOCKED_INVALID" => file[work'[x].version] = "invalid"
    <3>1. CASE x = w BY <1>4, <1>5, <2>3, <3>1
    <3>2. CASE x # w
      <4>1. work'[x] = work[x] BY <1>5, <3>2
      <4> QED BY <2>1, <2>4, <2>5, <3>2, <4>1 DEF FaultInv, NothingLostYet
    <3> QED BY <3>1, <3>2
  <2> QED BY <1>1, <2>1, <2>5 DEF FaultInv, NothingLostYet, BeingUploaded
<1> QED BY <1>8, <1>9, <1>10 DEF FaultInv

LEMMA FaultStep == FaultInv /\ [Next]_vars => FaultInv'
<1> SUFFICES ASSUME FaultInv, [Next]_vars PROVE FaultInv'
  OBVIOUS
<1>0. IInv' BY StepHolds DEF FaultInv
<1>1. ASSUME NEW c \in Uploaders,
             PrepareUpload(c) \/ AdvanceUpload(c) \/ StoreFails(c) \/ FinishFails(c) \/ UploaderCrashes(c)
      PROVE  FaultInv'
  BY <1>0, <1>1, UploadFaults
<1>2. CASE \/ ExemptDocument \/ UNCHANGED vars
           \/ \E r \in Reviewers : OpenReview(r) \/ AcceptDocument(r) \/ ObserveDocument(r) \/ CloseReview(r)
  <2>1. UNCHANGED <<tech, file, quarantine, approved, job, upload, work, faults>>
    BY <1>2 DEF ExemptDocument, OpenReview, AcceptDocument, ObserveDocument, CloseReview, Review,
                vars, versionVars, submissionVars, storageVars
  <2> QED BY <1>0, <2>1, RestFaults
<1>3. ASSUME NEW w \in Workers,
             (\E v \in Versions : Claim(w, v)) \/ Deliver(w) \/ ReadFails(w) \/ DeliveryFails(w)
               \/ WorkerCrashes(w)
      PROVE  FaultInv'
  BY <1>0, <1>3, DeliverFaults, ReleaseFaults, ClaimFaults DEF Deliver
<1> QED BY <1>1, <1>2, <1>3 DEF Next

(* Only faults stop a file: however many uploads, workers and deliveries   *)
(* race, a job is given up only after as many faults as it has deliveries, *)
(* and without a fault nothing is left pending or blocked wrongly.         *)
THEOREM FilesStopOnFaultsOnly == Spec => []OnlyFaultsStopAFile
BY FaultInit, FaultStep, FaultInvSays, PTL DEF Spec

-----------------------------------------------------------------------------
(* The refinement of DocumentStatus *)

Arriving == {v \in Versions : tech[v] \in {"QUARANTINED", "PROCESSING"}}

LEMMA InitIsStatusInit == Init => Abstract!InitStatus
BY DEF Init, Abstract!InitStatus, None

(* A step that changes no status, no current file and no version between    *)
(* its quarantine and its outcome is not seen.                              *)
LEMMA NotShown ==
  ASSUME status' = status, current' = current,
         \A v \in Versions : (tech[v] \in {"QUARANTINED", "PROCESSING"}) = (tech'[v] \in {"QUARANTINED", "PROCESSING"})
  PROVE  UNCHANGED Abstract!statusVars
BY DEF Abstract!statusVars

(* The upload that is finished is received: no other file is arriving. *)
LEMMA QuarantinedIsReceived ==
  ASSUME IInv, NEW c \in Uploaders, InProgress(c), Quarantined(upload[c].version), current' = current
  PROVE  \E f \in Versions : Abstract!Receive(f)
<1> DEFINE v == upload[c].version
<1> USE DEF IInv
<1>1. v \in Versions /\ tech[v] = "UPLOAD_PENDING"
  BY DEF UploadsHold, InProgress
<1>2. ASSUME NEW u \in Versions \ {v} PROVE tech[u] \notin Active
  <2> HIDE DEF v
  <2>1. u < v \/ v < u BY <1>1, VersionsAreNumbers
  <2>2. u < v => tech[u] \notin Active BY <1>1 DEF OneAtATime, Active
  <2>3. v < u => tech[u] = "NONE" BY <1>1 DEF OneAtATime, Active
  <2> QED BY <2>1, <2>2, <2>3 DEF Active
<1>3. Arriving = {}
  BY <1>1, <1>2 DEF Arriving, Active
<1>4. Arriving' = {v}
  BY <1>1, <1>2 DEF Arriving, Active, Quarantined, TypeOK
<1> QED BY <1>1, <1>3, <1>4 DEF Abstract!Receive, Quarantined, Arriving

LEMMA UploadIsReceive ==
  ASSUME IInv, NEW c \in Uploaders,
         PrepareUpload(c) \/ AdvanceUpload(c) \/ StoreFails(c) \/ FinishFails(c) \/ UploaderCrashes(c)
  PROVE  [Abstract!NextStatus]_(Abstract!statusVars)
<1> DEFINE v == upload[c].version
<1> USE DEF IInv, versionVars, submissionVars
<1>1. CASE PrepareUpload(c)
  <2>1. PICK u \in Versions : /\ u = 1 + Cardinality({x \in Versions : tech[x] # "NONE"})
                              /\ tech' = [tech EXCEPT ![u] = "UPLOAD_PENDING"]
    BY <1>1 DEF PrepareUpload
  <2>2. tech[u] = "NONE" BY <2>1, NextNumberIsFree
  <2>3. UNCHANGED <<status, current>> BY <1>1 DEF PrepareUpload
  <2>4. ASSUME NEW x \in Versions
        PROVE  (tech[x] \in {"QUARANTINED", "PROCESSING"}) = (tech'[x] \in {"QUARANTINED", "PROCESSING"})
    <3>1. tech'[x] = IF x = u THEN "UPLOAD_PENDING" ELSE tech[x] BY <2>1 DEF TypeOK
    <3> QED BY <2>2, <3>1
  <2> QED BY <2>3, <2>4, NotShown
<1>2. CASE StoreFails(c)
  <2>1. v \in Versions /\ tech' = [tech EXCEPT ![v] = "UPLOAD_FAILED"] /\ tech[v] = "UPLOAD_PENDING"
    BY <1>2 DEF StoreFails, UploadsHold, InProgress
  <2> HIDE DEF v
  <2>2. UNCHANGED <<status, current>> BY <1>2 DEF StoreFails
  <2>3. ASSUME NEW x \in Versions
        PROVE  (tech[x] \in {"QUARANTINED", "PROCESSING"}) = (tech'[x] \in {"QUARANTINED", "PROCESSING"})
    <3>1. tech'[x] = IF x = v THEN "UPLOAD_FAILED" ELSE tech[x] BY <2>1 DEF TypeOK
    <3> QED BY <2>1, <3>1
  <2> QED BY <2>2, <2>3, NotShown
<1>3. CASE FinishUpload(c) \/ (FinishFails(c) /\ Quarantined(v))
  <2>1. InProgress(c) /\ Quarantined(v) /\ current' = current /\ v \in Versions
    BY <1>3 DEF FinishUpload, FinishFails, InProgress, UploadsHold
  <2> QED BY <2>1, QuarantinedIsReceived DEF Abstract!NextStatus
<1>4. CASE StoreFile(c) \/ DeleteAfterFailure(c) \/ UploaderCrashes(c)
           \/ (FinishFails(c) /\ UNCHANGED <<tech, status, job>>)
  <2>1. UNCHANGED <<tech, status, current>>
    BY <1>4 DEF StoreFile, DeleteAfterFailure, UploaderCrashes, FinishFails
  <2> QED BY <2>1, NotShown
<1> QED BY <1>1, <1>2, <1>3, <1>4 DEF AdvanceUpload, FinishFails

(* A verdict is given while nothing arrives. *)
LEMMA ReviewIsDecide ==
  ASSUME IInv, NEW r \in Reviewers,
         OpenReview(r) \/ AcceptDocument(r) \/ ObserveDocument(r) \/ CloseReview(r)
  PROVE  [Abstract!NextStatus]_(Abstract!statusVars)
<1> USE DEF IInv, versionVars, submissionVars
<1>1. CASE OpenReview(r) \/ CloseReview(r)
  <2>1. UNCHANGED <<tech, status, current>> BY <1>1 DEF OpenReview, CloseReview
  <2> QED BY <2>1, NotShown
<1>2. ASSUME NEW verdict, NEW outcome \in {"ACEPTADO", "OBSERVADO"}, Review(r, verdict, outcome)
      PROVE  Abstract!Decide(outcome)
  <2>1. current \in Versions /\ tech[current] = "READY_FOR_REVIEW"
    BY <1>2 DEF Review, ReviewVersionExpected, TypeOK
  <2>2. \A u \in Versions : tech[u] \notin Active
    BY <1>2, <2>1, VersionsAreNumbers DEF Review, ReviewVersionExpected, OneAtATime, Active
  <2>3. Arriving = {} BY <2>2 DEF Arriving, Active
  <2>4. status' = outcome /\ UNCHANGED <<tech, current>> BY <1>2 DEF Review
  <2> QED BY <2>1, <2>3, <2>4, VersionsAreNumbers DEF Abstract!Decide, Arriving
<1> QED BY <1>1, <1>2 DEF AcceptDocument, ObserveDocument, Abstract!NextStatus

LEMMA ExemptIsExempt == ASSUME ExemptDocument PROVE Abstract!Exempt
<1>1. status' = "EXENTO" /\ UNCHANGED <<tech, current>>
  BY DEF ExemptDocument, versionVars
<1>2. Arriving = {}
  BY DEF ExemptDocument, ActiveVersions, Arriving, Active
<1> QED BY <1>1, <1>2 DEF Abstract!Exempt, Arriving

(* Only settling a version is seen: it becomes current or it is blocked. *)
LEMMA SettleIsApproveOrBlock ==
  ASSUME IInv, NEW w \in Workers, FinishProcessing(w)
  PROVE  [Abstract!NextStatus]_(Abstract!statusVars)
<1> DEFINE v == work[w].version
           outcome == work[w].outcome
<1> USE DEF IInv
<1>1. v \in Versions /\ outcome \in Terminal /\ Settle(v, outcome)
  BY DEF FinishProcessing, Busy, WorkHolds
<1> HIDE DEF v, outcome
<1>2. CASE tech[v] # "PROCESSING"
  BY <1>1, <1>2, NotShown DEF Settle
<1>3. CASE tech[v] = "PROCESSING"
  <2>1. \A u \in Versions : tech'[u] = IF u = v THEN outcome ELSE tech[u]
    BY <1>1, <1>3 DEF Settle, TypeOK
  <2>2. ASSUME NEW u \in Versions \ {v} PROVE tech[u] \notin Active
    <3>1. u < v \/ v < u BY <1>1, VersionsAreNumbers
    <3>2. u < v => tech[u] \notin Active BY <1>1, <1>3 DEF OneAtATime
    <3>3. v < u => tech[u] = "NONE" BY <1>1, <1>3 DEF OneAtATime, Active
    <3> QED BY <3>1, <3>2, <3>3 DEF Active
  <2>3. Arriving = {v} /\ Arriving' = {}
    BY <1>1, <1>3, <2>1, <2>2 DEF Arriving, Active, Terminal, Blocked
  <2>4. CASE outcome = "READY_FOR_REVIEW"
    <3>1. current' = v /\ status' = "EN_REVISION" BY <1>1, <1>3, <2>4 DEF Settle
    <3>2. Abstract!Approve BY <1>1, <2>3, <3>1, VersionsAreNumbers DEF Abstract!Approve, Arriving
    <3> QED BY <3>2 DEF Abstract!NextStatus
  <2>5. CASE outcome # "READY_FOR_REVIEW"
    <3>1. UNCHANGED <<current, status>> BY <1>1, <1>3, <2>5 DEF Settle
    <3>2. Abstract!Block BY <2>3, <3>1 DEF Abstract!Block, Arriving
    <3> QED BY <3>2 DEF Abstract!NextStatus
  <2> QED BY <2>4, <2>5
<1> QED BY <1>2, <1>3

LEMMA DeliveryIsNotShown ==
  ASSUME IInv, NEW w \in Workers,
         DeliveryStep(w) \/ Inspect(w) \/ \E v \in Versions : Claim(w, v)
  PROVE  UNCHANGED Abstract!statusVars
<1> USE DEF IInv, versionVars, submissionVars
<1>1. UNCHANGED <<status, current>>
  BY DEF DeliveryStep, StartProcessing, ReadFails, Promote, DeleteQuarantine, MarkSent, DeliveryFails,
         WorkerCrashes, Inspect, Claim
<1>2. CASE StartProcessing(w)
  <2>1. work[w].version \in Versions BY <1>2 DEF StartProcessing, Busy, WorkHolds
  <2>2. \A v \in Versions : tech'[v] = tech[v] \/ (tech[v] \in {"QUARANTINED", "PROCESSING"} /\ tech'[v] = "PROCESSING")
    BY <1>2, <2>1 DEF StartProcessing, TypeOK
  <2> QED BY <1>1, <2>2, NotShown
<1>3. CASE ~StartProcessing(w)
  <2>1. tech' = tech
    BY <1>3 DEF DeliveryStep, ReadFails, Promote, DeleteQuarantine, MarkSent, DeliveryFails, WorkerCrashes,
                Inspect, Claim
  <2> QED BY <1>1, <2>1, NotShown
<1> QED BY <1>2, <1>3

LEMMA StepIsStatusStep == IInv /\ [Next]_vars => [Abstract!NextStatus]_(Abstract!statusVars)
<1> SUFFICES ASSUME IInv, [Next]_vars PROVE [Abstract!NextStatus]_(Abstract!statusVars)
  OBVIOUS
<1>1. ASSUME NEW w \in Workers,
             (\E v \in Versions : Claim(w, v)) \/ Deliver(w) \/ ReadFails(w) \/ DeliveryFails(w)
               \/ WorkerCrashes(w)
      PROVE  [Abstract!NextStatus]_(Abstract!statusVars)
  BY <1>1, SettleIsApproveOrBlock, DeliveryIsNotShown DEF Deliver, DeliveryStep
<1>2. CASE ExemptDocument
  BY <1>2, ExemptIsExempt DEF Abstract!NextStatus
<1>3. CASE UNCHANGED vars
  BY <1>3, NotShown DEF vars, versionVars, submissionVars
<1> QED BY <1>1, <1>2, <1>3, UploadIsReceive, ReviewIsDecide DEF Next

(* The uploads, storages, jobs and workers implement the status of ONE      *)
(* file at a time: whoever reads it sees a file arrive, become current or   *)
(* be blocked, and verdicts on the current file only.                       *)
THEOREM StatusImplemented == Spec => ImplementsDocumentStatus
<1>1. Init => Abstract!InitStatus BY InitIsStatusInit
<1>2. IInv /\ [Next]_vars => [Abstract!NextStatus]_(Abstract!statusVars) BY StepIsStatusStep
<1> QED BY <1>1, <1>2, Inductive, PTL DEF Spec, ImplementsDocumentStatus, Abstract!StatusSpec
=============================================================================
