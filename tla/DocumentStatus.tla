---------------------------- MODULE DocumentStatus ----------------------------
(***************************************************************************)
(* What a submission of a document promises to whoever reads its status:   *)
(* one file at a time is processed, a file is current only after it, and   *)
(* a verdict is about the current file.  Documents implements it with      *)
(* uploads, storages, jobs and workers; Submission reads it.               *)
(***************************************************************************)
CONSTANT Files

VARIABLES
  status,    \* document_submissions.status
  current,   \* the current file, if there is one
  arriving   \* the file that is in quarantine or being processed

statusVars == <<status, current, arriving>>

InitStatus ==
  /\ status = "PENDIENTE"
  /\ current = {}
  /\ arriving = {}

(* The upload is finished: the verdict on the file before does not count.   *)
Receive(f) ==
  /\ arriving = {}
  /\ arriving' = {f}
  /\ status' = "CARGADO"
  /\ UNCHANGED current

Approve ==
  /\ arriving # {}
  /\ current' = arriving
  /\ arriving' = {}
  /\ status' = "EN_REVISION"

Block ==
  /\ arriving # {}
  /\ arriving' = {}
  /\ UNCHANGED <<status, current>>

Decide(verdict) ==
  /\ current # {} /\ arriving = {}
  /\ status' = verdict
  /\ UNCHANGED <<current, arriving>>

Exempt ==
  /\ arriving = {}
  /\ status' = "EXENTO"
  /\ UNCHANGED <<current, arriving>>

NextStatus ==
  \/ \E f \in Files : Receive(f)
  \/ Approve \/ Block
  \/ Decide("ACEPTADO") \/ Decide("OBSERVADO")
  \/ Exempt

StatusSpec == InitStatus /\ [][NextStatus]_statusVars
=============================================================================
