------------------------ MODULE Communications_proofs ------------------------
(***************************************************************************)
(* Proofs about Communications for every number of requests, workers,      *)
(* webhooks, versions, deliveries and faults.  The inductive invariant     *)
(* counts the e-mails by the attempts the provider knows (MailsByAttempt), *)
(* keeps a delivery's attempt number within one of the recorded attempts   *)
(* however late it is (CallsFollowAttempts), gives the row to one request  *)
(* at a time (RowLock), and lets an event name recorded attempts only.     *)
(*                                                                         *)
(* CauseInv adds where each status comes from: what a request has read     *)
(* unlocked still justifies what it writes, as failures stay on record.    *)
(*                                                                         *)
(* The second half is about Calendar, whose deadlines the communications   *)
(* announce, for every set of zones, holidays, validities and instants:    *)
(* civil times resolve, business dates exist and are counted right, and so *)
(* the deadlines and reminders issued are right.  Induction is over sets   *)
(* of numbers, by their least member.                                      *)
(***************************************************************************)
EXTENDS Communications, Calendar, FiniteSetTheorems, WellFoundedInduction, NaturalsInduction, TLAPS

Lives == {"PREPARED", "CONFIRMED", "SENT", "DELIVERED", "FAILED"}
Results == {"SENT", "FAILED", "DELIVERED"}

(* The shapes of the rows, and of the requests in progress. *)
Rows ==
  /\ life \in Lives
  /\ version \in 1..MaxVersion
  /\ attempts \in Seq(Results)
  /\ task \in BOOLEAN /\ suppressed \in BOOLEAN
  /\ events \subseteq (1..Len(attempts)) \X EventTypes
Jobs ==
  job \in [Keys -> [status : {"NONE", "PENDING", "PROCESSING", "SENT", "FAILED"},
                    attempts : Nat, owner : Workers \cup {"nobody"}]]
JobsAreMade == \A k \in Keys : job[k].status = "NONE" => job[k] = NoJob
Txs == [op : {"none", "confirm", "retry", "evidence"},
        step : {"idle", "read", "updated", "queued"}, seq : Nat]
Works == [step : {"idle", "claimed", "ready", "called", "done", "failed"},
          key : Keys \cup {<<"none", 0>>}, seq : Nat, result : {"none", "SENT", "FAILED"}]
Events == [step : {"idle", "read"}, event : Nat \X (EventTypes \cup {"none"}),
           seen : Lives \cup {"none"}]
Requests ==
  /\ tx \in [Staff -> Txs]
  /\ work \in [Workers -> Works]
  /\ hook \in [Hooks -> Events]

(* One request at a time holds the row, while there is a version left. *)
HoldsRow(s) == tx[s].step \in {"updated", "queued"}
RowLock ==
  \A s \in Staff :
    HoldsRow(s) => version < MaxVersion /\ \A t \in Staff : HoldsRow(t) => s = t

(* A delivery, however late, is about a recorded attempt or the next one. *)
CallsFollowAttempts ==
  \A w \in Workers :
    /\ work[w].step \in {"ready", "called"} => work[w].seq \in 1..(Len(attempts) + 1)
    /\ work[w].step = "called" => work[w].result \in {"SENT", "FAILED"}

(* The provider sent one e-mail for each attempt it knows. *)
MailsByAttempt ==
  /\ accepted \subseteq 1..(Len(attempts) + 1)
  /\ IsFiniteSet(accepted)
  /\ emails = Cardinality(accepted)

HooksNameAttempts ==
  \A h \in Hooks :
    hook[h].step = "read" => hook[h].event \in (1..Len(attempts)) \X EventTypes

IInv ==
  /\ Rows /\ Jobs /\ JobsAreMade /\ Requests
  /\ RowLock /\ CallsFollowAttempts /\ MailsByAttempt /\ HooksNameAttempts
  /\ FailureHasTask /\ DeliveredHasEvidence

-----------------------------------------------------------------------------
LEMMA InitHolds == Init => IInv
<1> SUFFICES ASSUME Init PROVE IInv
  OBVIOUS
<1> USE CommunicationBounds DEF Init, NoJob, NoTx, NoWork, NoHook
<1>1. Rows /\ Jobs /\ JobsAreMade /\ Requests
  <2>1. Jobs /\ JobsAreMade BY DEF Jobs, JobsAreMade
  <2>4. Rows
    <3>1. attempts \in Seq(Results) BY DEF Init
    <3>2. version \in 1..MaxVersion BY DEF Init
    <3> QED BY <3>1, <3>2 DEF Rows, Lives
  <2>2. NoTx \in Txs /\ NoWork \in Works /\ NoHook \in Events BY DEF Txs, Works, Events
  <2>3. Requests BY <2>2 DEF Requests
  <2> QED BY <2>1, <2>3, <2>4
<1>2. RowLock /\ CallsFollowAttempts /\ HooksNameAttempts
  BY DEF RowLock, HoldsRow, CallsFollowAttempts, HooksNameAttempts
<1>3. MailsByAttempt
  BY FS_EmptySet DEF MailsByAttempt
<1>4. FailureHasTask /\ DeliveredHasEvidence
  BY DEF FailureHasTask, DeliveredHasEvidence
<1> QED BY <1>1, <1>2, <1>3, <1>4 DEF IInv

-----------------------------------------------------------------------------
(* What a new attempt leaves true: attempts are only appended. *)
LEMMA AppendKeeps ==
  ASSUME IInv, NEW r \in Results, attempts' = Append(attempts, r),
         r = "FAILED" => task', task => task', task' \in BOOLEAN,
         UNCHANGED <<events, suppressed, accepted, emails, version>>,
         life' \in Lives, life' = "FAILED" => task', life' = "DELIVERED" => r = "DELIVERED"
  PROVE  /\ Rows' /\ MailsByAttempt' /\ FailureHasTask' /\ DeliveredHasEvidence'
         /\ Len(attempts') = Len(attempts) + 1
<1> USE DEF IInv
<1>1. /\ Len(attempts') = Len(attempts) + 1 /\ Len(attempts) \in Nat
      /\ attempts' \in Seq(Results)
      /\ \A n \in 1..Len(attempts) : attempts'[n] = attempts[n]
      /\ attempts'[Len(attempts) + 1] = r
  BY DEF Rows
<1>2. Rows'
  BY <1>1 DEF Rows
<1>3. MailsByAttempt'
  BY <1>1 DEF MailsByAttempt
<1>4. FailureHasTask'
  <2> SUFFICES ASSUME NEW n \in 1..Len(attempts'), attempts'[n] = "FAILED" PROVE task'
    BY DEF FailureHasTask
  <2>1. CASE n = Len(attempts) + 1 BY <1>1, <2>1
  <2>2. CASE n \in 1..Len(attempts) BY <1>1, <2>2 DEF FailureHasTask
  <2> QED BY <1>1, <2>1, <2>2
<1>5. DeliveredHasEvidence'
  BY <1>1 DEF DeliveredHasEvidence
<1> QED BY <1>1, <1>2, <1>3, <1>4, <1>5

(* Steps that leave the rows and the provider alone. *)
LEMMA RowsStay ==
  ASSUME IInv, UNCHANGED <<life, version, attempts, task, suppressed, events, accepted, emails>>
  PROVE  Rows' /\ MailsByAttempt' /\ FailureHasTask' /\ DeliveredHasEvidence'
BY DEF IInv, Rows, MailsByAttempt, FailureHasTask, DeliveredHasEvidence

-----------------------------------------------------------------------------
(* Requests of the staff *)

LEMMA ReadKeeps ==
  ASSUME IInv, NEW s \in Staff, NEW op \in {"confirm", "retry", "evidence"}, Read(s, op)
  PROVE  IInv'
<1> USE DEF IInv
<1>1. /\ tx' = [tx EXCEPT ![s] = [op |-> op, step |-> "read", seq |-> Len(attempts) + 1]]
      /\ UNCHANGED <<life, version, attempts, task, suppressed, events, job, accepted, emails, work, hook>>
  BY DEF Read, rowVars, providerVars
<1>2. Len(attempts) + 1 \in Nat
  BY DEF Rows
<1>3. Requests'
  BY <1>1, <1>2 DEF Requests, Txs
<1>4. RowLock'
  BY <1>1 DEF RowLock, HoldsRow, Requests
<1> QED BY <1>1, <1>3, <1>4, RowsStay DEF Jobs, JobsAreMade, CallsFollowAttempts, HooksNameAttempts

LEMMA UpdateKeeps ==
  ASSUME IInv, NEW s \in Staff, UpdateConfirm(s) \/ UpdateRetry(s) \/ Rollback(s)
  PROVE  IInv'
<1> USE DEF IInv
<1>1. UNCHANGED <<life, version, attempts, task, suppressed, events, job, accepted, emails, work, hook>>
  BY DEF UpdateConfirm, UpdateRetry, Rollback, rowVars, providerVars
<1>2. Leave(s) \/ (Locked(s) /\ RowFree /\ version < MaxVersion)
  BY DEF UpdateConfirm, UpdateRetry, Rollback
<1>3. PICK t \in Txs :
        /\ tx' = [tx EXCEPT ![s] = t]
        /\ t.step = "idle" \/ (t.step = "updated" /\ RowFree /\ version < MaxVersion)
  <2>1. NoTx \in Txs /\ NoTx.step = "idle" BY DEF NoTx, Txs
  <2>2. [tx[s] EXCEPT !.step = "updated"] \in Txs BY DEF Requests, Txs
  <2>3. [tx[s] EXCEPT !.step = "updated"].step = "updated" BY DEF Requests, Txs
  <2> QED BY <1>2, <2>1, <2>2, <2>3 DEF Leave, Locked
<1>4. Requests'
  BY <1>1, <1>3 DEF Requests
<1>5. RowLock'
  <2>1. \A x \in Staff : tx'[x] = IF x = s THEN t ELSE tx[x] BY <1>3 DEF Requests
  <2> QED BY <1>1, <1>3, <2>1 DEF RowLock, HoldsRow, RowFree
<1> QED BY <1>1, <1>4, <1>5, RowsStay DEF Jobs, JobsAreMade, CallsFollowAttempts, HooksNameAttempts

LEMMA EnqueueKeeps == ASSUME IInv, NEW s \in Staff, EnqueueSend(s) PROVE IInv'
<1> USE DEF IInv
<1>1. UNCHANGED <<life, version, attempts, task, suppressed, events, accepted, emails, work, hook>>
  BY DEF EnqueueSend, rowVars, providerVars
<1>2. tx[s].step = "updated"
  BY DEF EnqueueSend
<1>3. Leave(s) \/ tx' = [tx EXCEPT ![s].step = "queued"]
  BY DEF EnqueueSend
<1>4. Requests'
  BY <1>1, <1>3 DEF Requests, Txs, Leave, NoTx
<1>5. RowLock'
  BY <1>1, <1>2, <1>3 DEF RowLock, HoldsRow, Requests, Leave, NoTx
<1>6. Jobs' /\ JobsAreMade'
  <2>1. UNCHANGED job \/ job' = [job EXCEPT ![<<tx[s].op, version + 1>>].status = "PENDING"]
    BY DEF EnqueueSend
  <2> QED BY <2>1 DEF Jobs, JobsAreMade
<1> QED BY <1>1, <1>4, <1>5, <1>6, RowsStay DEF CallsFollowAttempts, HooksNameAttempts

(* The version is raised under the row lock, which is then free. *)
LEMMA CommitRequestKeeps == ASSUME IInv, NEW s \in Staff, CommitRequest(s) PROVE IInv'
<1> USE DEF IInv
<1>1. /\ life' = "CONFIRMED" /\ version' = version + 1
      /\ tx' = [tx EXCEPT ![s] = NoTx] /\ tx[s].step = "queued"
      /\ UNCHANGED <<attempts, task, suppressed, events, job, accepted, emails, work, hook>>
  BY DEF CommitRequest, Leave, providerVars
<1>2. version < MaxVersion /\ \A t \in Staff : HoldsRow(t) => t = s
  BY <1>1 DEF RowLock, HoldsRow
<1>3. Rows'
  BY <1>1, <1>2, CommunicationBounds DEF Rows, Lives
<1>4. Requests'
  BY <1>1 DEF Requests, Txs, NoTx
<1>5. RowLock'
  BY <1>1, <1>2 DEF RowLock, HoldsRow, Requests, NoTx
<1>6. FailureHasTask' /\ DeliveredHasEvidence'
  BY <1>1 DEF FailureHasTask, DeliveredHasEvidence
<1> QED BY <1>1, <1>3, <1>4, <1>5, <1>6
        DEF Jobs, JobsAreMade, CallsFollowAttempts, HooksNameAttempts, MailsByAttempt

LEMMA EvidenceKeeps == ASSUME IInv, NEW s \in Staff, RecordEvidence(s) PROVE IInv'
<1> USE DEF IInv
<1>1. /\ tx' = [tx EXCEPT ![s] = NoTx]
      /\ UNCHANGED <<version, task, suppressed, events, job, accepted, emails, work, hook>>
  BY DEF RecordEvidence, Leave, providerVars
<1>2. Requests' /\ RowLock'
  BY <1>1 DEF Requests, Txs, NoTx, RowLock, HoldsRow
<1>3. CASE UNCHANGED <<attempts, life>>
  BY <1>1, <1>2, <1>3, RowsStay DEF Jobs, JobsAreMade, CallsFollowAttempts, HooksNameAttempts
<1>4. CASE attempts' = Append(attempts, "DELIVERED") /\ life' = "DELIVERED"
  <2>1. /\ Rows' /\ MailsByAttempt' /\ FailureHasTask' /\ DeliveredHasEvidence'
        /\ Len(attempts') = Len(attempts) + 1
    BY <1>1, <1>4, AppendKeeps DEF Results, Lives, Rows
  <2>2. CallsFollowAttempts' /\ HooksNameAttempts'
    BY <1>1, <2>1 DEF CallsFollowAttempts, HooksNameAttempts, Rows
  <2> QED BY <1>1, <1>2, <2>1, <2>2 DEF Jobs, JobsAreMade
<1> QED BY <1>3, <1>4 DEF RecordEvidence

-----------------------------------------------------------------------------
(* The worker and the provider *)

LEMMA ClaimKeeps == ASSUME IInv, NEW w \in Workers, NEW k \in Keys, Claim(w, k) PROVE IInv'
<1> USE DEF IInv
<1>1. /\ UNCHANGED <<life, version, attempts, task, suppressed, events, accepted, emails, tx, hook>>
      /\ job' = [job EXCEPT ![k] = [status |-> "PROCESSING", attempts |-> job[k].attempts + 1, owner |-> w]]
      /\ work' = [work EXCEPT ![w].step = "claimed", ![w].key = k]
  BY DEF Claim, rowVars, providerVars
<1>2. Jobs' /\ JobsAreMade'
  BY <1>1 DEF Jobs, JobsAreMade
<1>3. Requests'
  BY <1>1 DEF Requests, Works
<1>4. CallsFollowAttempts'
  BY <1>1 DEF CallsFollowAttempts, Requests, Works
<1> QED BY <1>1, <1>2, <1>3, <1>4, RowsStay DEF RowLock, HoldsRow, HooksNameAttempts

(* Steps of a delivery that change neither the rows nor what was sent. *)
LEMMA QuietDeliveryKeeps ==
  ASSUME IInv, NEW w \in Workers,
         \/ ReadCommunication(w) \/ ProviderRefuses(w) \/ SendFails(w)
         \/ MarkSent(w) \/ RequeueOrFail(w) \/ WorkerCrashes(w)
  PROVE  IInv'
<1> USE DEF IInv
<1>1. UNCHANGED <<life, version, attempts, task, suppressed, events, accepted, emails, tx, hook>>
  BY DEF ReadCommunication, ProviderRefuses, SendFails, MarkSent, RequeueOrFail, WorkerCrashes,
         rowVars, providerVars
<1>2. Jobs' /\ JobsAreMade'
  <2>1. \/ UNCHANGED job
        \/ job' = [job EXCEPT ![work[w].key].status = "SENT"]
        \/ \E x \in {"FAILED", "PENDING"} :
             job' = [job EXCEPT ![work[w].key].owner = "nobody", ![work[w].key].status = x]
    BY DEF ReadCommunication, ProviderRefuses, SendFails, MarkSent, RequeueOrFail, WorkerCrashes
  <2> QED BY <2>1 DEF Jobs, JobsAreMade
<1>3. PICK t \in Works :
        /\ work' = [work EXCEPT ![w] = t]
        /\ t.step \in {"ready", "called"} => t.seq \in 1..(Len(attempts) + 1)
        /\ t.step = "called" => t.result \in {"SENT", "FAILED"}
  <2>1. PICK n \in Nat : n = Len(attempts) + 1 BY DEF Rows
  <2>2. CASE ReadCommunication(w)
    <3>1. CASE work' = [work EXCEPT ![w].step = "done"]
      <4> DEFINE t == [work[w] EXCEPT !.step = "done"]
      <4>1. t \in Works /\ t.step = "done" BY DEF Requests, Works
      <4> QED BY <3>1, <4>1
    <3>2. CASE Prepared(w, suppressed)
      <4>1. CASE suppressed
        <5> DEFINE t == [work[w] EXCEPT !.step = "called", !.seq = n, !.result = "FAILED"]
        <5>1. t \in Works /\ t.seq = n /\ t.step = "called" /\ t.result = "FAILED"
          BY DEF Requests, Works
        <5>2. work' = [work EXCEPT ![w] = t] BY <2>1, <3>2, <4>1 DEF Prepared
        <5>3. t.seq \in 1..(Len(attempts) + 1) BY <2>1, <5>1
        <5> HIDE DEF t
        <5> QED BY <5>1, <5>2, <5>3
      <4>2. CASE ~suppressed
        <5> DEFINE t == [work[w] EXCEPT !.step = "ready", !.seq = n, !.result = "none"]
        <5>1. t \in Works /\ t.seq = n /\ t.step = "ready"
          BY DEF Requests, Works
        <5>2. work' = [work EXCEPT ![w] = t] BY <2>1, <3>2, <4>2 DEF Prepared
        <5>3. t.seq \in 1..(Len(attempts) + 1) BY <2>1, <5>1
        <5> HIDE DEF t
        <5> QED BY <5>1, <5>2, <5>3
      <4> QED BY <4>1, <4>2
    <3> QED BY <2>2, <3>1, <3>2 DEF ReadCommunication
  <2>3. CASE ProviderRefuses(w)
    <3> DEFINE t == [work[w] EXCEPT !.step = "called", !.result = "FAILED"]
    <3>1. t \in Works /\ t.step = "called" /\ t.result = "FAILED" /\ t.seq = work[w].seq
      BY DEF Requests, Works
    <3>2. work' = [work EXCEPT ![w] = t] BY <2>3 DEF ProviderRefuses, Called
    <3>3. work[w].seq \in 1..(Len(attempts) + 1) BY <2>3 DEF ProviderRefuses, Busy, CallsFollowAttempts
    <3> HIDE DEF t
    <3> QED BY <3>1, <3>2, <3>3
  <2>4. CASE SendFails(w)
    <3> DEFINE t == [work[w] EXCEPT !.step = "failed"]
    <3>1. t \in Works /\ t.step = "failed" BY DEF Requests, Works
    <3> QED BY <2>4, <3>1 DEF SendFails
  <2>5. CASE MarkSent(w) \/ RequeueOrFail(w) \/ WorkerCrashes(w)
    <3>1. NoWork \in Works /\ NoWork.step = "idle" BY DEF NoWork, Works
    <3> QED BY <2>5, <3>1 DEF MarkSent, RequeueOrFail, WorkerCrashes
  <2> QED BY <2>2, <2>3, <2>4, <2>5
<1>4. Requests'
  BY <1>1, <1>3 DEF Requests
<1>5. CallsFollowAttempts'
  BY <1>1, <1>3 DEF CallsFollowAttempts, Requests
<1> QED BY <1>1, <1>2, <1>4, <1>5, RowsStay DEF RowLock, HoldsRow, HooksNameAttempts

(* The provider sends at most one e-mail for the attempt of the delivery. *)
LEMMA CallKeeps ==
  ASSUME IInv, NEW w \in Workers, ProviderAccepts(w) \/ AnswerLost(w)
  PROVE  IInv'
<1> DEFINE n == work[w].seq
<1> USE DEF IInv
<1>1. /\ UNCHANGED <<life, version, attempts, task, suppressed, events, job, tx, hook>>
      /\ work[w].step = "ready" /\ Accept(n)
  BY DEF ProviderAccepts, AnswerLost, Busy, rowVars
<1>2. PICK r \in {"SENT", "FAILED"} : work' = [work EXCEPT ![w].step = "called", ![w].result = r]
  BY DEF ProviderAccepts, AnswerLost, Called
<1>3. n \in 1..(Len(attempts) + 1)
  BY <1>1 DEF CallsFollowAttempts
<1>4. MailsByAttempt'
  <2>1. IsFiniteSet(accepted) BY DEF MailsByAttempt
  <2>2. /\ IsFiniteSet(accepted \cup {n})
        /\ Cardinality(accepted \cup {n}) = IF n \in accepted THEN Cardinality(accepted)
                                                              ELSE Cardinality(accepted) + 1
    BY <2>1, FS_AddElement
  <2> HIDE DEF n
  <2> QED BY <1>1, <1>3, <2>2 DEF Accept, MailsByAttempt
<1>5. Rows' /\ FailureHasTask' /\ DeliveredHasEvidence'
  BY <1>1 DEF Rows, FailureHasTask, DeliveredHasEvidence
<1>6. Requests'
  BY <1>1, <1>2 DEF Requests, Works
<1>7. CallsFollowAttempts'
  BY <1>1, <1>2 DEF CallsFollowAttempts, Requests, Works
<1> QED BY <1>1, <1>4, <1>5, <1>6, <1>7 DEF Jobs, JobsAreMade, RowLock, HoldsRow, HooksNameAttempts

LEMMA CommitResultKeeps == ASSUME IInv, NEW w \in Workers, CommitResult(w) PROVE IInv'
<1> USE DEF IInv
<1>1. /\ work[w].step = "called"
      /\ UNCHANGED <<version, suppressed, events, job, accepted, emails, tx, hook>>
  BY DEF CommitResult, Busy, providerVars
<1>2. work[w].result \in {"SENT", "FAILED"}
  BY <1>1 DEF CallsFollowAttempts
<1>3. PICK x \in {"done", "failed"} : work' = [work EXCEPT ![w].step = x]
  BY DEF CommitResult
<1>4. Requests'
  BY <1>1, <1>3 DEF Requests, Works
<1>5. CASE UNCHANGED <<attempts, life, task>>
  <2>1. CallsFollowAttempts'
    BY <1>3, <1>5 DEF CallsFollowAttempts, Requests, Works
  <2> QED BY <1>1, <1>4, <1>5, <2>1, RowsStay DEF Jobs, JobsAreMade, RowLock, HoldsRow, HooksNameAttempts
<1>6. CASE /\ attempts' = Append(attempts, work[w].result) /\ life' = work[w].result
           /\ IF work[w].result = "FAILED" THEN RecordFailure ELSE UNCHANGED task
  <2>1. /\ Rows' /\ MailsByAttempt' /\ FailureHasTask' /\ DeliveredHasEvidence'
        /\ Len(attempts') = Len(attempts) + 1
    <3>1. task => task' /\ task' \in BOOLEAN BY <1>6 DEF RecordFailure, Rows
    <3>2. work[w].result = "FAILED" => task' BY <1>6 DEF RecordFailure
    <3>3. work[w].result \in Results /\ life' \in Lives BY <1>2, <1>6 DEF Results, Lives
    <3>4. task' \in BOOLEAN BY <1>6 DEF RecordFailure, Rows
    <3> QED BY <1>1, <1>2, <1>6, <3>1, <3>2, <3>3, <3>4, AppendKeeps
  <2>2. CallsFollowAttempts' /\ HooksNameAttempts'
    BY <1>1, <1>3, <2>1 DEF CallsFollowAttempts, HooksNameAttempts, Rows, Requests, Works
  <2> QED BY <1>1, <1>4, <2>1, <2>2 DEF Jobs, JobsAreMade, RowLock, HoldsRow
<1> QED BY <1>5, <1>6 DEF CommitResult

-----------------------------------------------------------------------------
(* The webhooks *)

LEMMA ReadEventKeeps ==
  ASSUME IInv, NEW h \in Hooks, NEW n \in accepted, NEW type \in EventTypes, ReadEvent(h, n, type)
  PROVE  IInv'
<1> USE DEF IInv
<1>1. /\ UNCHANGED <<life, version, attempts, task, suppressed, events, job, accepted, emails, tx, work>>
      /\ hook' = [hook EXCEPT ![h] = [step |-> "read", event |-> <<n, type>>, seen |-> life]]
      /\ n <= Len(attempts)
  BY DEF ReadEvent, rowVars, providerVars
<1>2. n \in 1..Len(attempts)
  BY <1>1 DEF MailsByAttempt, Rows
<1>3. Requests'
  BY <1>1, <1>2 DEF Requests, Events, Rows
<1>4. HooksNameAttempts'
  BY <1>1, <1>2 DEF HooksNameAttempts, Requests, Events
<1> QED BY <1>1, <1>3, <1>4, RowsStay DEF Jobs, JobsAreMade, RowLock, HoldsRow, CallsFollowAttempts

LEMMA CommitEventKeeps == ASSUME IInv, NEW h \in Hooks, CommitEvent(h) PROVE IInv'
<1> DEFINE e == hook[h].event
<1> USE DEF IInv
<1>1. /\ hook' = [hook EXCEPT ![h] = NoHook]
      /\ UNCHANGED <<version, attempts, job, accepted, emails, tx, work>>
  BY DEF CommitEvent, rowVars, providerVars
<1>2. e \in (1..Len(attempts)) \X EventTypes
  BY DEF CommitEvent, HooksNameAttempts
<1>3. Requests' /\ HooksNameAttempts'
  BY <1>1 DEF Requests, Events, NoHook, HooksNameAttempts
<1>4. CASE UNCHANGED <<life, task, suppressed, events>>
  BY <1>1, <1>3, <1>4, RowsStay DEF Jobs, JobsAreMade, RowLock, HoldsRow, CallsFollowAttempts
<1>5. CASE ~UNCHANGED <<life, task, suppressed, events>>
  <2>1. /\ events' = events \cup {e}
        /\ \/ e[2] = "DELIVERED" /\ life' \in {life, "DELIVERED"} /\ UNCHANGED <<task, suppressed>>
           \/ life' \in {life, "FAILED"} /\ task' = TRUE /\ suppressed' = TRUE
    BY <1>5 DEF CommitEvent, rowVars
  <2>2. Rows'
    BY <1>1, <1>2, <2>1 DEF Rows, Lives
  <2>3. FailureHasTask'
    BY <1>1, <2>1 DEF FailureHasTask
  <2>4. DeliveredHasEvidence'
    <3>1. CASE life' = life BY <1>1, <2>1, <3>1 DEF DeliveredHasEvidence
    <3>2. CASE life' = "DELIVERED" /\ e[2] = "DELIVERED"
      <4>1. e[1] \in 1..Len(attempts) /\ <<e[1], "DELIVERED">> \in events' BY <1>2, <2>1, <3>2
      <4> QED BY <1>1, <4>1 DEF DeliveredHasEvidence
    <3>3. CASE life' = "FAILED" BY <3>3 DEF DeliveredHasEvidence
    <3> QED BY <2>1, <3>1, <3>2, <3>3
  <2> QED BY <1>1, <1>3, <2>2, <2>3, <2>4
          DEF Jobs, JobsAreMade, RowLock, HoldsRow, CallsFollowAttempts, MailsByAttempt
<1> QED BY <1>4, <1>5

-----------------------------------------------------------------------------
(* The invariant is inductive. *)
LEMMA StepHolds == IInv /\ [Next]_vars => IInv'
<1> SUFFICES ASSUME IInv, [Next]_vars PROVE IInv'
  OBVIOUS
<1>1. CASE StaffNext
  BY <1>1, ReadKeeps, UpdateKeeps, EnqueueKeeps, CommitRequestKeeps, EvidenceKeeps
  DEF StaffNext, ReadForConfirm, ReadForRetry, ReadForEvidence
<1>2. CASE WorkerNext
  BY <1>2, ClaimKeeps, QuietDeliveryKeeps, CallKeeps, CommitResultKeeps DEF WorkerNext, Deliver
<1>3. CASE HookNext
  BY <1>3, ReadEventKeeps, CommitEventKeeps DEF HookNext
<1>4. CASE UNCHANGED vars
  BY <1>4 DEF IInv, Rows, Jobs, JobsAreMade, Requests, RowLock, HoldsRow, CallsFollowAttempts, MailsByAttempt,
              HooksNameAttempts, FailureHasTask, DeliveredHasEvidence, vars, rowVars, providerVars
<1> QED BY <1>1, <1>2, <1>3, <1>4 DEF Next

LEMMA Inductive == Spec => []IInv
BY InitHolds, StepHolds, PTL DEF Spec

(* Every row has its shape, and only a request that committed under the    *)
(* row lock raises the version.                                            *)
THEOREM CommunicationTypes == Spec => []TypeOK
<1>1. ASSUME IInv PROVE TypeOK
  <2> USE <1>1 DEF IInv
  <2>1. \A k \in Keys :
          /\ job[k].status \in {"NONE", "PENDING", "PROCESSING", "SENT", "FAILED"}
          /\ job[k].owner \in Workers \cup {"nobody"}
          /\ (job[k].status = "NONE") = (job[k].attempts = 0 /\ job[k] = NoJob)
    BY DEF Jobs, JobsAreMade, NoJob
  <2>2. /\ \A s \in Staff : tx[s].step \in {"idle", "read", "updated", "queued"}
        /\ \A w \in Workers :
             work[w].step \in {"idle", "claimed", "ready", "called", "done", "failed"}
        /\ \A h \in Hooks : hook[h].step \in {"idle", "read"}
    BY DEF Requests, Txs, Works, Events
  <2> QED BY <2>1, <2>2 DEF TypeOK, Rows, Lives, Results
<1> QED BY <1>1, Inductive, PTL

(* However often a message is delivered, reclaimed or rolled back, the     *)
(* family gets at most one e-mail for each recorded attempt, and one for   *)
(* the attempt in progress.                                                *)
THEOREM OneMailPerAttempt == Spec => []EmailsAreAccounted
<1>1. ASSUME IInv PROVE EmailsAreAccounted
  <2> USE <1>1 DEF IInv
  <2>1. Len(attempts) \in Nat BY DEF Rows
  <2>2. IsFiniteSet(1..(Len(attempts) + 1)) /\ Cardinality(1..(Len(attempts) + 1)) = Len(attempts) + 1
    BY <2>1, FS_Interval
  <2>3. Cardinality(accepted) <= Len(attempts) + 1
    BY <2>2, FS_Subset DEF MailsByAttempt
  <2> QED BY <2>3 DEF MailsByAttempt, EmailsAreAccounted
<1> QED BY <1>1, Inductive, PTL

(* A failure leaves a task for the staff, whoever saw it first. *)
THEOREM FailureIsFollowedUp == Spec => []FailureHasTask
<1>1. IInv => FailureHasTask BY DEF IInv
<1> QED BY <1>1, Inductive, PTL

(* "Delivered" is shown with the provider's event or a manual record. *)
THEOREM DeliveryIsEvidenced == Spec => []DeliveredHasEvidence
<1>1. IInv => DeliveredHasEvidence BY DEF IInv
<1> QED BY <1>1, Inductive, PTL
-----------------------------------------------------------------------------
(* The causes of a status *)

(* Until a first confirmation commits, and while nothing was rolled back,   *)
(* nothing is recorded, and only a confirmation that is about to commit has *)
(* queued a message.                                                        *)
Unconfirmed == version = 1 /\ crashes = 0
QuietUntilConfirmed ==
  Unconfirmed =>
    /\ life = "PREPARED"
    /\ \A s \in Staff : tx[s].op # "evidence"
    /\ (\A s \in Staff : tx[s].step # "queued") =>
          (\A k \in Keys : job[k] = NoJob) /\ (\A w \in Workers : work[w] = NoWork)

(* A retry was asked for after a failure; a confirmation that holds the row *)
(* found it without a sent attempt, or after a failure.                     *)
RequestsHaveCauses ==
  \A s \in Staff :
    /\ HoldsRow(s) => tx[s].op \in {"confirm", "retry"}
    /\ tx[s].op = "retry" => FailureIsRecorded
    /\ tx[s].op = "confirm" /\ HoldsRow(s) => attempts = <<>> \/ FailureIsRecorded

CauseInv ==
  /\ crashes \in Nat
  /\ QuietUntilConfirmed /\ RequestsHaveCauses
  /\ life = "PREPARED" => attempts = <<>>
  /\ ShownStatusHasItsCause

LEMMA CauseInit == Init => CauseInv
<1> SUFFICES ASSUME Init PROVE CauseInv
  OBVIOUS
<1> USE DEF Init, NoTx
<1>1. QuietUntilConfirmed /\ RequestsHaveCauses
  BY DEF QuietUntilConfirmed, Unconfirmed, RequestsHaveCauses, HoldsRow
<1>2. ShownStatusHasItsCause
  BY DEF ShownStatusHasItsCause, FailureIsRecorded, DeliveredHasEvidence
<1> QED BY <1>1, <1>2 DEF CauseInv

(* Attempts are only appended, events only added. *)
LEMMA FailuresStay ==
  ASSUME IInv, events \subseteq events',
         attempts' = attempts \/ \E r \in Results : attempts' = Append(attempts, r)
  PROVE  FailureIsRecorded => FailureIsRecorded'
<1>1. /\ Len(attempts) \in Nat /\ Len(attempts') \in Nat /\ Len(attempts) <= Len(attempts')
      /\ \A n \in 1..Len(attempts) : attempts'[n] = attempts[n]
  BY DEF IInv, Rows
<1> SUFFICES ASSUME FailureIsRecorded PROVE FailureIsRecorded'
  OBVIOUS
<1>2. PICK n \in 1..Len(attempts) : attempts[n] = "FAILED" \/ <<n, "BOUNCED">> \in events
  BY DEF FailureIsRecorded
<1>3. n \in 1..Len(attempts') /\ attempts'[n] = attempts[n]
  BY <1>1
<1>4. attempts'[n] = "FAILED" \/ <<n, "BOUNCED">> \in events'
  BY <1>2, <1>3
<1> QED BY <1>3, <1>4 DEF FailureIsRecorded

(* Steps that leave the rows alone. *)
LEMMA ShownStays ==
  ASSUME CauseInv, UNCHANGED <<life, version, attempts, task, events>>, crashes' \in {crashes, crashes + 1}
  PROVE  /\ ShownStatusHasItsCause' /\ (life' = "PREPARED" => attempts' = <<>>)
         /\ FailureIsRecorded' = FailureIsRecorded /\ crashes' \in Nat
BY DEF CauseInv, ShownStatusHasItsCause, FailureIsRecorded, DeliveredHasEvidence

LEMMA ReadCauses ==
  ASSUME IInv, CauseInv, NEW s \in Staff, ReadForConfirm(s) \/ ReadForRetry(s) \/ ReadForEvidence(s)
  PROVE  CauseInv'
<1>1. PICK op \in {"confirm", "retry", "evidence"} :
        /\ Read(s, op)
        /\ op = "retry" => life = "FAILED"
        /\ op = "evidence" => life = "SENT"
  BY DEF ReadForConfirm, ReadForRetry, ReadForEvidence
<1>2. PICK t : t = [op |-> op, step |-> "read", seq |-> Len(attempts) + 1]
  OBVIOUS
<1>3. /\ UNCHANGED <<life, version, attempts, task, events, job, work, crashes>>
      /\ tx' = [tx EXCEPT ![s] = t] /\ tx[s] = NoTx
  BY <1>1, <1>2 DEF Read, rowVars, bounds
<1>4. \A x \in Staff : tx'[x] = IF x = s THEN t ELSE tx[x]
  BY <1>3 DEF IInv, Requests
<1>5. tx[s].step = "idle" /\ t.op = op /\ t.step = "read"
  BY <1>2, <1>3 DEF NoTx
<1>6. /\ ShownStatusHasItsCause' /\ (life' = "PREPARED" => attempts' = <<>>)
      /\ FailureIsRecorded' = FailureIsRecorded /\ crashes' \in Nat
  BY <1>3, ShownStays
<1>7. QuietUntilConfirmed'
  BY <1>1, <1>3, <1>4, <1>5 DEF CauseInv, QuietUntilConfirmed, Unconfirmed
<1>8. RequestsHaveCauses'
  <2>1. op = "retry" => FailureIsRecorded
    BY <1>1 DEF CauseInv, ShownStatusHasItsCause
  <2> QED BY <1>3, <1>4, <1>5, <1>6, <2>1 DEF CauseInv, RequestsHaveCauses, HoldsRow
<1> QED BY <1>6, <1>7, <1>8 DEF CauseInv

(* A confirmation that takes the row found it PREPARED or FAILED. *)
LEMMA UpdateCauses ==
  ASSUME IInv, CauseInv, NEW s \in Staff, UpdateConfirm(s) \/ UpdateRetry(s) PROVE CauseInv'
<1>1. PICK t : t = [tx[s] EXCEPT !.step = "updated"]
  OBVIOUS
<1>2. /\ UNCHANGED <<life, version, attempts, task, events, job, work, crashes>>
      /\ tx[s].step = "read" /\ tx[s].op \in {"confirm", "retry"}
      /\ \/ tx' = [tx EXCEPT ![s] = NoTx]
         \/ tx' = [tx EXCEPT ![s] = t] /\ (tx[s].op = "confirm" => life \in {"PREPARED", "FAILED"})
  BY <1>1 DEF UpdateConfirm, UpdateRetry, Locked, Leave, rowVars, bounds
<1>3. /\ t.step = "updated" /\ t.op = tx[s].op
      /\ NoTx.step = "idle" /\ NoTx.op = "none"
  BY <1>1 DEF NoTx, IInv, Requests, Txs
<1>4. PICK u \in {NoTx, t} : /\ \A x \in Staff : tx'[x] = IF x = s THEN u ELSE tx[x]
                             /\ u = t /\ tx[s].op = "confirm" => life \in {"PREPARED", "FAILED"}
  BY <1>2, <1>3 DEF IInv, Requests
<1>5. /\ ShownStatusHasItsCause' /\ (life' = "PREPARED" => attempts' = <<>>)
      /\ FailureIsRecorded' = FailureIsRecorded /\ crashes' \in Nat
  BY <1>2, ShownStays
<1>6. QuietUntilConfirmed'
  BY <1>2, <1>3, <1>4 DEF CauseInv, QuietUntilConfirmed, Unconfirmed
<1>7. RequestsHaveCauses'
  <2>1. life \in {"PREPARED", "FAILED"} => attempts = <<>> \/ FailureIsRecorded
    BY DEF CauseInv, ShownStatusHasItsCause
  <2> QED BY <1>2, <1>3, <1>4, <1>5, <2>1 DEF CauseInv, RequestsHaveCauses, HoldsRow
<1> QED BY <1>5, <1>6, <1>7 DEF CauseInv

LEMMA RollbackCauses == ASSUME IInv, CauseInv, NEW s \in Staff, Rollback(s) PROVE CauseInv'
<1>1. /\ UNCHANGED <<life, version, attempts, task, events>>
      /\ crashes' = crashes + 1 /\ tx' = [tx EXCEPT ![s] = NoTx]
  BY DEF Rollback, Crash, Leave, rowVars
<1>2. NoTx.step = "idle" /\ NoTx.op = "none"
  BY DEF NoTx
<1>3. \A x \in Staff : tx'[x] = IF x = s THEN NoTx ELSE tx[x]
  BY <1>1 DEF IInv, Requests
<1>4. /\ ShownStatusHasItsCause' /\ (life' = "PREPARED" => attempts' = <<>>)
      /\ FailureIsRecorded' = FailureIsRecorded /\ crashes' \in Nat
  BY <1>1, ShownStays
<1>5. QuietUntilConfirmed'
  BY <1>1 DEF CauseInv, QuietUntilConfirmed, Unconfirmed
<1>6. RequestsHaveCauses'
  BY <1>1, <1>2, <1>3, <1>4 DEF CauseInv, RequestsHaveCauses, HoldsRow
<1> QED BY <1>4, <1>5, <1>6 DEF CauseInv

(* Only a request that is about to commit has queued a message. *)
LEMMA EnqueueCauses == ASSUME IInv, CauseInv, NEW s \in Staff, EnqueueSend(s) PROVE CauseInv'
<1>1. PICK t : t = [tx[s] EXCEPT !.step = "queued"]
  OBVIOUS
<1>2. /\ UNCHANGED <<life, version, attempts, task, events, work, crashes>>
      /\ tx[s].step = "updated"
      /\ \/ tx' = [tx EXCEPT ![s] = t]
         \/ tx' = [tx EXCEPT ![s] = NoTx] /\ job' = job
  BY <1>1 DEF EnqueueSend, Leave, rowVars, bounds
<1>3. /\ t.step = "queued" /\ t.op = tx[s].op
      /\ NoTx.step = "idle" /\ NoTx.op = "none"
  BY <1>1 DEF NoTx, IInv, Requests, Txs
<1>4. PICK u \in {NoTx, t} : /\ \A x \in Staff : tx'[x] = IF x = s THEN u ELSE tx[x]
                             /\ u # t => job' = job
  BY <1>2, <1>3 DEF IInv, Requests
<1>5. /\ ShownStatusHasItsCause' /\ (life' = "PREPARED" => attempts' = <<>>)
      /\ FailureIsRecorded' = FailureIsRecorded /\ crashes' \in Nat
  BY <1>2, ShownStays
<1>6. QuietUntilConfirmed'
  BY <1>2, <1>3, <1>4 DEF CauseInv, QuietUntilConfirmed, Unconfirmed
<1>7. RequestsHaveCauses'
  BY <1>2, <1>3, <1>4, <1>5 DEF CauseInv, RequestsHaveCauses, HoldsRow
<1> QED BY <1>5, <1>6, <1>7 DEF CauseInv

(* What is queued again was not sent, or something failed. *)
LEMMA CommitRequestCauses ==
  ASSUME IInv, IInv', CauseInv, NEW s \in Staff, CommitRequest(s) PROVE CauseInv'
<1>1. /\ life' = "CONFIRMED" /\ version' = version + 1 /\ tx[s].step = "queued"
      /\ tx' = [tx EXCEPT ![s] = NoTx]
      /\ UNCHANGED <<attempts, task, events, crashes>>
  BY DEF CommitRequest, Leave, bounds
<1>2. NoTx.step = "idle" /\ NoTx.op = "none" /\ version \in Nat \ {0}
  BY DEF NoTx, IInv, Rows
<1>3. \A x \in Staff : tx'[x] = IF x = s THEN NoTx ELSE tx[x]
  BY <1>1 DEF IInv, Requests
<1>4. FailureIsRecorded' = FailureIsRecorded
  BY <1>1 DEF FailureIsRecorded
<1>5. attempts = <<>> \/ FailureIsRecorded
  BY <1>1 DEF CauseInv, RequestsHaveCauses, HoldsRow
<1>6. ShownStatusHasItsCause'
  BY <1>1, <1>2, <1>4, <1>5 DEF CauseInv, ShownStatusHasItsCause, DeliveredHasEvidence
<1>7. QuietUntilConfirmed'
  BY <1>1, <1>2 DEF QuietUntilConfirmed, Unconfirmed
<1>8. RequestsHaveCauses'
  BY <1>1, <1>2, <1>3, <1>4 DEF CauseInv, RequestsHaveCauses, HoldsRow
<1> QED BY <1>1, <1>6, <1>7, <1>8 DEF CauseInv

(* An attempt is recorded while nobody holds the row. *)
LEMMA RecordingCauses ==
  ASSUME IInv, IInv', CauseInv, RowFree, NEW r \in Results,
         attempts' = Append(attempts, r), life' = r, r = "FAILED" => task', task => task',
         UNCHANGED <<version, events, crashes>>, ~Unconfirmed,
         \A x \in Staff : tx'[x] \in {tx[x], NoTx}
  PROVE  CauseInv'
<1>1. /\ Len(attempts) \in Nat /\ Len(attempts') = Len(attempts) + 1 /\ attempts'[Len(attempts) + 1] = r
      /\ \A n \in 1..Len(attempts) : attempts'[n] = attempts[n]
      /\ events \subseteq (1..Len(attempts)) \X EventTypes
      /\ version \in Nat \ {0} /\ life' # "PREPARED"
  BY DEF IInv, Rows, Results
<1>2. FailureIsRecorded => FailureIsRecorded'
  BY FailuresStay
<1>3. r = "FAILED" => FailureIsRecorded'
  BY <1>1 DEF FailureIsRecorded
<1>4. FailureIsRecorded' => FailureIsRecorded \/ r = "FAILED"
  <2> SUFFICES ASSUME FailureIsRecorded', r # "FAILED" PROVE FailureIsRecorded
    OBVIOUS
  <2>1. PICK n \in 1..Len(attempts') : attempts'[n] = "FAILED" \/ <<n, "BOUNCED">> \in events'
    BY DEF FailureIsRecorded
  <2>2. n # Len(attempts) + 1
    <3> SUFFICES ASSUME n = Len(attempts) + 1 PROVE FALSE
      OBVIOUS
    <3>1. attempts'[n] # "FAILED" BY <1>1
    <3>2. <<n, "BOUNCED">> \in (1..Len(attempts)) \X EventTypes BY <1>1, <2>1, <3>1
    <3>3. n \in 1..Len(attempts) BY ONLY <3>2
    <3> QED BY <1>1, <3>3
  <2>3. n \in 1..Len(attempts) BY <1>1, <2>1, <2>2
  <2> QED BY <1>1, <2>1, <2>3 DEF FailureIsRecorded
<1>5. ShownStatusHasItsCause'
  <2>1. DeliveredHasEvidence'
    BY DEF IInv
  <2>2. version' = 1 => crashes' > 0
    BY DEF Unconfirmed, CauseInv
  <2>3. life' # "CONFIRMED"
    BY DEF Results
  <2> QED BY <1>1, <1>3, <1>4, <2>1, <2>2, <2>3 DEF CauseInv, ShownStatusHasItsCause
<1>6. QuietUntilConfirmed'
  BY DEF QuietUntilConfirmed, Unconfirmed
<1>7. RequestsHaveCauses'
  <2>1. NoTx.step = "idle" /\ NoTx.op = "none"
    BY DEF NoTx
  <2> QED BY <1>2, <2>1 DEF CauseInv, RequestsHaveCauses, HoldsRow, RowFree
<1> QED BY <1>1, <1>5, <1>6, <1>7 DEF CauseInv

LEMMA EvidenceCauses == ASSUME IInv, IInv', CauseInv, NEW s \in Staff, RecordEvidence(s) PROVE CauseInv'
<1>1. /\ tx' = [tx EXCEPT ![s] = NoTx] /\ tx[s].op = "evidence" /\ RowFree
      /\ UNCHANGED <<version, task, events, job, work, crashes>>
  BY DEF RecordEvidence, Leave, bounds
<1>2. ~Unconfirmed
  BY <1>1 DEF CauseInv, QuietUntilConfirmed
<1>3. \A x \in Staff : tx'[x] = IF x = s THEN NoTx ELSE tx[x]
  BY <1>1 DEF IInv, Requests
<1>4. CASE UNCHANGED <<attempts, life>>
  <2>1. /\ ShownStatusHasItsCause' /\ (life' = "PREPARED" => attempts' = <<>>)
        /\ FailureIsRecorded' = FailureIsRecorded /\ crashes' \in Nat
    BY <1>1, <1>4, ShownStays
  <2>2. QuietUntilConfirmed'
    BY <1>1, <1>2 DEF QuietUntilConfirmed, Unconfirmed
  <2>3. RequestsHaveCauses'
    BY <1>3, <1>4, <2>1 DEF CauseInv, RequestsHaveCauses, HoldsRow, NoTx
  <2> QED BY <2>1, <2>2, <2>3 DEF CauseInv
<1>5. CASE attempts' = Append(attempts, "DELIVERED") /\ life' = "DELIVERED"
  BY <1>1, <1>2, <1>3, <1>5, RecordingCauses DEF Results
<1> QED BY <1>4, <1>5 DEF RecordEvidence

(* A worker has nothing to deliver before a request has queued a message,  *)
(* and while that request has not committed it cannot write the row.       *)
LEMMA WorkersFollow ==
  ASSUME IInv, CauseInv, Unconfirmed, NEW w \in Workers, Deliver(w) \/ AnswerLost(w) \/ SendFails(w) \/ WorkerCrashes(w)
  PROVE  ~RowFree /\ ~(\A s \in Staff : tx[s].step # "queued")
<1>1. ASSUME \A k \in Keys : job[k] = NoJob, work[w] = NoWork PROVE FALSE
  BY <1>1 DEF Deliver, Claim, ReadCommunication, ProviderAccepts, ProviderRefuses, CommitResult, MarkSent,
              RequeueOrFail, AnswerLost, SendFails, WorkerCrashes, Busy, NoJob, NoWork
<1> QED BY <1>1 DEF CauseInv, QuietUntilConfirmed, RowFree

LEMMA WorkerCauses ==
  ASSUME IInv, IInv', CauseInv, NEW w \in Workers, Deliver(w) \/ AnswerLost(w) \/ SendFails(w) \/ WorkerCrashes(w)
  PROVE  CauseInv'
<1>1. UNCHANGED <<version, events, tx>> /\ crashes' \in {crashes, crashes + 1}
  BY DEF Deliver, Claim, ReadCommunication, ProviderAccepts, ProviderRefuses, CommitResult, MarkSent,
         RequeueOrFail, AnswerLost, SendFails, WorkerCrashes, Fault, Crash, rowVars, bounds
<1>2. Unconfirmed' => Unconfirmed
  BY <1>1 DEF Unconfirmed, CauseInv
<1>3. CASE UNCHANGED <<life, attempts, task>>
  <2>1. /\ ShownStatusHasItsCause' /\ (life' = "PREPARED" => attempts' = <<>>)
        /\ FailureIsRecorded' = FailureIsRecorded /\ crashes' \in Nat
    BY <1>1, <1>3, ShownStays
  <2>2. QuietUntilConfirmed'
    BY <1>1, <1>2, <1>3, WorkersFollow DEF CauseInv, QuietUntilConfirmed
  <2>3. RequestsHaveCauses'
    BY <1>1, <1>3, <2>1 DEF CauseInv, RequestsHaveCauses, HoldsRow
  <2> QED BY <2>1, <2>2, <2>3 DEF CauseInv
<1>4. CASE ~UNCHANGED <<life, attempts, task>>
  <2>1. CommitResult(w) /\ SequenceFree(work[w].seq)
    BY <1>4 DEF Deliver, Claim, ReadCommunication, ProviderAccepts, ProviderRefuses, CommitResult, MarkSent,
                RequeueOrFail, AnswerLost, SendFails, WorkerCrashes, rowVars
  <2>2. PICK r \in {"SENT", "FAILED"} : r = work[w].result
    BY <2>1 DEF CommitResult, Busy, IInv, CallsFollowAttempts
  <2>3. /\ attempts' = Append(attempts, r) /\ life' = r /\ RowFree /\ crashes' = crashes
        /\ (r = "FAILED" => task') /\ (task => task')
    BY <2>1, <2>2 DEF CommitResult, RecordFailure, bounds
  <2>4. ~Unconfirmed
    BY <2>3, WorkersFollow
  <2> QED BY <1>1, <2>3, <2>4, RecordingCauses DEF Results
<1> QED BY <1>3, <1>4

(* An event is about a recorded attempt, and nothing is recorded yet. *)
LEMMA HookCauses ==
  ASSUME IInv, IInv', CauseInv, NEW h \in Hooks,
         CommitEvent(h) \/ \E n \in accepted, type \in EventTypes : ReadEvent(h, n, type)
  PROVE  CauseInv'
<1>1. UNCHANGED <<version, attempts, job, tx, work, crashes>>
  BY DEF CommitEvent, ReadEvent, rowVars, bounds
<1>2. CASE UNCHANGED <<life, task, events>>
  <2>1. /\ ShownStatusHasItsCause' /\ (life' = "PREPARED" => attempts' = <<>>)
        /\ FailureIsRecorded' = FailureIsRecorded /\ crashes' \in Nat
    BY <1>1, <1>2, ShownStays
  <2> QED BY <1>1, <1>2, <2>1 DEF CauseInv, QuietUntilConfirmed, Unconfirmed, RequestsHaveCauses, HoldsRow
<1>3. CASE ~UNCHANGED <<life, task, events>>
  <2>1. CommitEvent(h) /\ hook[h].event \in (1..Len(attempts)) \X EventTypes
    BY <1>3 DEF CommitEvent, ReadEvent, rowVars, IInv, HooksNameAttempts
  <2>2. PICK n \in 1..Len(attempts), type \in EventTypes : hook[h].event = <<n, type>>
    BY <2>1
  <2>3. /\ events' = events \cup {<<n, type>>}
        /\ \/ type = "DELIVERED" /\ life' \in {life, "DELIVERED"} /\ task' = task
           \/ type = "BOUNCED" /\ life' \in {life, "FAILED"} /\ task'
    BY <1>3, <2>1, <2>2 DEF CommitEvent, rowVars, EventTypes
  <2>4. attempts # <<>>
    BY <2>2
  <2>5. /\ FailureIsRecorded => FailureIsRecorded'
        /\ type = "BOUNCED" => FailureIsRecorded'
        /\ type = "DELIVERED" => FailureIsRecorded' = FailureIsRecorded
    BY <1>1, <2>2, <2>3 DEF FailureIsRecorded
  <2>6. ShownStatusHasItsCause'
    <3>1. DeliveredHasEvidence'
      BY DEF IInv
    <3>2. life # "PREPARED" /\ life' # "PREPARED"
      BY <2>3, <2>4 DEF CauseInv
    <3> QED BY <1>1, <2>3, <2>5, <3>1, <3>2 DEF CauseInv, ShownStatusHasItsCause
  <2>7. QuietUntilConfirmed'
    <3>1. ~Unconfirmed
      BY <2>4 DEF CauseInv, QuietUntilConfirmed
    <3> QED BY <1>1, <3>1 DEF QuietUntilConfirmed, Unconfirmed
  <2>8. RequestsHaveCauses'
    BY <1>1, <2>5 DEF CauseInv, RequestsHaveCauses, HoldsRow
  <2>9. life' # "PREPARED" /\ crashes' \in Nat
    BY <1>1, <2>3, <2>4 DEF CauseInv
  <2> QED BY <2>6, <2>7, <2>8, <2>9 DEF CauseInv
<1> QED BY <1>2, <1>3

LEMMA CauseStep == IInv /\ IInv' /\ CauseInv /\ [Next]_vars => CauseInv'
<1> SUFFICES ASSUME IInv, IInv', CauseInv, [Next]_vars PROVE CauseInv'
  OBVIOUS
<1>1. CASE StaffNext
  BY <1>1, ReadCauses, UpdateCauses, RollbackCauses, EnqueueCauses, CommitRequestCauses, EvidenceCauses DEF StaffNext
<1>2. CASE WorkerNext
  BY <1>2, WorkerCauses DEF WorkerNext
<1>3. CASE HookNext
  BY <1>3, HookCauses DEF HookNext
<1>4. CASE UNCHANGED vars
  <2>1. UNCHANGED <<life, version, attempts, task, events, job, tx, work, crashes>>
    BY <1>4 DEF vars, rowVars, bounds
  <2>2. /\ ShownStatusHasItsCause' /\ (life' = "PREPARED" => attempts' = <<>>)
        /\ FailureIsRecorded' = FailureIsRecorded /\ crashes' \in Nat
    BY <2>1, ShownStays
  <2> QED BY <2>1, <2>2 DEF CauseInv, QuietUntilConfirmed, Unconfirmed, RequestsHaveCauses, HoldsRow
<1> QED BY <1>1, <1>2, <1>3, <1>4 DEF Next

(* For every number of requests, workers, webhooks, faults and rollbacks:  *)
(* what the staff sees of a communication has its cause on record; in       *)
(* particular only a rollback or a crash lets the worker send what nobody  *)
(* confirmed, and only after a failure is a sent message queued again.     *)
THEOREM StatusesHaveCauses == Spec => []ShownStatusHasItsCause
<1>1. CauseInv => ShownStatusHasItsCause
  BY DEF CauseInv
<1> QED BY <1>1, Inductive, CauseInit, CauseStep, PTL DEF Spec

-----------------------------------------------------------------------------
(* Dates and hours *)

LEMMA DayAndHour ==
  ASSUME NEW x \in Int
  PROVE  x \div 24 \in Int /\ x % 24 \in 0..23 /\ x = 24 * (x \div 24) + (x % 24)
  OBVIOUS

LEMMA DayAndHourOf ==
  ASSUME NEW d \in Int, NEW h \in 0..23
  PROVE  (d * 24 + h) \div 24 = d /\ (d * 24 + h) % 24 = h
  OBVIOUS

LEMMA LocalTimeType ==
  ASSUME NEW z \in Zones, NEW i \in Int
  PROVE  /\ LocalTime(z, i) \in Int
         /\ LocalTime(z, i) >= i - 12 /\ LocalTime(z, i) <= i + 14
  BY ZonesAssumption DEF LocalTime

(* What is earlier in a zone is earlier as an instant. *)
LEMMA LocalTimeIsMonotonic ==
  ASSUME NEW z \in Zones, NEW i \in Int, NEW j \in Int, LocalTime(z, i) < LocalTime(z, j)
  PROVE  i < j
  BY ZonesAssumption DEF LocalTime

LEMMA LocalDateGrows ==
  ASSUME NEW z \in Zones, NEW i \in Int
  PROVE  /\ LocalDate(z, i) \in Int
         /\ \A j \in Int : i <= j => LocalDate(z, i) <= LocalDate(z, j)
<1>1. PICK l \in Int : l = LocalTime(z, i)
  BY LocalTimeType
<1>2. ASSUME NEW j \in Int, i <= j PROVE LocalDate(z, i) <= LocalDate(z, j)
  <2>1. PICK m \in Int : m = LocalTime(z, j)
    BY LocalTimeType
  <2>2. l <= m
    BY <1>1, <1>2, <2>1, ZonesAssumption DEF LocalTime
  <2>3. l \div 24 <= m \div 24
    BY <2>2
  <2> QED BY <1>1, <2>1, <2>3 DEF LocalDate
<1> QED BY <1>1, <1>2, DayAndHour DEF LocalDate

LEMMA PartsOf ==
  ASSUME NEW z, NEW i
  PROVE  GetZonedParts(z, i).date = LocalTime(z, i) \div 24
  BY DEF GetZonedParts

(* A change at a weekend is before the whole working date, or after it. *)
LEMMA WeekendIsElsewhere ==
  ASSUME NEW date \in Int, date % 7 < 5, NEW x \in Int, NEW y \in Int, y - x \in -1..1,
         OnWeekend(x), OnWeekend(y)
  PROVE  \/ x < 24 * date /\ y < 24 * date
         \/ x >= 24 * date + 24 /\ y >= 24 * date + 24
  BY DEF OnWeekend

LEMMA UpToFour == \A n \in 0..4 : n = 0 \/ n = 1 \/ n = 2 \/ n = 3 \/ n = 4
  OBVIOUS

-----------------------------------------------------------------------------
(* A correction takes the offset the guess reads from the target, and a    *)
(* date too many where midnight is read as hour 24.                        *)
Offset(z, g) == IF g < z.turns THEN z.before ELSE z.after
Wrap(local) == IF local % 24 = 0 /\ runtime THEN 24 ELSE 0
Correct(z, target, g) == target - Offset(z, g) - Wrap(g + Offset(z, g))

LEMMA Correction ==
  ASSUME NEW z \in Zones, NEW target \in Int, NEW g \in Int
  PROVE  /\ g - (GetZonedParts(z, g).date * 24 + GetZonedParts(z, g).hour - target) = Correct(z, target, g)
         /\ Correct(z, target, g) \in Int
<1>1. z.before \in Int /\ z.after \in Int
  BY ZonesAssumption
<1>2. PICK o : o = Offset(z, g)
  OBVIOUS
<1>3. o \in Int /\ LocalTime(z, g) = g + o
  BY <1>1, <1>2 DEF Offset, LocalTime
<1>4. PICK l \in Int : l = g + o
  BY <1>3
<1>5. l = 24 * (l \div 24) + (l % 24) /\ l \div 24 \in Int /\ l % 24 \in 0..23
  BY DayAndHour
<1>6. GetZonedParts(z, g) = [date |-> l \div 24, hour |-> IF l % 24 = 0 /\ runtime THEN 24 ELSE l % 24]
  BY <1>3, <1>4 DEF GetZonedParts
<1>7. PICK w : w = Wrap(l)
  OBVIOUS
<1>8. w \in Int
  BY <1>7 DEF Wrap
<1>9. GetZonedParts(z, g).date = l \div 24 /\ GetZonedParts(z, g).hour = (l % 24) + w
  BY <1>5, <1>6, <1>7 DEF Wrap
<1>10. Correct(z, target, g) = target - o - w
  BY <1>2, <1>4, <1>7 DEF Correct
<1> QED BY <1>3, <1>4, <1>5, <1>8, <1>9, <1>10

(* The recursive guess, unfolded. *)
LEMMA GuessIsFourCorrections ==
  ASSUME NEW z \in Zones, NEW target \in Int
  PROVE  Guess(z, target) =
           Correct(z, target, Correct(z, target, Correct(z, target, Correct(z, target, target))))
<1> DEFINE next(g) == g - (GetZonedParts(z, g).date * 24 + GetZonedParts(z, g).hour - target)
           F(f) == [n \in 0..4 |-> IF n = 0 THEN target ELSE next(f[n - 1])]
<1> DEFINE g1 == next(target)
           g2 == next(g1)
           g3 == next(g2)
           g4 == next(g3)
<1>1. Guess(z, target) = (CHOOSE f : f = F(f))[4]
  BY DEF Guess, Rounds
<1>0. g1 = next(target) /\ g2 = next(g1) /\ g3 = next(g2) /\ g4 = next(g3)
  OBVIOUS
<1>12. /\ g1 = Correct(z, target, target)
       /\ g2 = Correct(z, target, g1)
       /\ g3 = Correct(z, target, g2)
       /\ g4 = Correct(z, target, g3)
  <2>1. \A g \in Int : next(g) = Correct(z, target, g) /\ next(g) \in Int
    BY Correction
  <2> HIDE DEF next
  <2>2. g1 \in Int /\ g2 \in Int /\ g3 \in Int
    BY <2>1
  <2> QED BY <2>1, <2>2
<1> HIDE DEF next, g1, g2, g3, g4
<1>2. \E f : f = F(f)
  <2>1. PICK g : g = [n \in 0..4 |-> IF n = 0 THEN target ELSE IF n = 1 THEN g1 ELSE IF n = 2 THEN g2
                                     ELSE IF n = 3 THEN g3 ELSE g4]
    OBVIOUS
  <2>2. g[0] = target /\ g[1] = g1 /\ g[2] = g2 /\ g[3] = g3 /\ g[4] = g4
    BY ONLY <2>1
  <2>3. ASSUME NEW n \in 0..4 PROVE g[n] = IF n = 0 THEN target ELSE next(g[n - 1])
    <3>1. n = 0 \/ n = 1 \/ n = 2 \/ n = 3 \/ n = 4
      BY ONLY UpToFour, n \in 0..4
    <3>2. 1 - 1 = 0 /\ 2 - 1 = 1 /\ 3 - 1 = 2 /\ 4 - 1 = 3 
      BY ONLY TRUE
    <3> QED BY ONLY <1>0, <2>2, <3>1, <3>2
  <2>4. g = F(g)
    BY ONLY <2>1, <2>3
  <2> QED BY ONLY <2>4
<1>3. PICK f : f = (CHOOSE h : h = F(h))
  OBVIOUS
<1>4. f = F(f)
  BY ONLY <1>2, <1>3
<1>5. \A n \in 0..4 : f[n] = IF n = 0 THEN target ELSE next(f[n - 1])
  BY ONLY <1>4
<1>6. 0 \in 0..4 /\ 1 \in 0..4 /\ 2 \in 0..4 /\ 3 \in 0..4 /\ 4 \in 0..4
  BY ONLY TRUE
<1>7. f[0] = target
  BY ONLY <1>5, <1>6
<1>8. f[1] = g1
  <2>1. f[1] = next(f[1 - 1])
    BY ONLY <1>5, <1>6
  <2> QED BY ONLY <1>0, <1>7, <2>1
<1>9. f[2] = g2
  <2>1. f[2] = next(f[2 - 1])
    BY ONLY <1>5, <1>6
  <2> QED BY ONLY <1>0, <1>8, <2>1
<1>10. f[3] = g3
  <2>1. f[3] = next(f[3 - 1])
    BY ONLY <1>5, <1>6
  <2> QED BY ONLY <1>0, <1>9, <2>1
<1>11. f[4] = g4
  <2>1. f[4] = next(f[4 - 1])
    BY ONLY <1>5, <1>6
  <2> QED BY ONLY <1>0, <1>10, <2>1
<1> QED BY ONLY <1>1, <1>3, <1>11, <1>12

(* Whatever the runtime, four corrections are enough: the last guess is the *)
(* target less the offset that is in force at the guess.                    *)
Corrections(b, a, t, target, g1, g2, g3, g4) ==
  LET offset(g) == IF g < t THEN b ELSE a
      correct(g) == target - offset(g) - Wrap(g + offset(g))
  IN g1 = correct(target) /\ g2 = correct(g1) /\ g3 = correct(g2) /\ g4 = correct(g3)

(* The clock does not change, changes off the date, or far to the east. *)
NoHarm(b, a, t, target, date) ==
  \/ a = b
  \/ t + b < 24 * date /\ t + a < 24 * date
  \/ t + b >= 24 * date + 24 /\ t + a >= 24 * date + 24
  \/ a >= 2 /\ b >= 2 /\ (a > b => target # t + b)

LEMMA CorrectionsEnd ==
  ASSUME NEW b \in -12..14, NEW a \in -12..14, a - b \in -1..1, NEW t \in Int, NEW target \in Int,
         target % 24 = 10 \/ target % 24 = 23,
         NEW g1 \in Int, NEW g2 \in Int, NEW g3 \in Int, NEW g4 \in Int,
         Corrections(b, a, t, target, g1, g2, g3, g4),
         NEW date \in Int, 24 * date <= target, target < 24 * date + 24,
         NoHarm(b, a, t, target, date)
  PROVE  /\ g4 = target - (IF g4 < t THEN b ELSE a)
         /\ target % 24 = 23 => g4 + 1 + (IF g4 + 1 < t THEN b ELSE a) \in target + 1 .. target + 2
<1>0. PICK o0 \in {a, b}, o1 \in {a, b}, o2 \in {a, b}, o3 \in {a, b} :
        /\ o0 = (IF target < t THEN b ELSE a) /\ o1 = (IF g1 < t THEN b ELSE a)
        /\ o2 = (IF g2 < t THEN b ELSE a) /\ o3 = (IF g3 < t THEN b ELSE a)
  OBVIOUS
<1>00. /\ g1 = target - o0 - Wrap(target + o0)
       /\ g2 = target - o1 - Wrap(g1 + o1)
       /\ g3 = target - o2 - Wrap(g2 + o2)
       /\ g4 = target - o3 - Wrap(g3 + o3)
  BY <1>0 DEF Corrections
<1> USE <1>0, <1>00 DEF NoHarm
<1>1. ASSUME target % 24 = 10 PROVE g2 = target - o1 /\ g3 = target - o2 /\ g4 = target - o3
  BY <1>1 DEF Wrap
<1>2. ASSUME target % 24 = 23, a = b
      PROVE g2 = target - o1 /\ g3 = target - o2 /\ g4 = target - o3
  BY <1>2 DEF Wrap
<1>3. ASSUME target % 24 = 23,  t + b < 24 * date /\ t + a < 24 * date
      PROVE g4 = target - a /\ g4 >= t
  BY <1>3 DEF Wrap
<1>4. ASSUME target % 24 = 23,  t + b >= 24 * date + 24 /\ t + a >= 24 * date + 24
      PROVE g4 = target - b /\ g4 < t
  <2>1. target = 24 * date + 23
    BY <1>4
  <2>2. g1 <= target - o0 /\ target - a < t /\ target - b < t
    BY <1>4, <2>1 DEF Wrap
  <2>3. g1 < t
    BY <2>2
  <2>4. g2 = target - b \/ g2 = target - b - 24
    BY <2>3 DEF Wrap
  <2>5. g2 < t
    BY <2>2, <2>4
  <2>6. g3 = target - b
    BY <1>4, <2>4, <2>5 DEF Wrap
  <2>7. g4 = target - b
    BY <1>4, <2>2, <2>6 DEF Wrap
  <2> QED BY <1>4, <2>1, <2>7
<1>5. ASSUME target % 24 = 23,  a >= 2 /\ b >= 2
      PROVE g1 = target - o0 /\ g3 = target - o2 /\ g4 = target - o3 /\ (g2 = target - o1 \/ (o1 = b /\ g4 = target - b))
  <2>1. g1 = target - o0
    BY <1>5 DEF Wrap
  <2>2. \/ g2 = target - o1
        \/ g2 = target - o1 - 24 /\ o0 = a /\ o1 = b /\ b = a + 1
    BY <1>5, <2>1 DEF Wrap
  <2>3. CASE g2 = target - o1
    <3>1. o2 # o1 + 1
      BY <1>5, <2>1, <2>3
    <3>2. g3 = target - o2
      BY <1>5, <2>3, <3>1 DEF Wrap
    <3>3. o3 # o2 + 1
      BY <1>5, <2>1, <2>3, <3>2
    <3>4. g4 = target - o3
      BY <1>5, <3>2, <3>3 DEF Wrap
    <3> QED BY <2>1, <2>3, <3>2, <3>4
  <2>4. CASE g2 = target - o1 - 24 /\ o0 = a /\ o1 = b /\ b = a + 1
    <3>1. g1 < t /\ o2 = b
      BY <1>5, <2>1, <2>4
    <3>2. g3 = target - b
      BY <1>5, <2>4, <3>1 DEF Wrap
    <3>3. g3 < t /\ o3 = b
      BY <2>1, <2>4, <3>1, <3>2
    <3>4. g4 = target - b
      BY <1>5, <3>2, <3>3 DEF Wrap
    <3> QED BY <2>1, <2>4, <3>1, <3>2, <3>3, <3>4
  <2> QED BY <2>2, <2>3, <2>4
<1>6. CASE target % 24 = 10
  BY <1>1, <1>6
<1>7. CASE target % 24 = 23
  <2>1. CASE a = b
    BY <1>2, <1>7, <2>1
  <2>2. CASE t + b < 24 * date /\ t + a < 24 * date
    BY <1>3, <1>7, <2>2
  <2>3. CASE t + b >= 24 * date + 24 /\ t + a >= 24 * date + 24
    BY <1>4, <1>7, <2>3
  <2>4. CASE a >= 2 /\ b >= 2 /\ (a > b => target # t + b)
    <3>1. g1 = target - o0 /\ g3 = target - o2 /\ g4 = target - o3 /\ (g2 = target - o1 \/ (o1 = b /\ g4 = target - b))
      BY <1>5, <1>7, <2>4
    <3>2. g4 = target - (IF g4 < t THEN b ELSE a)
      BY <2>4, <3>1
    <3>0. target \in Int /\ t \in Int /\ g4 \in Int /\ a \in Int /\ b \in Int /\ a - b \in -1..1
      OBVIOUS
    <3>3. g4 + 1 + (IF g4 + 1 < t THEN b ELSE a) \in target + 1 .. target + 2
      <4>1. CASE a >= b
        BY ONLY <3>0, <3>2, <4>1
      <4>2. CASE a < b
        <5>1. b = a + 1
          BY ONLY <3>0, <4>2
        <5>2. CASE target - a < t
          BY ONLY <3>0, <3>2, <5>1, <5>2
        <5>3. CASE target - a >= t
          <6>1. o0 = a /\ g1 = target - a /\ o1 = a
            BY <2>4, <3>1, <5>3
          <6>2. o2 = a /\ o3 = a
            BY <3>1, <5>1, <5>3, <6>1
          <6>3. g4 = target - a
            BY <3>1, <6>2
          <6> QED BY ONLY <3>0, <5>3, <6>3
        <5> QED BY ONLY <3>0, <5>2, <5>3
      <4> QED BY ONLY <3>0, <4>1, <4>2
    <3> QED BY <3>2, <3>3
  <2> QED BY <2>1, <2>2, <2>3, <2>4
<1> QED BY <1>6, <1>7

(* civilDateTimeToInstant: ten o'clock and the last hour of every working  *)
(* date are resolved, in every zone and however the runtime writes         *)
(* midnight: the instant is of that hour, and after the last hour the date *)
(* has passed.                                                             *)
THEOREM WorkingTimesResolve ==
  ASSUME NEW z \in Zones, NEW date \in Int, date % 7 < 5, NEW hour \in {10, 23}
  PROVE  \E g \in Int :
           /\ CivilDateTimeToInstant(z, date, hour) = g
           /\ LocalTime(z, g) = date * 24 + hour
           /\ hour = 23 => LocalTime(z, g + 1) \div 24 = date + 1
<1>1. PICK target \in Int : target = date * 24 + hour
  OBVIOUS
<1>2. PICK b \in -12..14, a \in -12..14, t \in Int : b = z.before /\ a = z.after /\ t = z.turns
  BY ZonesAssumption
<1>3. a - b \in -1..1
  BY <1>2, ZonesAssumption
<1>4. target % 24 = hour /\ 24 * date <= target /\ target < 24 * date + 24
  BY <1>1
<1>5. \/ a = b
      \/ t + b < 24 * date /\ t + a < 24 * date
      \/ t + b >= 24 * date + 24 /\ t + a >= 24 * date + 24
      \/ a >= 2 /\ b >= 2 /\ (a > b => target # t + b)
  <2>1. CASE a = b
    BY <2>1
  <2>2. CASE OnWeekend(t + b) /\ OnWeekend(t + a)
    <3>1. PICK x \in Int, y \in Int : x = t + b /\ y = t + a
      OBVIOUS
    <3>2. y - x \in -1..1
      BY <1>3, <3>1
    <3> QED BY <2>2, <3>1, <3>2, WeekendIsElsewhere
  <2>3. CASE a >= 2 /\ b >= 2 /\ (a > b => (t + b) % 24 \notin {10, 23})
    BY <1>4, <2>3
  <2> QED BY <1>2, <2>1, <2>2, <2>3, ZonesAssumption
<1>6. \A g \in Int : /\ Offset(z, g) = IF g < t THEN b ELSE a
                     /\ Offset(z, g) \in {a, b}
                     /\ Offset(z, g) \in Int
                     /\ LocalTime(z, g) = g + Offset(z, g)
  BY <1>2 DEF Offset, LocalTime
<1>7. PICK g1 : g1 = Correct(z, target, target)
  OBVIOUS
<1>8. g1 \in Int
  BY <1>7, Correction
<1>9. PICK g2 : g2 = Correct(z, target, g1)
  OBVIOUS
<1>10. g2 \in Int
  BY <1>8, <1>9, Correction
<1>11. PICK g3 : g3 = Correct(z, target, g2)
  OBVIOUS
<1>12. g3 \in Int
  BY <1>10, <1>11, Correction
<1>13. PICK g4 : g4 = Correct(z, target, g3)
  OBVIOUS
<1>14. g4 \in Int
  BY <1>12, <1>13, Correction
<1>15. Guess(z, target) = g4
  BY <1>7, <1>9, <1>11, <1>13, GuessIsFourCorrections
<1>16. /\ g4 = target - (IF g4 < t THEN b ELSE a)
       /\ target % 24 = 23 => g4 + 1 + (IF g4 + 1 < t THEN b ELSE a) \in target + 1 .. target + 2
  <2>1. Corrections(b, a, t, target, g1, g2, g3, g4)
    BY <1>2, <1>7, <1>9, <1>11, <1>13 DEF Corrections, Correct, Offset
  <2>2. target % 24 = 10 \/ target % 24 = 23
    BY <1>4
  <2>3. NoHarm(b, a, t, target, date)
    BY <1>5 DEF NoHarm
  <2> QED BY <1>3, <1>4, <1>5, <1>8, <1>10, <1>12, <1>14, <2>1, <2>2, <2>3, CorrectionsEnd
<1>17. LocalTime(z, g4) = target
  BY <1>6, <1>14, <1>16
<1>18. GetZonedParts(z, g4) = [date |-> date, hour |-> hour]
  BY <1>1, <1>17, DayAndHourOf DEF GetZonedParts
<1>19. CivilDateTimeToInstant(z, date, hour) = g4
  BY <1>1, <1>15, <1>18 DEF CivilDateTimeToInstant
<1>20. ASSUME hour = 23 PROVE LocalTime(z, g4 + 1) \div 24 = date + 1
  <2>1. LocalTime(z, g4 + 1) \in target + 1 .. target + 2
    BY <1>4, <1>6, <1>14, <1>16, <1>20
  <2> QED BY <1>1, <1>20, <2>1
<1> QED BY <1>1, <1>14, <1>17, <1>19, <1>20

-----------------------------------------------------------------------------
(* Business dates *)

LEMMA Least == ASSUME NEW T \in SUBSET Nat, T # {} PROVE \E x \in T : \A y \in T : x <= y
<1>1. PICK R : R = {ss \in Nat \X Nat : ss[1] < ss[2]}
  OBVIOUS
<1>2. \A x, y \in Nat : x < y => <<x, y>> \in R
  BY <1>1
<1>3. IsWellFoundedOn({ss \in Nat \X Nat : ss[1] < ss[2]}, Nat)
  BY ONLY NatLessThanWellFounded DEF OpToRel
<1>4. IsWellFoundedOn(R, Nat)
  BY <1>1, <1>3
<1>5. PICK x \in T : \A y \in T : ~(<<y, x>> \in R)
  BY <1>4, WFMin
<1>6. ASSUME NEW y \in T PROVE x <= y
  <2>1. x \in Nat /\ y \in Nat
    OBVIOUS
  <2>2. ~(y < x)
    BY <1>2, <1>5, <2>1
  <2> QED BY <2>1, <2>2
<1> QED BY <1>6

(* Induction, over a set of numbers. *)
LEMMA Induction ==
  ASSUME NEW T \in SUBSET Nat, 0 \in T, \A n \in Nat : n \in T => n + 1 \in T
  PROVE  \A n \in Nat : n \in T
<1> SUFFICES ASSUME ~ \A n \in Nat : n \in T PROVE FALSE
  OBVIOUS
<1>1. PICK S : S = Nat \ T
  OBVIOUS
<1>2. S \in SUBSET Nat /\ S # {}
  BY <1>1
<1>3. PICK x \in S : \A y \in S : x <= y
  BY <1>2, Least
<1>4. x \in Nat /\ x # 0 /\ x \notin T
  BY <1>1
<1>5. x - 1 \in Nat
  BY <1>4
<1>6. x - 1 \in T
  BY <1>1, <1>3, <1>5
<1>7. x - 1 + 1 \in T
  BY <1>5, <1>6
<1> QED BY <1>4, <1>7

LEMMA BusinessDateIs ==
  ASSUME NEW d \in Int, NEW dates
  PROVE  IsBusinessDate(d, dates) <=> d % 7 < 5 /\ d \notin dates
  BY DEF IsBusinessDate, CivilDayOfWeek

(* Of the Mondays of one week more than there are excluded dates, one is free. *)
LEMMA FreeMonday ==
  ASSUME NEW dates, IsFiniteSet(dates), NEW monday \in Int, monday % 7 = 0
  PROVE  \E i \in 0 .. Cardinality(dates) : IsBusinessDate(monday + 7 * i, dates)
<1>1. PICK k : k = Cardinality(dates)
  OBVIOUS
<1>2. k \in Nat
  BY <1>1, FS_CardinalityType
<1>3. SUFFICES ASSUME \A i \in 0 .. k : monday + 7 * i \in dates PROVE FALSE
  <2>1. ASSUME NEW i \in 0 .. k PROVE (monday + 7 * i) % 7 = 0 /\ monday + 7 * i \in Int
    OBVIOUS
  <2>2. \A i \in 0 .. k : monday + 7 * i \notin dates => IsBusinessDate(monday + 7 * i, dates)
    BY <2>1, BusinessDateIs
  <2> QED BY <1>1, <2>2
<1>4. PICK f : f = [i \in 0 .. k |-> monday + 7 * i]
  OBVIOUS
<1>5. f \in Injection(0 .. k, dates)
  <2>1. f \in [0 .. k -> dates]
    BY <1>3, <1>4
  <2>2. ASSUME NEW i \in 0 .. k, NEW j \in 0 .. k, f[i] = f[j] PROVE i = j
    BY <1>4, <2>2
  <2> QED BY <2>1, <2>2 DEF Injection, IsInjective
<1>6. Cardinality(0 .. k) <= Cardinality(dates)
  BY <1>5, FS_Injection
<1>7. Cardinality(0 .. k) = k + 1
  BY <1>2, FS_Interval
<1> QED BY <1>1, <1>2, <1>6, <1>7

(* The next business date exists within Reach, and is the first one. *)
LEMMA NextBusinessDateIs ==
  ASSUME NEW dates, IsFiniteSet(dates), NEW date \in Int
  PROVE  /\ NextBusinessDate(date, dates) \in Int
         /\ NextBusinessDate(date, dates) > date
         /\ IsBusinessDate(NextBusinessDate(date, dates), dates)
         /\ \A d \in (date + 1)..(NextBusinessDate(date, dates) - 1) : ~IsBusinessDate(d, dates)
<1>1. PICK k \in Nat : k = Cardinality(dates)
  BY FS_CardinalityType
<1>2. Reach(dates) = 7 * (k + 1)
  BY <1>1 DEF Reach
<1>3. PICK monday \in (date + 1)..(date + 7) : monday % 7 = 0
  <2>1. date + 7 - (date % 7) \in (date + 1)..(date + 7)
    OBVIOUS
  <2>2. (date + 7 - (date % 7)) % 7 = 0
    OBVIOUS
  <2> QED BY <2>1, <2>2
<1>4. PICK i \in 0 .. k : IsBusinessDate(monday + 7 * i, dates)
  BY <1>1, <1>3, FreeMonday
<1>5. PICK T : T = {n \in Nat : IsBusinessDate(date + 1 + n, dates)}
  OBVIOUS
<1>6. monday + 7 * i - date - 1 \in T /\ monday + 7 * i <= date + 7 * (k + 1)
  <2>1. monday + 7 * i - date - 1 \in Nat
    BY <1>3
  <2>2. date + 1 + (monday + 7 * i - date - 1) = monday + 7 * i
    BY <1>3
  <2>3. 7 * i <= 7 * k
    BY <1>1, <1>4
  <2> QED BY <1>3, <1>4, <1>5, <2>1, <2>2, <2>3
<1>7. PICK n \in T : \A m \in T : n <= m
  <2>1. T \in SUBSET Nat /\ T # {}
    BY <1>5, <1>6
  <2> QED BY <2>1, Least
<1>8. n \in Nat /\ IsBusinessDate(date + 1 + n, dates) /\ n <= monday + 7 * i - date - 1
  BY <1>5, <1>6, <1>7
<1>9. PICK next \in Int : next = date + 1 + n
  BY <1>8
<1>10. next \in (date + 1)..(date + Reach(dates))
  BY <1>1, <1>2, <1>3, <1>6, <1>8, <1>9
<1>11. ASSUME NEW d \in (date + 1)..(next - 1) PROVE ~IsBusinessDate(d, dates)
  <2>1. PICK e \in Nat : e = d - date - 1
    OBVIOUS
  <2>2. date + 1 + e = d /\ ~(n <= e)
    BY <1>8, <1>9, <2>1
  <2>3. e \notin T
    BY <1>7, <2>2
  <2> QED BY <1>5, <2>2, <2>3
<1>12. \E m \in (date + 1)..(date + Reach(dates)) :
         IsBusinessDate(m, dates) /\ \A d \in (date + 1)..(m - 1) : ~IsBusinessDate(d, dates)
  BY <1>8, <1>9, <1>10, <1>11
<1>13. PICK m : m = NextBusinessDate(date, dates)
  OBVIOUS
<1>14. /\ m \in (date + 1)..(date + Reach(dates))
       /\ IsBusinessDate(m, dates) /\ \A d \in (date + 1)..(m - 1) : ~IsBusinessDate(d, dates)
  BY <1>12, <1>13 DEF NextBusinessDate
<1>15. m \in Int /\ m > date
  BY <1>1, <1>2, <1>14
<1> QED BY <1>13, <1>14, <1>15

(* The same looking back. *)
LEMMA PreviousBusinessDateIs ==
  ASSUME NEW dates, IsFiniteSet(dates), NEW date \in Int
  PROVE  /\ PreviousBusinessDate(date, dates) \in Int
         /\ PreviousBusinessDate(date, dates) < date
         /\ IsBusinessDate(PreviousBusinessDate(date, dates), dates)
         /\ \A d \in (PreviousBusinessDate(date, dates) + 1)..(date - 1) : ~IsBusinessDate(d, dates)
<1>1. PICK k \in Nat : k = Cardinality(dates)
  BY FS_CardinalityType
<1>2. Reach(dates) = 7 * (k + 1)
  BY <1>1 DEF Reach
<1>3. PICK monday \in Int : monday % 7 = 0 /\ monday >= date - 7 * (k + 1) /\ monday <= date - 7 * k - 1
  <2>1. PICK late \in Int : late = date - 1 - ((date - 1) % 7)
    OBVIOUS
  <2>2. late % 7 = 0 /\ late >= date - 7 /\ late <= date - 1
    BY <2>1
  <2>3. (late - 7 * k) % 7 = 0 /\ late - 7 * k \in Int
    BY <1>1, <2>2
  <2> QED BY <1>1, <2>2, <2>3
<1>4. PICK i \in 0 .. k : IsBusinessDate(monday + 7 * i, dates)
  BY <1>1, <1>3, FreeMonday
<1>5. PICK T : T = {n \in Nat : IsBusinessDate(date - 1 - n, dates)}
  OBVIOUS
<1>6. PICK f \in Nat : f = date - 1 - (monday + 7 * i)
  <2>1. 7 * i <= 7 * k
    BY <1>1, <1>4
  <2> QED BY <1>3, <2>1
<1>7. date - 1 - f = monday + 7 * i
  BY <1>3, <1>6
<1>8. f \in T
  BY <1>4, <1>5, <1>7
<1>9. PICK n \in T : \A m \in T : n <= m
  <2>1. T \in SUBSET Nat /\ T # {}
    BY <1>5, <1>8
  <2> QED BY <2>1, Least
<1>10. n \in Nat /\ IsBusinessDate(date - 1 - n, dates) /\ n <= f
  BY <1>5, <1>8, <1>9
<1>11. PICK previous \in Int : previous = date - 1 - n
  BY <1>10
<1>12. previous \in (date - Reach(dates))..(date - 1)
  <2>1. 0 <= 7 * i
    BY <1>4
  <2> QED BY <1>1, <1>2, <1>3, <1>6, <1>10, <1>11, <2>1
<1>13. ASSUME NEW d \in (previous + 1)..(date - 1) PROVE ~IsBusinessDate(d, dates)
  <2>1. PICK e \in Nat : e = date - 1 - d
    OBVIOUS
  <2>2. date - 1 - e = d /\ ~(n <= e)
    BY <1>10, <1>11, <2>1
  <2>3. e \notin T
    BY <1>9, <2>2
  <2> QED BY <1>5, <2>2, <2>3
<1>14. \E m \in (date - Reach(dates))..(date - 1) :
         IsBusinessDate(m, dates) /\ \A d \in (m + 1)..(date - 1) : ~IsBusinessDate(d, dates)
  BY <1>10, <1>11, <1>12, <1>13
<1>15. PICK m : m = PreviousBusinessDate(date, dates)
  OBVIOUS
<1>16. /\ m \in (date - Reach(dates))..(date - 1)
       /\ IsBusinessDate(m, dates) /\ \A d \in (m + 1)..(date - 1) : ~IsBusinessDate(d, dates)
  BY <1>14, <1>15 DEF PreviousBusinessDate
<1>17. m \in Int /\ m < date
  BY <1>1, <1>2, <1>16
<1> QED BY <1>15, <1>16, <1>17

-----------------------------------------------------------------------------
(* The dates counted one after the other. *)
Counted(f, start, count, dates) ==
  f = [n \in 0..count |-> IF n = 0 THEN start ELSE NextBusinessDate(f[n - 1], dates)]

LEMMA CountingExists ==
  ASSUME NEW start, NEW dates
  PROVE  \A n \in Nat : \E f : Counted(f, start, n, dates)
<1>1. PICK T : T = {n \in Nat : \E f : Counted(f, start, n, dates)}
  OBVIOUS
<1>2. 0 \in T
  <2>1. PICK f : f = [n \in 0..0 |-> start]
    OBVIOUS
  <2>2. \A n \in 0..0 : n = 0
    OBVIOUS
  <2>3. f = [n \in 0..0 |-> IF n = 0 THEN start ELSE NextBusinessDate(f[n - 1], dates)]
    BY <2>1, <2>2
  <2> QED BY <1>1, <2>3 DEF Counted
<1>3. ASSUME NEW n \in Nat, n \in T PROVE n + 1 \in T
  <2>1. PICK f : Counted(f, start, n, dates)
    BY <1>1, <1>3
  <2>2. \A i \in 0..n : f[i] = IF i = 0 THEN start ELSE NextBusinessDate(f[i - 1], dates)
    BY <2>1 DEF Counted
  <2>3. PICK last : last = NextBusinessDate(f[n], dates)
    OBVIOUS
  <2>4. PICK g : g = [i \in 0..(n + 1) |-> IF i = n + 1 THEN last ELSE f[i]]
    OBVIOUS
  <2>5. \A i \in 0..n : i \in 0..(n + 1) /\ i # n + 1
    OBVIOUS
  <2>6. \A i \in 0..n : g[i] = f[i]
    BY <2>4, <2>5
  <2>7. n + 1 \in 0..(n + 1) /\ g[n + 1] = last
    BY <2>4
  <2>8. ASSUME NEW i \in 0..(n + 1)
        PROVE  g[i] = IF i = 0 THEN start ELSE NextBusinessDate(g[i - 1], dates)
    <3>1. CASE i = n + 1
      <4>1. i # 0 /\ i - 1 = n /\ n \in 0..n
        BY <3>1
      <4> QED BY <2>3, <2>6, <2>7, <3>1, <4>1
    <3>2. CASE i # n + 1
      <4>1. i \in 0..n /\ (i # 0 => i - 1 \in 0..n)
        BY <3>2
      <4> QED BY <2>2, <2>6, <4>1
    <3> QED BY <3>1, <3>2
  <2>9. g = [i \in 0..(n + 1) |-> IF i = 0 THEN start ELSE NextBusinessDate(g[i - 1], dates)]
    BY <2>4, <2>8
  <2>10. Counted(g, start, n + 1, dates)
    BY <2>9 DEF Counted
  <2> QED BY <1>1, <2>10
<1>4. T \in SUBSET Nat
  BY <1>1
<1>5. \A n \in Nat : n \in T
  BY <1>2, <1>3, <1>4, Induction
<1> QED BY <1>1, <1>5

(* addBusinessDaysAfter: for every finite set of excluded dates and every    *)
(* number of days, the date it ends on is a working date, and as many working*)
(* dates lie after the start as were asked for.                              *)
THEOREM AddBusinessDaysIs ==
  ASSUME NEW dates, IsFiniteSet(dates), NEW start \in Int, NEW count \in Nat \ {0}
  PROVE  LET last == AddBusinessDaysAfter(start, count, dates)
         IN /\ last \in Int /\ last > start /\ IsBusinessDate(last, dates)
            /\ Cardinality(Working(dates, start + 1, last)) = count
<1>1. PICK f : f = CHOOSE g : Counted(g, start, count, dates)
  OBVIOUS
<1>2. Counted(f, start, count, dates)
  BY <1>1, CountingExists
<1>3. AddBusinessDaysAfter(start, count, dates) = f[count]
  BY <1>1 DEF AddBusinessDaysAfter, Counted
<1>4. \A n \in 0..count : f[n] = IF n = 0 THEN start ELSE NextBusinessDate(f[n - 1], dates)
  BY <1>2 DEF Counted
<1>5. PICK T : T = {n \in Nat : n \in 0..count =>
                      /\ f[n] \in Int /\ f[n] >= start
                      /\ n > 0 => f[n] > start /\ IsBusinessDate(f[n], dates)
                      /\ IsFiniteSet(Working(dates, start + 1, f[n]))
                      /\ Cardinality(Working(dates, start + 1, f[n])) = n}
  OBVIOUS
<1>6. 0 \in T
  <2>1. f[0] = start
    BY <1>4
  <2>2. Working(dates, start + 1, start) = {}
    BY DEF Working
  <2>3. IsFiniteSet({}) /\ Cardinality({}) = 0
    BY FS_EmptySet
  <2> QED BY <1>5, <2>1, <2>2, <2>3
<1>7. ASSUME NEW n \in Nat, n \in T PROVE n + 1 \in T
  <2>1. SUFFICES ASSUME n + 1 \in 0..count PROVE n + 1 \in T
    BY <1>5
  <2>2. n \in 0..count
    BY <2>1
  <2>3. PICK m \in Int : m = f[n]
    BY <1>5, <1>7, <2>2
  <2>4. PICK next : next = f[n + 1]
    OBVIOUS
  <2>5. next = NextBusinessDate(m, dates)
    <3>1. n + 1 # 0 /\ n + 1 - 1 = n
      OBVIOUS
    <3> QED BY <1>4, <2>1, <2>3, <2>4, <3>1
  <2>6. /\ next \in Int /\ next > m /\ IsBusinessDate(next, dates)
        /\ \A d \in (m + 1)..(next - 1) : ~IsBusinessDate(d, dates)
    BY <2>5, NextBusinessDateIs
  <2>7. m >= start /\ IsFiniteSet(Working(dates, start + 1, m)) /\ Cardinality(Working(dates, start + 1, m)) = n
    BY <1>5, <1>7, <2>2, <2>3
  <2>8. Working(dates, start + 1, next) = Working(dates, start + 1, m) \cup {next}
    <3>1. ASSUME NEW d \in Working(dates, start + 1, next) PROVE d \in Working(dates, start + 1, m) \cup {next}
      <4>1. d \in (start + 1)..next /\ d % 7 < 5 /\ d \notin dates
        BY DEF Working
      <4>2. d \in Int /\ IsBusinessDate(d, dates)
        BY <2>6, <4>1, BusinessDateIs
      <4>3. d <= m \/ d = next
        BY <2>6, <4>1, <4>2
      <4> QED BY <4>1, <4>3 DEF Working
    <3>2. Working(dates, start + 1, m) \subseteq Working(dates, start + 1, next)
      BY <2>6 DEF Working
    <3>3. next \in Working(dates, start + 1, next)
      BY <2>6, <2>7, BusinessDateIs DEF Working
    <3> QED BY <3>1, <3>2, <3>3
  <2>9. next \notin Working(dates, start + 1, m)
    BY <2>6 DEF Working
  <2>10. IsFiniteSet(Working(dates, start + 1, next)) /\ Cardinality(Working(dates, start + 1, next)) = n + 1
    BY <2>7, <2>8, <2>9, FS_AddElement
  <2>11. next > start
    BY <2>6, <2>7
  <2> QED BY <1>5, <2>4, <2>6, <2>10, <2>11
<1>8. count \in T
  <2>1. T \in SUBSET Nat
    BY <1>5
  <2> QED BY <1>6, <1>7, <2>1, Induction
<1> QED BY <1>3, <1>5, <1>8

-----------------------------------------------------------------------------
(* What is counted from an hour of issue. *)
Ends(o) ==
  LET first == LocalDate(o.zone, o.issuedAt)
      last == LocalDate(o.zone, o.expires)
  IN /\ o.expires # Unresolved
     /\ LocalTime(o.zone, o.expires) % 24 = 23
     /\ LocalDate(o.zone, o.expires + 1) = last + 1
     /\ last \in Working(o.dates, first + 1, last)
     /\ Cardinality(Working(o.dates, first + 1, last)) = o.count

Reminds(o) ==
  IF o.reminder = NoReminder THEN o.count = 1
  ELSE LET day == LocalDate(o.zone, o.reminder)
       IN /\ o.issuedAt < o.reminder /\ o.reminder < o.expires
          /\ LocalTime(o.zone, o.reminder) % 24 = 10
          /\ Working(o.dates, day, LocalDate(o.zone, o.expires) - 1) = {day}

Deadline(at, count, z, dates) ==
  LET expires == CalculateBusinessDeadline(at, count, z, dates)
  IN [issuedAt |-> at, count |-> count, zone |-> z, dates |-> dates,
      expires |-> expires,
      reminder |-> IF expires = Unresolved THEN NoReminder
                   ELSE CalculateOfferReminderAt(at, expires, z, dates)]

(* Every deadline and reminder the code counts is right. *)
LEMMA DeadlinesAreRight ==
  ASSUME NEW at \in Instants, NEW count \in Validities, NEW z \in Zones,
         NEW dates \in SUBSET Nat, IsFiniteSet(dates)
  PROVE  /\ Deadline(at, count, z, dates).expires \in Int
         /\ Ends(Deadline(at, count, z, dates)) /\ Reminds(Deadline(at, count, z, dates))
<1>0. at \in Nat /\ count \in Nat \ {0}
  BY CalendarBounds
<1>1. PICK l \in Int : l = LocalTime(z, at) /\ l >= -12
  BY <1>0, LocalTimeType
<1>2. PICK first \in Int : first = l \div 24
  BY DayAndHour
<1>3. first >= -1 /\ l < 24 * first + 24
  BY <1>1, <1>2
<1>4. LocalDate(z, at) = first /\ GetLocalDate(z, at) = first
  BY <1>1, <1>2, PartsOf DEF LocalDate, GetLocalDate
<1>5. PICK last : last = AddBusinessDaysAfter(first, count, dates)
  OBVIOUS
<1>6. /\ last \in Int /\ last > first /\ IsBusinessDate(last, dates)
      /\ Cardinality(Working(dates, first + 1, last)) = count
  BY <1>0, <1>5, AddBusinessDaysIs
<1>7. last % 7 < 5 /\ last \notin dates
  BY <1>6, BusinessDateIs
<1>8. PICK expires \in Int :
        /\ CivilDateTimeToInstant(z, last, 23) = expires
        /\ LocalTime(z, expires) = last * 24 + 23
        /\ LocalTime(z, expires + 1) \div 24 = last + 1
  BY <1>6, <1>7, WorkingTimesResolve
<1>9. CalculateBusinessDeadline(at, count, z, dates) = expires
  BY <1>4, <1>5, <1>8 DEF CalculateBusinessDeadline
<1>10. LocalDate(z, expires) = last /\ LocalTime(z, expires) % 24 = 23 /\ LocalDate(z, expires + 1) = last + 1
  BY <1>6, <1>8, DayAndHourOf DEF LocalDate
<1>11. expires # Unresolved
  <2>1. LocalTime(z, expires) <= expires + 14
    BY LocalTimeType
  <2> QED BY <1>3, <1>6, <1>8, <2>1 DEF Unresolved
<1>12. last \in Working(dates, first + 1, last)
  BY <1>6, <1>7 DEF Working
<1>13. PICK day : day = PreviousBusinessDate(last, dates)
  OBVIOUS
<1>14. /\ day \in Int /\ day < last /\ IsBusinessDate(day, dates)
       /\ \A d \in (day + 1)..(last - 1) : ~IsBusinessDate(d, dates)
  BY <1>6, <1>13, PreviousBusinessDateIs
<1>15. day % 7 < 5 /\ day \notin dates
  BY <1>14, BusinessDateIs
<1>16. day >= -3
  <2>1. PICK w \in Int : w = -1
    OBVIOUS
  <2>2. PICK friday \in Int : friday = 7 * w + 4
    OBVIOUS
  <2>3. friday % 7 = 4
    BY ONLY <2>2, w \in Int, friday \in Int
  <2>4. friday = -3
    BY <2>1, <2>2
  <2>5. friday \notin dates
    BY <2>4
  <2>6. IsBusinessDate(friday, dates)
    BY ONLY <2>3, <2>5, friday \in Int, BusinessDateIs
  <2>7. friday \notin (day + 1)..(last - 1)
    BY <1>14, <2>6
  <2> QED BY <1>3, <1>6, <1>14, <2>4, <2>7
<1>17. PICK reminder \in Int :
         CivilDateTimeToInstant(z, day, 10) = reminder /\ LocalTime(z, reminder) = day * 24 + 10
  BY <1>14, <1>15, WorkingTimesResolve
<1>18. LocalDate(z, reminder) = day /\ LocalTime(z, reminder) % 24 = 10
  BY <1>14, <1>17, DayAndHourOf DEF LocalDate
<1>19. reminder # Unresolved /\ reminder # NoReminder
  <2>1. LocalTime(z, reminder) <= reminder + 14
    BY LocalTimeType
  <2> QED BY <1>14, <1>16, <1>17, <2>1 DEF Unresolved, NoReminder
<1>20. GetLocalDate(z, expires) = last
  BY <1>10, PartsOf DEF LocalDate, GetLocalDate
<1>21. CalculateOfferReminderAt(at, expires, z, dates) = IF reminder > at THEN reminder ELSE NoReminder
  BY <1>13, <1>17, <1>19, <1>20 DEF CalculateOfferReminderAt, InTime
<1>22. reminder < expires
  <2>1. LocalTime(z, reminder) < LocalTime(z, expires)
    BY <1>6, <1>8, <1>14, <1>17
  <2> QED BY <2>1, LocalTimeIsMonotonic
<1>23. Working(dates, day, last - 1) = {day}
  <2>1. ASSUME NEW d \in Working(dates, day, last - 1) PROVE d = day
    <3>1. d \in day..(last - 1) /\ d % 7 < 5 /\ d \notin dates
      BY DEF Working
    <3>2. IsBusinessDate(d, dates)
      BY <1>6, <1>14, <3>1, BusinessDateIs
    <3> QED BY <1>6, <1>14, <3>1, <3>2
  <2>2. day \in Working(dates, day, last - 1)
    BY <1>6, <1>14, <1>15 DEF Working
  <2> QED BY <2>1, <2>2
<1>24. ASSUME count # 1 PROVE reminder > at
  <2>1. \E d \in Working(dates, first + 1, last) : d # last
    <3>1. SUFFICES ASSUME Working(dates, first + 1, last) = {last} PROVE FALSE
      BY <1>12
    <3>2. Cardinality({last}) = 1
      BY FS_Singleton
    <3> QED BY <1>6, <1>24, <3>1, <3>2
  <2>2. PICK d \in Working(dates, first + 1, last) : d # last
    BY <2>1
  <2>3. d \in (first + 1)..(last - 1) /\ d % 7 < 5 /\ d \notin dates
    BY <1>6, <2>2 DEF Working
  <2>4. IsBusinessDate(d, dates)
    BY <1>6, <2>3, BusinessDateIs
  <2>5. day > first
    BY <1>6, <1>14, <2>3, <2>4
  <2>6. LocalTime(z, at) < LocalTime(z, reminder)
    BY <1>1, <1>3, <1>14, <1>17, <2>5
  <2> QED BY <1>0, <2>6, LocalTimeIsMonotonic
<1>25. PICK o : o = Deadline(at, count, z, dates)
  OBVIOUS
<1>26. o = [issuedAt |-> at, count |-> count, zone |-> z, dates |-> dates, expires |-> expires,
            reminder |-> IF reminder > at THEN reminder ELSE NoReminder]
  BY <1>9, <1>11, <1>21, <1>25 DEF Deadline
<1>27. Ends(o)
  BY <1>4, <1>6, <1>10, <1>11, <1>12, <1>26 DEF Ends
<1>28. Reminds(o)
  <2>1. CASE reminder > at
    BY <1>0, <1>10, <1>18, <1>19, <1>22, <1>23, <1>26, <2>1 DEF Reminds
  <2>2. CASE ~(reminder > at)
    BY <1>24, <1>26, <2>2 DEF Reminds
  <2> QED BY <2>1, <2>2
<1> QED BY <1>25, <1>26, <1>27, <1>28


-----------------------------------------------------------------------------
(* The inductive invariant of the calendar.                                *)
(* The transaction and the requests hold a zone and a count the program    *)
(* knows; the excluded dates stay finite.                                  *)
CalendarInv ==
  /\ calendar.version \in Nat /\ (Configured => calendar.zone \in Zones)
  /\ request = [a \in Admins |-> request[a]]
  /\ \A a \in Admins : request[a] # Idle => request[a].zone \in Zones
  /\ IsFiniteSet(excluded) /\ Dates \subseteq Holidays
  /\ issuing # Idle => /\ issuing.issuedAt \in Instants
                       /\ issuing.count \in Validities
                       /\ issuing.zone \in Zones
  /\ \A o \in issued : /\ o.zone \in Zones /\ o.issuedAt \in Int /\ o.expires \in Int
                        /\ Ends(o) /\ Reminds(o)

LEMMA DatesAreFinite ==
  ASSUME IsFiniteSet(excluded), Dates \subseteq Holidays
  PROVE  IsFiniteSet(Dates) /\ Dates \in SUBSET Nat
<1>1. PICK f : f = [e \in excluded |-> e.date]
  OBVIOUS
<1>2. f \in Surjection(excluded, Dates)
  BY <1>1 DEF Surjection, Dates
<1> QED BY <1>2, FS_Surjection, CalendarBounds

LEMMA CalendarInitInv == CalendarInit => CalendarInv
  BY FS_EmptySet DEF CalendarInit, CalendarInv, Configured, Dates

LEMMA FetchDataInv == ASSUME CalendarInv, NEW a \in Admins, FetchData(a) PROVE CalendarInv'
  BY DEF FetchData, CalendarInv, Configured, Dates, Deadlines

LEMMA ConfigureCalendarInv ==
  ASSUME CalendarInv, NEW a \in Admins, NEW zone \in Zones, ConfigureCalendar(a, zone) PROVE CalendarInv'
  BY DEF ConfigureCalendar, CalendarInv, Configured, Dates, Deadlines, Edit, Idle

LEMMA WriteCalendarInv == ASSUME CalendarInv, NEW a \in Admins, WriteCalendar(a) PROVE CalendarInv'
  BY DEF WriteCalendar, CalendarInv, Configured, Dates, Deadlines, Idle

LEMMA AddExcludedDateInv ==
  ASSUME CalendarInv, NEW a \in Admins, NEW date \in ExcludedDateForm(a), AddExcludedDate(a, date) PROVE CalendarInv'
<1>1. date \in Holidays
  BY DEF ExcludedDateForm
<1>2. PICK e : e = [date |-> date, id |-> edits]
  OBVIOUS
<1>3. excluded' = excluded \cup {e}
  BY <1>2 DEF AddExcludedDate
<1>4. IsFiniteSet(excluded')
  BY <1>3, FS_AddElement DEF CalendarInv
<1>5. Dates' \subseteq Holidays
  BY <1>1, <1>2, <1>3 DEF CalendarInv, Dates
<1> QED BY <1>4, <1>5 DEF AddExcludedDate, CalendarInv, Configured, Deadlines

LEMMA RemoveExcludedDateInv ==
  ASSUME CalendarInv, NEW a \in Admins, NEW entry, RemoveExcludedDate(a, entry) PROVE CalendarInv'
<1>1. IsFiniteSet(excluded')
  BY FS_RemoveElement DEF CalendarInv, RemoveExcludedDate
<1>2. Dates' \subseteq Holidays
  BY DEF CalendarInv, Dates, RemoveExcludedDate
<1> QED BY <1>1, <1>2 DEF RemoveExcludedDate, CalendarInv, Configured, Deadlines

LEMMA ReadTimezoneInv ==
  ASSUME CalendarInv, NEW at \in Instants, NEW count \in Validities, ReadTimezone(at, count) PROVE CalendarInv'
  BY DEF ReadTimezone, CalendarInv, Configured, Dates

LEMMA IssueDeadlineInv == ASSUME CalendarInv, IssueDeadline PROVE CalendarInv'
<1>1. PICK at \in Instants, count \in Validities, zone \in Zones :
        at = issuing.issuedAt /\ count = issuing.count /\ zone = issuing.zone
  BY DEF IssueDeadline, CalendarInv
<1>2. PICK dates : dates = Dates
  OBVIOUS
<1>3. dates \in SUBSET Nat /\ IsFiniteSet(dates)
  BY <1>2, DatesAreFinite DEF CalendarInv
<1>4. PICK o : o = Deadline(at, count, zone, dates)
  OBVIOUS
<1>5. issued' = issued \cup {o}
  BY <1>1, <1>2, <1>4 DEF IssueDeadline, Deadline
<1>6. /\ o.zone \in Zones /\ o.issuedAt \in Int /\ o.expires \in Int
      /\ Ends(o) /\ Reminds(o)
  <2>1. o.zone = zone /\ o.issuedAt = at
    BY <1>4 DEF Deadline
  <2> QED BY <1>3, <1>4, <2>1, DeadlinesAreRight, CalendarBounds
<1> QED BY <1>5, <1>6 DEF IssueDeadline, CalendarInv, Configured, Dates

LEMMA PrepareNoticeInv == ASSUME CalendarInv, NEW o, PrepareNotice(o) PROVE CalendarInv'
  BY DEF PrepareNotice, CalendarInv, Configured, Dates

LEMMA CalendarNextInv == CalendarInv /\ [CalendarNext]_calendarVars => CalendarInv'
<1> SUFFICES ASSUME CalendarInv, [CalendarNext]_calendarVars PROVE CalendarInv'
  OBVIOUS
<1>1. CASE UNCHANGED calendarVars
  BY <1>1 DEF calendarVars, CalendarInv, Configured, Dates
<1>2. CASE CalendarNext
  BY <1>2, FetchDataInv, WriteCalendarInv, ConfigureCalendarInv, AddExcludedDateInv, RemoveExcludedDateInv,
     ReadTimezoneInv, IssueDeadlineInv, PrepareNoticeInv DEF CalendarNext
<1> QED BY <1>1, <1>2

LEMMA CalendarInvHolds == CalendarSpec => []CalendarInv
  BY CalendarInitInv, CalendarNextInv, PTL DEF CalendarSpec

(* For every set of zones, holidays, validities and instants: a deadline   *)
(* counted by addBusinessDaysAfter and civilDateTimeToInstant is the last  *)
(* hour of the right working date, and its reminder                        *)
(* (calculateOfferReminderAt) is at ten of the working date before, or is  *)
(* left out only where one day was granted.                                *)
THEOREM DeadlinesAndRemindersAreRight == CalendarSpec => []IssuedIsRight
<1>1. CalendarInv => DeadlineEndsTheLastDay
  BY DEF CalendarInv, DeadlineEndsTheLastDay, Ends
<1>2. CalendarInv => ReminderIsTheWorkingDayBefore
  BY DEF CalendarInv, ReminderIsTheWorkingDayBefore, Reminds
<1>3. CalendarInv => IssuedIsRight
  BY <1>1, <1>2 DEF IssuedIsRight
<1> QED BY <1>3, CalendarInvHolds, PTL

(* A later deadline on an earlier date would have passed more working dates *)
(* than it was granted.                                                     *)
LEMMA NoEarlier ==
  ASSUME CalendarInv, NEW o \in issued, NEW p \in issued, o.zone = p.zone, o.dates = p.dates,
         o.issuedAt <= p.issuedAt, o.count <= p.count
  PROVE  o.expires <= p.expires
<1>1. PICK z \in Zones : z = o.zone /\ z = p.zone
  BY DEF CalendarInv
<1>2. PICK i \in Int, j \in Int, d \in Int, e \in Int :
        i = o.issuedAt /\ j = p.issuedAt /\ d = o.expires /\ e = p.expires
  BY DEF CalendarInv
<1>3. Ends(o) /\ Ends(p)
  BY DEF CalendarInv
<1>4. PICK from \in Int, since \in Int, last \in Int, end \in Int :
        from = LocalDate(z, i) /\ since = LocalDate(z, j) /\ last = LocalDate(z, d) /\ end = LocalDate(z, e)
  BY LocalDateGrows
<1>5. PICK dates : dates = o.dates /\ dates = p.dates
  OBVIOUS
<1>6. /\ last \in Working(dates, from + 1, last) /\ Cardinality(Working(dates, from + 1, last)) = o.count
      /\ Cardinality(Working(dates, since + 1, end)) = p.count
      /\ LocalDate(z, e + 1) = end + 1
  BY <1>1, <1>2, <1>3, <1>4, <1>5 DEF Ends
<1>7. from <= since
  BY <1>2, <1>4, LocalDateGrows
<1>8. ASSUME last > end PROVE FALSE
  <2>1. PICK S : S = Working(dates, since + 1, end)
    OBVIOUS
  <2>2. PICK T : T = Working(dates, from + 1, last)
    OBVIOUS
  <2>3. IsFiniteSet(S) /\ IsFiniteSet(T)
    <3>1. S \in SUBSET ((since + 1)..end) /\ T \in SUBSET ((from + 1)..last)
      BY <2>1, <2>2 DEF Working
    <3>2. IsFiniteSet((since + 1)..end) /\ IsFiniteSet((from + 1)..last)
      BY FS_Interval
    <3> QED BY <3>1, <3>2, FS_Subset
  <2>4. last \notin S
    BY <1>8, <2>1 DEF Working
  <2>5. S \cup {last} \in SUBSET T
    BY <1>6, <1>7, <1>8, <2>1, <2>2 DEF Working
  <2>6. Cardinality(S \cup {last}) = Cardinality(S) + 1 /\ Cardinality(S) \in Nat
    BY <2>3, <2>4, FS_AddElement, FS_CardinalityType
  <2>7. Cardinality(S \cup {last}) <= Cardinality(T)
    BY <2>3, <2>5, FS_Subset
  <2>8. p.count = Cardinality(S) /\ o.count = Cardinality(T) /\ Cardinality(T) \in Nat
    BY <1>6, <2>1, <2>2, <2>3, FS_CardinalityType
  <2> QED BY <2>6, <2>7, <2>8
<1>9. ASSUME e < d PROVE FALSE
  <2>1. LocalDate(z, e + 1) <= LocalDate(z, d)
    BY <1>9, LocalDateGrows
  <2> QED BY <1>4, <1>6, <1>8, <2>1
<1> QED BY <1>2, <1>9

(* For every calendar and every two hours of issue, the order is kept. *)
THEOREM LaterIssuesEndNoEarlier == CalendarSpec => []LaterIssueEndsNoEarlier
<1>1. CalendarInv => LaterIssueEndsNoEarlier
  BY NoEarlier DEF LaterIssueEndsNoEarlier
<1> QED BY <1>1, CalendarInvHolds, PTL
================================================================================
