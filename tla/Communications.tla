---------------------------- MODULE Communications ----------------------------
(***************************************************************************)
(* One communication to a family: packages/database/src/communications.ts  *)
(* (confirm, send, retry, delivery evidence), the CommunicationWorker that *)
(* delivers its outbox messages, the e-mail provider, and the provider's   *)
(* webhook events (email-delivery.ts).                                     *)
(*                                                                         *)
(* Confirming and retrying enqueue the message in a transaction of its     *)
(* own, inside the one that changes the communication; sending calls the   *)
(* provider inside a transaction.  Statuses are read without a lock; an    *)
(* UPDATE waits for the row lock that a confirmation holds until it        *)
(* commits.                                                                *)
(***************************************************************************)
EXTENDS Integers, Sequences

CONSTANTS
  Staff,        \* requests to confirm, retry or record a delivery
  Workers,      \* communication workers
  Hooks,        \* webhook requests
  MaxVersion,   \* bound: version_number of the communication
  MaxAttempts,  \* deliveries after which a failing message is FAILED
  MaxFaults,    \* bound: lost answers and failed deliveries
  MaxCrashes    \* bound: rolled back requests, worker crashes, late leases

ASSUME CommunicationBounds ==
  /\ MaxVersion \in Nat \ {0}
  /\ MaxAttempts \in Nat \ {0}
  /\ MaxFaults \in Nat
  /\ MaxCrashes \in Nat

VARIABLES
  life,        \* communications.lifecycle
  version,     \* communications.version_number
  attempts,    \* communication_attempts.technical_status by sequence
  task,        \* there is an operational task COMMUNICATION_FAILED
  suppressed,  \* the recipient is in communication_suppressions
  events,      \* communication_webhook_events, as <<sequence, type>>
  job,         \* the outbox message of each idempotency key
  accepted,    \* idempotency keys the provider knows, by attempt sequence
  emails,      \* e-mails the provider sent to the family
  tx,          \* the request of each staff member
  work,        \* the delivery each worker is busy with
  hook,        \* the webhook request in progress
  faults,      \* faults so far (bound only)
  crashes      \* crashes so far (bound only)

rowVars == <<life, version, attempts, task, suppressed, events>>
providerVars == <<accepted, emails>>
bounds == <<faults, crashes>>
vars == <<rowVars, job, providerVars, tx, work, hook, bounds>>

(* idempotency keys comm:send:<id>:<version> and comm:retry:<id>:<version> *)
Keys == {"confirm", "retry"} \X (2..MaxVersion)

NoJob == [status |-> "NONE", attempts |-> 0, owner |-> "nobody"]
NoTx == [op |-> "none", step |-> "idle", seq |-> 0]
NoWork == [step |-> "idle", key |-> <<"none", 0>>, seq |-> 0, result |-> "none"]
NoHook == [step |-> "idle", event |-> <<0, "none">>, seen |-> "none"]

Init ==
  /\ life = "PREPARED"
  /\ version = 1
  /\ attempts = <<>>
  /\ task = FALSE
  /\ suppressed = FALSE
  /\ events = {}
  /\ job = [k \in Keys |-> NoJob]
  /\ accepted = {}
  /\ emails = 0
  /\ tx = [s \in Staff |-> NoTx]
  /\ work = [w \in Workers |-> NoWork]
  /\ hook = [h \in Hooks |-> NoHook]
  /\ faults = 0
  /\ crashes = 0

Fault == faults < MaxFaults /\ faults' = faults + 1 /\ UNCHANGED crashes
Crash == crashes < MaxCrashes /\ crashes' = crashes + 1 /\ UNCHANGED faults

RowFree_UntilEnqueued == \A s \in Staff : tx[s].step # "updated"

(* The row lock of an uncommitted confirmation or retry. *)
RowFree == \A s \in Staff : tx[s].step \notin {"updated", "queued"}

(* UNIQUE (tenant_id, communication_id, sequence) *)
SequenceFree(n) == Len(attempts) < n

-----------------------------------------------------------------------------
(* confirmCommunication and retryCommunication *)

Read(s, op) ==
  /\ tx[s] = NoTx
  /\ tx' = [tx EXCEPT ![s] = [op |-> op, step |-> "read", seq |-> Len(attempts) + 1]]
  /\ UNCHANGED <<rowVars, job, providerVars, work, hook, bounds>>

ReadForConfirm(s) == life \in {"PREPARED", "FAILED"} /\ Read(s, "confirm")
ReadForRetry(s) == life = "FAILED" /\ Read(s, "retry")

Locked(s) == tx' = [tx EXCEPT ![s].step = "updated"]
Leave(s) == tx' = [tx EXCEPT ![s] = NoTx]

(* updateMany WHERE lifecycle IN (PREPARED, FAILED): a confirmation that   *)
(* another one overtook changes nothing and answers with the row.          *)
UpdateConfirm(s) ==
  /\ tx[s].op = "confirm" /\ tx[s].step = "read"
  /\ RowFree /\ version < MaxVersion
  /\ IF life \in {"PREPARED", "FAILED"} THEN Locked(s) ELSE Leave(s)
  /\ UNCHANGED <<rowVars, job, providerVars, work, hook, bounds>>

(* update WHERE id: whatever the status has become. *)
UpdateRetry(s) ==
  /\ tx[s].op = "retry" /\ tx[s].step = "read"
  /\ RowFree /\ version < MaxVersion
  /\ Locked(s)
  /\ UNCHANGED <<rowVars, job, providerVars, work, hook, bounds>>

(* OutboxService.enqueue commits at once, in a transaction of its own; a   *)
(* key that exists makes it throw, and the request is rolled back.         *)
EnqueueSend(s) ==
  LET k == <<tx[s].op, version + 1>>
  IN  /\ tx[s].step = "updated"
      /\ IF job[k] = NoJob
         THEN job' = [job EXCEPT ![k].status = "PENDING"]
              /\ tx' = [tx EXCEPT ![s].step = "queued"]
         ELSE UNCHANGED job /\ Leave(s)
      /\ UNCHANGED <<rowVars, providerVars, work, hook, bounds>>

CommitRequest(s) ==
  /\ tx[s].step = "queued"
  /\ life' = "CONFIRMED"
  /\ version' = version + 1
  /\ Leave(s)
  /\ UNCHANGED <<attempts, task, suppressed, events, job, providerVars, work, hook, bounds>>

(* The transaction times out or the process dies before the commit. *)
Rollback(s) ==
  /\ tx[s].step # "idle" /\ Crash
  /\ Leave(s)
  /\ UNCHANGED <<rowVars, job, providerVars, work, hook>>

(* recordDeliveryEvidence: a manual proof of delivery *)

ReadForEvidence(s) == life = "SENT" /\ Read(s, "evidence")

RecordEvidence(s) ==
  /\ tx[s].op = "evidence" /\ tx[s].step = "read"
  /\ RowFree
  /\ IF SequenceFree(tx[s].seq)
     THEN attempts' = Append(attempts, "DELIVERED") /\ life' = "DELIVERED"
     ELSE UNCHANGED <<attempts, life>>
  /\ Leave(s)
  /\ UNCHANGED <<version, task, suppressed, events, job, providerVars, work, hook, bounds>>

-----------------------------------------------------------------------------
(* CommunicationWorker and processOutboxSend *)

Owner(w) == job[work[w].key].owner = w /\ job[work[w].key].status = "PROCESSING"
Busy(w, step) == work[w].step = step
OwnerGone(k) == \A w \in Workers : work[w].step = "idle" \/ work[w].key # k

Claim(w, k) ==
  /\ work[w] = NoWork
  /\ \/ job[k].status = "PENDING" /\ UNCHANGED bounds
     \/ job[k].status = "PROCESSING" /\ OwnerGone(k) /\ UNCHANGED bounds
     \/ job[k].status = "PROCESSING" /\ ~OwnerGone(k) /\ Crash   \* slower than its lease
  /\ job' = [job EXCEPT ![k] = [status |-> "PROCESSING", attempts |-> @.attempts + 1,
                                  owner |-> w]]
  /\ work' = [work EXCEPT ![w].step = "claimed", ![w].key = k]
  /\ UNCHANGED <<rowVars, providerVars, tx, hook>>

Prepared(w, refuse) ==
  work' = [work EXCEPT ![w].step = IF refuse THEN "called" ELSE "ready",
             ![w].seq = Len(attempts) + 1,
             ![w].result = IF refuse THEN "FAILED" ELSE "none"]

(* A communication that is sent or delivered is not sent again; neither    *)
(* PREPARED nor FAILED keeps it from being sent.  A suppressed recipient   *)
(* counts as a failed attempt, without a call.                             *)
ReadCommunication(w) ==
  /\ Busy(w, "claimed")
  /\ IF life \in {"SENT", "DELIVERED"}
     THEN work' = [work EXCEPT ![w].step = "done"]
     ELSE Prepared(w, suppressed)
  /\ UNCHANGED <<rowVars, job, providerVars, tx, hook, bounds>>

Called(w, result) == work' = [work EXCEPT ![w].step = "called", ![w].result = result]

Accept_NoKey(n) == accepted' = accepted \cup {n} /\ emails' = emails + 1

(* The provider sends one e-mail for an idempotency key. *)
Accept(n) ==
  /\ accepted' = accepted \cup {n}
  /\ emails' = IF n \in accepted THEN emails ELSE emails + 1

ProviderAccepts(w) ==
  /\ Busy(w, "ready")
  /\ Accept(work[w].seq)
  /\ Called(w, "SENT")
  /\ UNCHANGED <<rowVars, job, tx, hook, bounds>>

(* The answer is lost or late: the adapter reports a failure. *)
AnswerLost(w) ==
  /\ Busy(w, "ready") /\ Fault
  /\ Accept(work[w].seq)
  /\ Called(w, "FAILED")
  /\ UNCHANGED <<rowVars, job, tx, hook>>

ProviderRefuses(w) ==
  /\ Busy(w, "ready")
  /\ work[w].seq \notin accepted
  /\ Called(w, "FAILED")
  /\ UNCHANGED <<rowVars, job, providerVars, tx, hook, bounds>>

RecordFailure == task' = TRUE

(* The attempt, the status and the task are one commit; an attempt that    *)
(* another delivery recorded first makes the transaction fail.             *)
CommitResult(w) ==
  /\ Busy(w, "called")
  /\ RowFree
  /\ IF SequenceFree(work[w].seq)
     THEN /\ attempts' = Append(attempts, work[w].result)
          /\ life' = work[w].result
          /\ IF work[w].result = "FAILED" THEN RecordFailure ELSE UNCHANGED task
          /\ work' = [work EXCEPT ![w].step = "done"]
     ELSE /\ work' = [work EXCEPT ![w].step = "failed"]
          /\ UNCHANGED <<attempts, life, task>>
  /\ UNCHANGED <<version, suppressed, events, job, providerVars, tx, hook, bounds>>

(* processOutboxSend throws: the transaction timed out or lost its database. *)
SendFails(w) ==
  /\ work[w].step \in {"claimed", "ready", "called"} /\ Fault
  /\ work' = [work EXCEPT ![w].step = "failed"]
  /\ UNCHANGED <<rowVars, job, providerVars, tx, hook>>

MarkSent(w) ==
  /\ Busy(w, "done")
  /\ job' = IF Owner(w) THEN [job EXCEPT ![work[w].key].status = "SENT"] ELSE job
  /\ work' = [work EXCEPT ![w] = NoWork]
  /\ UNCHANGED <<rowVars, providerVars, tx, hook, bounds>>

RequeueOrFail(w) ==
  LET k == work[w].key
  IN  /\ Busy(w, "failed")
      /\ job' = IF ~Owner(w) THEN job
                ELSE [job EXCEPT ![k].owner = "nobody", ![k].status =
                       IF job[k].attempts >= MaxAttempts THEN "FAILED" ELSE "PENDING"]
      /\ work' = [work EXCEPT ![w] = NoWork]
      /\ UNCHANGED <<rowVars, providerVars, tx, hook, bounds>>

WorkerCrashes(w) ==
  /\ work[w] # NoWork /\ Crash
  /\ work' = [work EXCEPT ![w] = NoWork]
  /\ UNCHANGED <<rowVars, job, providerVars, tx, hook>>

-----------------------------------------------------------------------------
(* processVerifiedEvent: what the provider says about an e-mail *)

EventTypes == {"DELIVERED", "BOUNCED"}   \* a complaint is treated as a bounce

(* The event must name a recorded attempt by the provider's reference;     *)
(* until it is recorded the request fails and the provider repeats it.     *)
ReadEvent(h, n, type) ==
  /\ hook[h] = NoHook
  /\ n \in accepted /\ n <= Len(attempts) /\ attempts[n] = "SENT"
  /\ <<n, type>> \notin events
  /\ hook' = [hook EXCEPT ![h] = [step |-> "read", event |-> <<n, type>>, seen |-> life]]
  /\ UNCHANGED <<rowVars, job, providerVars, tx, work, bounds>>

CommitEvent(h) ==
  LET type == hook[h].event[2]
      open == hook[h].seen = "SENT"
  IN  /\ hook[h].step = "read"
      /\ hook' = [hook EXCEPT ![h] = NoHook]
      /\ IF hook[h].event \in events THEN UNCHANGED rowVars
         ELSE /\ open => RowFree
              /\ events' = events \cup {hook[h].event}
              /\ IF type = "DELIVERED"
                 THEN /\ life' = IF open THEN "DELIVERED" ELSE life
                      /\ UNCHANGED <<task, suppressed>>
                 ELSE /\ life' = IF open THEN "FAILED" ELSE life
                      /\ task' = TRUE
                      /\ suppressed' = TRUE
              /\ UNCHANGED <<version, attempts>>
      /\ UNCHANGED <<job, providerVars, tx, work, bounds>>

-----------------------------------------------------------------------------
StaffNext ==
  \E s \in Staff :
    \/ ReadForConfirm(s) \/ UpdateConfirm(s)
    \/ ReadForRetry(s) \/ UpdateRetry(s)
    \/ EnqueueSend(s) \/ CommitRequest(s) \/ Rollback(s)
    \/ ReadForEvidence(s) \/ RecordEvidence(s)

Deliver(w) ==
  \/ \E k \in Keys : Claim(w, k)
  \/ ReadCommunication(w) \/ ProviderAccepts(w) \/ ProviderRefuses(w)
  \/ CommitResult(w) \/ MarkSent(w) \/ RequeueOrFail(w)

WorkerNext == \E w \in Workers : Deliver(w) \/ AnswerLost(w) \/ SendFails(w) \/ WorkerCrashes(w)

HookNext ==
  \E h \in Hooks :
    \/ \E n \in accepted, type \in EventTypes : ReadEvent(h, n, type)
    \/ CommitEvent(h)

Next == StaffNext \/ WorkerNext \/ HookNext

Spec == Init /\ [][Next]_vars

-----------------------------------------------------------------------------
(* Properties *)

(* Every row has its shape; only a request that committed raises the       *)
(* version, and a failed communication is never without its task.          *)
TypeOK ==
  /\ life \in {"PREPARED", "CONFIRMED", "SENT", "DELIVERED", "FAILED"}
  /\ version \in 1..MaxVersion
  /\ attempts \in Seq({"SENT", "FAILED", "DELIVERED"})
  /\ task \in BOOLEAN /\ suppressed \in BOOLEAN
  /\ events \subseteq (1..Len(attempts)) \X EventTypes
  /\ \A k \in Keys :
       /\ job[k].status \in {"NONE", "PENDING", "PROCESSING", "SENT", "FAILED"}
       /\ job[k].owner \in Workers \cup {"nobody"}
       /\ (job[k].status = "NONE") = (job[k].attempts = 0 /\ job[k] = NoJob)
  /\ \A s \in Staff : tx[s].step \in {"idle", "read", "updated", "queued"}
  /\ \A w \in Workers :
       work[w].step \in {"idle", "claimed", "ready", "called", "done", "failed"}
  /\ \A h \in Hooks : hook[h].step \in {"idle", "read"}

(* However often a message is delivered, reclaimed or rolled back, the     *)
(* family gets at most one e-mail for each recorded attempt, and one for   *)
(* the attempt in progress.                                                *)
EmailsAreAccounted == emails <= Len(attempts) + 1

(* A failure leaves a task for the staff, whichever of the worker and the  *)
(* webhooks saw it first (AC-042).                                         *)
FailureHasTask == "FAILED" \in {life} \cup {attempts[n] : n \in 1..Len(attempts)} => task

(* "Delivered" is shown with evidence only: the provider's event or a      *)
(* manual record (AC-041).                                                 *)
DeliveredHasEvidence ==
  life = "DELIVERED" => \E n \in 1..Len(attempts) :
                          attempts[n] = "DELIVERED" \/ <<n, "DELIVERED">> \in events

(* What the staff sees of a communication has its cause on record: it is     *)
(* sent unconfirmed only after a rolled back request, it is delivered by     *)
(* evidence, failed by a failure, which has its task, and what was sent is   *)
(* queued again only after a failure.                                        *)
FailureIsRecorded ==
  \E n \in 1..Len(attempts) : attempts[n] = "FAILED" \/ <<n, "BOUNCED">> \in events
ShownStatusHasItsCause ==
  /\ version = 1 => life = "PREPARED" \/ crashes > 0
  /\ version > 1 => life # "PREPARED"
  /\ DeliveredHasEvidence
  /\ life = "FAILED" => FailureIsRecorded
  /\ life = "CONFIRMED" /\ (\E n \in 1..Len(attempts) : attempts[n] # "FAILED") => FailureIsRecorded
  /\ FailureIsRecorded => task

-----------------------------------------------------------------------------
(* What the documents say and the code does not ensure *)

(* A result is sent only after the head of admissions confirmed it. *)
SentWasConfirmed == life \in {"SENT", "DELIVERED"} => version > 1

(* Retrying is safe under concurrency: what was sent is not queued again. *)
SentIsNotReopened ==
  [][~(life \in {"SENT", "DELIVERED"} /\ life' = "CONFIRMED")]_life
=============================================================================
