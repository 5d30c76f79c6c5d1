---------------------------- MODULE CapacityOffer ----------------------------
(***************************************************************************)
(* Seats, offers and the waiting list of ONE offering of ONE tenant:       *)
(* packages/database/src/capacity-offer.ts, the direction decision that    *)
(* feeds it (recommendation.ts) and the worker that expires its offers.    *)
(*                                                                         *)
(* Every request is a PostgreSQL READ COMMITTED transaction, run by an API *)
(* session or by an expiry worker.  tx[p] is the transaction of process p: *)
(* what it read before it had any lock, and the locks it holds, which its  *)
(* step determines.  A step of the model reaches from one possible wait    *)
(* for a row lock to the next; the last one commits.                       *)
(*                                                                         *)
(* An offer version and its seat reservation are one-to-one (unique index  *)
(* admission_offer_versions_reservation_key), so both are indexed by a     *)
(* slot <<application, version number>>.                                   *)
(***************************************************************************)
EXTENDS Integers, FiniteSets

CONSTANTS
  Apps,          \* applications of the offering; their order is the id order
  Sessions,      \* API requests that can be in progress at once
  Workers,       \* offer-expiry worker processes
  MaxVersions,   \* bound: versions of one offer (reopenings + 1)
  Capacities,    \* seats the staff may configure
  Validities,    \* durations of an offer, in ticks
  MaxTime,       \* bound on the clock
  MaxCapVersion, \* bound: no capacity adjustment from this version on
  MaxAttempts,   \* deliveries after which a failing expiry job is FAILED
  MaxFaults      \* bound: worker crashes, failed deliveries, late leases

ASSUME AppsAssumption == Apps \subseteq Nat \ {0} /\ IsFiniteSet(Apps)
ASSUME ProcsAssumption == Sessions \cap Workers = {}
ASSUME CapacityAssumption ==
  /\ Capacities \subseteq Nat
  /\ Validities \subseteq Nat \ {0}
ASSUME BoundsAssumption ==
  /\ MaxVersions \in Nat \ {0}
  /\ MaxTime \in Nat
  /\ MaxCapVersion \in Nat
  /\ MaxAttempts \in Nat \ {0}
  /\ MaxFaults \in Nat

Procs == Sessions \cup Workers
Slots == Apps \X (1..MaxVersions)
NoApp == 0

VARIABLES
  appStatus,   \* applications.status
  decision,    \* disposition of the final direction decision
  entry,       \* waitlist_entries.state
  enteredAt,   \* waitlist_entries.entered_at
  capacity,    \* admission_capacities: configured, validity, version
  seat,        \* seat_reservations.state, by slot
  lifecycle,   \* admission_offer_versions.lifecycle, by slot
  expiresAt,   \* admission_offer_versions.expires_at, by slot
  current,     \* admission_offers.current_version, 0 while there is no offer
  acceptance,  \* offer_acceptances.offer_version, 0 while there is none
  job,         \* the outbox message "offer-expiry:<version>", by slot
  clock,       \* wall clock
  faults,      \* faults so far (bound only)
  tx           \* the transaction each process is in

offerVars == <<seat, lifecycle, expiresAt, current, acceptance>>
waitVars  == <<entry, enteredAt>>
vars == <<appStatus, decision, waitVars, capacity, offerVars, job, clock,
          faults, tx>>

Statuses == {"SUBMITTED", "WITHDRAWN"}
FinalDispositions == {"APROBADO", "LISTA_DE_ESPERA", "RECHAZADO"}
Decisions == FinalDispositions
AppOps == Decisions \cup {"accept", "decline", "reopen", "withdraw", "expire"}
Ops == AppOps \cup {"promote", "adjust", "none"}
Steps == {"idle", "begun", "entryLocked", "appLocked", "capLocked", "done"}
Consuming == {"ACTIVE", "COMMITTED"}

Idle == [op |-> "none", step |-> "idle", app |-> NoApp, now |-> 0,
         status |-> "SUBMITTED", capVersion |-> 0, version |-> 0]

NoJob == [status |-> "NONE", attempts |-> 0, owner |-> "nobody"]

Init ==
  /\ appStatus = [a \in Apps |-> "SUBMITTED"]
  /\ decision = [a \in Apps |-> "NONE"]
  /\ entry = [a \in Apps |-> "NONE"]
  /\ enteredAt = [a \in Apps |-> 0]
  /\ capacity = [configured |-> 0, validity |-> 0, version |-> 0]
  /\ seat = [s \in Slots |-> "NONE"]
  /\ lifecycle = [s \in Slots |-> "NONE"]
  /\ expiresAt = [s \in Slots |-> 0]
  /\ current = [a \in Apps |-> 0]
  /\ acceptance = [a \in Apps |-> 0]
  /\ job = [s \in Slots |-> NoJob]
  /\ clock = 0
  /\ faults = 0
  /\ tx = [p \in Procs |-> Idle]

-----------------------------------------------------------------------------
(* Reads *)

Cur(a) == <<a, current[a]>>
HasOffer(a) == current[a] # 0
CurrentIs(a, states) == HasOffer(a) /\ lifecycle[Cur(a)] \in states

Consumed == {s \in Slots : seat[s] \in Consuming}      \* consumedSeats
SeatAvailable == Cardinality(Consumed) < capacity.configured

Before(a, b) ==                 \* ORDER BY entered_at, id
  \/ enteredAt[a] < enteredAt[b]
  \/ enteredAt[a] = enteredAt[b] /\ a < b

IsFirst(a) == \A b \in Apps \ {a} : entry[b] = "ACTIVE" => Before(a, b)

-----------------------------------------------------------------------------
(* Row locks: those a transaction owns at its step, and those it waits for *)
(* to take the next one.  The capacity row is locked FOR UPDATE, or by the *)
(* UPDATE that advances its version; inserting a reservation takes a key   *)
(* share of the application row, so a promotion waits for that row last.   *)

AppRow(a) == <<"application", a>>
EntryRow(a) == <<"waitlist_entry", a>>
CapRow == <<"capacity", NoApp>>

Owns_PlainRead(p) ==
  CASE tx[p].step = "entryLocked" -> {EntryRow(tx[p].app)}
    [] tx[p].step = "capLocked"   -> {EntryRow(tx[p].app), CapRow}
    [] OTHER -> {}

Owns(p) ==
  CASE tx[p].step = "appLocked"   -> {AppRow(tx[p].app)}
    [] tx[p].step = "entryLocked" -> {EntryRow(tx[p].app)}
    [] tx[p].step = "capLocked"   -> {EntryRow(tx[p].app), CapRow}
    [] OTHER -> {}

(* What a request writes once it has its application. *)
RowsToWrite(op, a) ==
  CASE op \in {"APROBADO", "accept", "decline", "reopen", "expire"} -> {CapRow}
    [] op = "withdraw" ->
         (IF CurrentIs(a, {"ACTIVE"}) THEN {CapRow} ELSE {})
           \cup (IF entry[a] = "ACTIVE" THEN {EntryRow(a)} ELSE {})
    [] OTHER -> {}

Wants(p) ==
  LET op == tx[p].op
      a  == tx[p].app
  IN  CASE tx[p].step = "begun" ->
             (CASE op = "adjust"  -> {CapRow}
                [] op = "promote" -> {EntryRow(a)}
                [] OTHER -> {AppRow(a)})
        [] tx[p].step = "entryLocked" -> {CapRow}
        [] tx[p].step = "capLocked"   -> {AppRow(a)}
        [] tx[p].step = "appLocked"   -> RowsToWrite(op, a)
        [] OTHER -> {}

BlockedBy(p, q) == p # q /\ Wants(p) \cap Owns(q) # {}
Unblocked(p) == \A q \in Procs : ~BlockedBy(p, q)
Deadlocked(p) == \E q \in Procs : BlockedBy(p, q) /\ BlockedBy(q, p)

At(p, ops, step) == tx[p].op \in ops /\ tx[p].step = step
MoveTo(p, step) == tx' = [tx EXCEPT ![p].step = step]
Leave(p) == tx' = [tx EXCEPT ![p] = Idle]

-----------------------------------------------------------------------------
(* Requests.  The clock is read when the call starts ("now = new Date()"), *)
(* the versions are the ones the client saw, and reopenOffer also reads    *)
(* the application's status before it locks the row.                       *)

Begin(p, t) ==
  /\ tx[p] = Idle
  /\ tx' = [tx EXCEPT ![p] = t]

StaffOrFamily(p, t) ==
  /\ Begin(p, t)
  /\ UNCHANGED <<appStatus, decision, waitVars, capacity, offerVars, job,
                 clock, faults>>

BeginDecision(p, a) ==
  \E d \in FinalDispositions :
    /\ decision[a] = "NONE"
    /\ StaffOrFamily(p, [Idle EXCEPT !.op = d, !.step = "begun", !.app = a])

BeginPromotion(p, a) ==
  /\ entry[a] = "ACTIVE"
  /\ StaffOrFamily(p, [Idle EXCEPT !.op = "promote", !.step = "begun", !.app = a,
                         !.now = clock, !.capVersion = capacity.version])

BeginResponse(p, a) ==
  \E response \in {"accept", "decline"} :
    /\ CurrentIs(a, {"ACTIVE"})
    /\ StaffOrFamily(p, [Idle EXCEPT !.op = response, !.step = "begun", !.app = a,
                           !.now = clock, !.version = current[a]])

BeginReopening(p, a) ==
  /\ CurrentIs(a, {"ACTIVE", "EXPIRED"})
  /\ current[a] < MaxVersions
  /\ StaffOrFamily(p, [Idle EXCEPT !.op = "reopen", !.step = "begun", !.app = a,
                         !.now = clock, !.status = appStatus[a],
                         !.capVersion = capacity.version, !.version = current[a]])

BeginWithdrawal(p, a) ==
  /\ appStatus[a] = "SUBMITTED"
  /\ StaffOrFamily(p, [Idle EXCEPT !.op = "withdraw", !.step = "begun", !.app = a,
                         !.now = clock])

BeginAdjustment(p) ==
  /\ capacity.version \in 1..(MaxCapVersion - 1)
  /\ StaffOrFamily(p, [Idle EXCEPT !.op = "adjust", !.step = "begun",
                         !.capVersion = capacity.version])

(* A worker claims a due expiry job: a PENDING one, or a PROCESSING one    *)
(* whose lease ran out, because its owner died or (a fault) is only slow.  *)
OwnerGone(s) ==
  \A w \in Workers :
    ~(job[s].owner = w /\ At(w, {"expire"}, tx[w].step) /\ <<tx[w].app, tx[w].version>> = s)

BeginExpiry(w, s) ==
  /\ expiresAt[s] <= clock
  /\ \/ job[s].status = "PENDING" /\ faults' = faults
     \/ job[s].status = "PROCESSING" /\ OwnerGone(s) /\ faults' = faults
     \/ /\ job[s].status = "PROCESSING" /\ ~OwnerGone(s)
        /\ faults < MaxFaults
        /\ faults' = faults + 1
  /\ job' = [job EXCEPT ![s] = [status |-> "PROCESSING", owner |-> w,
                                attempts |-> @.attempts + 1]]
  /\ Begin(w, [Idle EXCEPT !.op = "expire", !.step = "begun", !.app = s[1],
                 !.version = s[2], !.now = clock])
  /\ UNCHANGED <<appStatus, decision, waitVars, capacity, offerVars, clock>>

-----------------------------------------------------------------------------
(* First lock, and the checks made under it *)

DecisionAllowed_NotFinal(a) == appStatus[a] = "SUBMITTED"

(* recordDirectionDecision *)
DecisionAllowed(a) == appStatus[a] = "SUBMITTED" /\ decision[a] = "NONE"

(* respondToOffer; the authority of the person who accepts is external *)
ResponseAllowed(p, a) ==
  /\ current[a] = tx[p].version
  /\ appStatus[a] # "WITHDRAWN"
  /\ CurrentIs(a, {"ACTIVE"})
  /\ expiresAt[Cur(a)] > tx[p].now
  /\ seat[Cur(a)] = "ACTIVE"

ReopeningAllowed_AnyLifecycle(p, a) ==
  /\ current[a] = tx[p].version
  /\ tx[p].status # "WITHDRAWN"

(* reopenOffer: the status is the one read before the lock *)
ReopeningAllowed(p, a) ==
  /\ current[a] = tx[p].version
  /\ acceptance[a] = 0
  /\ CurrentIs(a, {"EXPIRED"})
  /\ tx[p].status # "WITHDRAWN"

(* withdrawApplication *)
WithdrawalAllowed(a) ==
  /\ appStatus[a] = "SUBMITTED"
  /\ ~CurrentIs(a, {"ACCEPTED"})

(* expireOfferVersion: anything but EXPIRED is a no-op *)
ExpiryDue(p, a) ==
  /\ current[a] = tx[p].version
  /\ CurrentIs(a, {"ACTIVE"})
  /\ expiresAt[Cur(a)] <= tx[p].now

Allowed(p) ==
  LET a == tx[p].app
  IN  CASE tx[p].op \in FinalDispositions -> DecisionAllowed(a)
        [] tx[p].op \in {"accept", "decline"} -> ResponseAllowed(p, a)
        [] tx[p].op = "reopen"   -> ReopeningAllowed(p, a)
        [] tx[p].op = "withdraw" -> WithdrawalAllowed(a)
        [] tx[p].op = "expire"   -> ExpiryDue(p, a)
        [] OTHER -> FALSE

(* A decision is dated when it is written, under the application lock. *)
LockApplication(p) ==
  /\ At(p, AppOps, "begun") /\ Unblocked(p)
  /\ Allowed(p)
  /\ tx' = [tx EXCEPT ![p].step = "appLocked",
                      ![p].now = IF tx[p].op \in FinalDispositions THEN clock ELSE @]
  /\ UNCHANGED <<appStatus, decision, waitVars, capacity, offerVars, job,
                 clock, faults>>

(* promoteWaitlistEntry; the entry's version changes only with its state *)
LockWaitlistEntry(p) ==
  /\ At(p, {"promote"}, "begun") /\ Unblocked(p)
  /\ LET a == tx[p].app
     IN entry[a] = "ACTIVE" /\ appStatus[a] # "WITHDRAWN" /\ IsFirst(a)
  /\ MoveTo(p, "entryLocked")
  /\ UNCHANGED <<appStatus, decision, waitVars, capacity, offerVars, job,
                 clock, faults>>

-----------------------------------------------------------------------------
(* Capacity lock *)

(* reserveAndIssue up to its first insert *)
Reservable(p, a) ==
  /\ capacity.version # 0
  /\ ~\E s \in Consumed : s[1] = a
  /\ SeatAvailable
  /\ ~HasOffer(a)

VersionSeen(p) == capacity.version = tx[p].capVersion

LockCapacity(p) ==
  /\ At(p, {"promote"}, "entryLocked") /\ Unblocked(p)
  /\ VersionSeen(p) /\ Reservable(p, tx[p].app)
  /\ MoveTo(p, "capLocked")
  /\ UNCHANGED <<appStatus, decision, waitVars, capacity, offerVars, job,
                 clock, faults>>

IssueVersion_SameCapacityVersion(a, now) ==
  LET s == <<a, current[a] + 1>>
  IN  /\ current[a] < MaxVersions
      /\ seat' = [seat EXCEPT ![s] = "ACTIVE"]
      /\ lifecycle' = [lifecycle EXCEPT ![s] = "ACTIVE"]
      /\ expiresAt' = [expiresAt EXCEPT ![s] = now + capacity.validity]
      /\ current' = [current EXCEPT ![a] = @ + 1]
      /\ job' = [job EXCEPT ![s] = [NoJob EXCEPT !.status = "PENDING"]]
      /\ UNCHANGED <<acceptance, capacity>>

(* A new version of the offer of a, with its reservation and expiry job. *)
IssueVersion(a, now) ==
  LET s == <<a, current[a] + 1>>
      deadline == now + capacity.validity
  IN  /\ current[a] < MaxVersions
      /\ seat' = [seat EXCEPT ![s] = "ACTIVE"]
      /\ lifecycle' = [lifecycle EXCEPT ![s] = "ACTIVE"]
      /\ expiresAt' = [expiresAt EXCEPT ![s] = deadline]
      /\ current' = [current EXCEPT ![a] = @ + 1]
      /\ capacity' = [capacity EXCEPT !.version = @ + 1]
      /\ job' = [job EXCEPT ![s] = [NoJob EXCEPT !.status = "PENDING"]]
      /\ UNCHANGED acceptance

EndVersion_KeepsSeat(a, outcome) ==
  /\ lifecycle' = [lifecycle EXCEPT ![Cur(a)] = outcome]
  /\ UNCHANGED <<seat, capacity, expiresAt, current, acceptance>>

(* The current version of a ends and gives its seat up (releaseReservation). *)
EndVersion(a, outcome) ==
  /\ lifecycle' = [lifecycle EXCEPT ![Cur(a)] = outcome]
  /\ IF seat[Cur(a)] = "ACTIVE"
     THEN /\ seat' = [seat EXCEPT ![Cur(a)] = "RELEASED"]
          /\ capacity' = [capacity EXCEPT !.version = @ + 1]
     ELSE UNCHANGED <<seat, capacity>>
  /\ UNCHANGED <<expiresAt, current, acceptance>>

-----------------------------------------------------------------------------
(* Commits *)

Approve(p) ==
  LET a == tx[p].app
  IN  /\ At(p, {"APROBADO"}, "appLocked") /\ Unblocked(p)
      /\ Reservable(p, a)
      /\ decision' = [decision EXCEPT ![a] = "APROBADO"]
      /\ IssueVersion(a, tx[p].now)
      /\ Leave(p)
      /\ UNCHANGED <<appStatus, waitVars, clock, faults>>

PutOnWaitlist(p) ==
  LET a == tx[p].app
  IN  /\ At(p, {"LISTA_DE_ESPERA"}, "appLocked")
      /\ decision' = [decision EXCEPT ![a] = "LISTA_DE_ESPERA"]
      /\ entry' = [entry EXCEPT ![a] = "ACTIVE"]
      /\ enteredAt' = [enteredAt EXCEPT ![a] = tx[p].now]
      /\ Leave(p)
      /\ UNCHANGED <<appStatus, capacity, offerVars, job, clock, faults>>

Reject(p) ==
  /\ At(p, {"RECHAZADO"}, "appLocked")
  /\ decision' = [decision EXCEPT ![tx[p].app] = "RECHAZADO"]
  /\ Leave(p)
  /\ UNCHANGED <<appStatus, waitVars, capacity, offerVars, job, clock, faults>>

Promote(p) ==
  LET a == tx[p].app
  IN  /\ At(p, {"promote"}, "capLocked") /\ Unblocked(p)
      /\ IssueVersion(a, tx[p].now)
      /\ entry' = [entry EXCEPT ![a] = "PROMOTED"]
      /\ Leave(p)
      /\ UNCHANGED <<appStatus, decision, enteredAt, clock, faults>>

Accept(p) ==
  LET a == tx[p].app
  IN  /\ At(p, {"accept"}, "appLocked") /\ Unblocked(p)
      /\ lifecycle' = [lifecycle EXCEPT ![Cur(a)] = "ACCEPTED"]
      /\ acceptance' = [acceptance EXCEPT ![a] = current[a]]
      /\ seat' = [seat EXCEPT ![Cur(a)] = "COMMITTED"]
      /\ capacity' = [capacity EXCEPT !.version = @ + 1]
      /\ Leave(p)
      /\ UNCHANGED <<appStatus, decision, waitVars, expiresAt, current, job,
                     clock, faults>>

Decline(p) ==
  /\ At(p, {"decline"}, "appLocked") /\ Unblocked(p)
  /\ EndVersion(tx[p].app, "DECLINED")
  /\ Leave(p)
  /\ UNCHANGED <<appStatus, decision, waitVars, job, clock, faults>>

Reopen(p) ==
  LET a == tx[p].app
  IN  /\ At(p, {"reopen"}, "appLocked") /\ Unblocked(p)
      /\ VersionSeen(p) /\ SeatAvailable
      /\ IssueVersion(a, tx[p].now)
      /\ Leave(p)
      /\ UNCHANGED <<appStatus, decision, waitVars, clock, faults>>

Withdraw_KeepsEntry(p) ==
  LET a == tx[p].app
  IN  /\ At(p, {"withdraw"}, "appLocked") /\ Unblocked(p)
      /\ appStatus' = [appStatus EXCEPT ![a] = "WITHDRAWN"]
      /\ IF CurrentIs(a, {"ACTIVE"})
         THEN EndVersion(a, "DECLINED")
         ELSE UNCHANGED <<capacity, offerVars>>
      /\ Leave(p)
      /\ UNCHANGED <<decision, waitVars, job, clock, faults>>

Withdraw(p) ==
  LET a == tx[p].app
  IN  /\ At(p, {"withdraw"}, "appLocked") /\ Unblocked(p)
      /\ appStatus' = [appStatus EXCEPT ![a] = "WITHDRAWN"]
      /\ IF CurrentIs(a, {"ACTIVE"})
         THEN EndVersion(a, "DECLINED")
         ELSE UNCHANGED <<capacity, offerVars>>
      /\ entry' = [entry EXCEPT ![a] = IF @ = "ACTIVE" THEN "WITHDRAWN" ELSE @]
      /\ Leave(p)
      /\ UNCHANGED <<decision, enteredAt, job, clock, faults>>

(* The version expires; the worker still has to acknowledge the job. *)
Expire(w) ==
  /\ At(w, {"expire"}, "appLocked") /\ Unblocked(w)
  /\ EndVersion(tx[w].app, "EXPIRED")
  /\ MoveTo(w, "done")
  /\ UNCHANGED <<appStatus, decision, waitVars, job, clock, faults>>

SkipExpiry(w) ==
  /\ At(w, {"expire"}, "begun") /\ Unblocked(w)
  /\ ~Allowed(w)
  /\ MoveTo(w, "done")
  /\ UNCHANGED <<appStatus, decision, waitVars, capacity, offerVars, job,
                 clock, faults>>

CreateCapacity(p) ==
  /\ tx[p] = Idle
  /\ capacity.version = 0
  /\ \E n \in Capacities, d \in Validities :
       capacity' = [configured |-> n, validity |-> d, version |-> 1]
  /\ UNCHANGED <<appStatus, decision, waitVars, offerVars, job, clock, faults, tx>>

AdjustCapacity_AnySize(p) ==
  /\ At(p, {"adjust"}, "begun") /\ Unblocked(p)
  /\ VersionSeen(p)
  /\ \E n \in Capacities, d \in Validities :
       capacity' = IF n = capacity.configured /\ d = capacity.validity
                    THEN capacity
                    ELSE [configured |-> n, validity |-> d,
                          version |-> capacity.version + 1]
  /\ Leave(p)
  /\ UNCHANGED <<appStatus, decision, waitVars, offerVars, job, clock, faults>>

AdjustCapacity(p) ==
  /\ At(p, {"adjust"}, "begun") /\ Unblocked(p)
  /\ VersionSeen(p)
  /\ \E n \in Capacities, d \in Validities :
       /\ n >= Cardinality(Consumed)
       /\ capacity' = IF n = capacity.configured /\ d = capacity.validity
                      THEN capacity
                      ELSE [configured |-> n, validity |-> d,
                            version |-> capacity.version + 1]
  /\ Leave(p)
  /\ UNCHANGED <<appStatus, decision, waitVars, offerVars, job, clock, faults>>

(* A check fails under its lock: the request ends and changes nothing. *)
Refused(p) ==
  /\ p \in Sessions
  /\ Unblocked(p)
  /\ LET a == tx[p].app
     IN  \/ At(p, AppOps, "begun") /\ ~Allowed(p)
         \/ /\ At(p, {"promote"}, "begun")
            /\ entry[a] # "ACTIVE" \/ appStatus[a] = "WITHDRAWN" \/ ~IsFirst(a)
         \/ /\ At(p, {"promote"}, "entryLocked")
            /\ ~VersionSeen(p) \/ ~Reservable(p, a)
         \/ At(p, {"APROBADO"}, "appLocked") /\ ~Reservable(p, a)
         \/ /\ At(p, {"reopen"}, "appLocked")
            /\ ~VersionSeen(p) \/ ~SeatAvailable
         \/ /\ At(p, {"adjust"}, "begun")
            /\ \/ ~VersionSeen(p)
               \/ \E n \in Capacities : n < Cardinality(Consumed)
  /\ Leave(p)
  /\ UNCHANGED <<appStatus, decision, waitVars, capacity, offerVars, job,
                 clock, faults>>

-----------------------------------------------------------------------------
(* Failures, the acknowledgement of a job, and time *)

(* A request is rolled back: a time-out, a lost connection, a failed       *)
(* authority check, or the choice of the database's deadlock detector.     *)
Abort(p) ==
  /\ p \in Sessions
  /\ tx[p].step # "idle"
  /\ Leave(p)
  /\ UNCHANGED <<appStatus, decision, waitVars, capacity, offerVars, job,
                 clock, faults>>

OwnJob(w) == <<tx[w].app, tx[w].version>>
StillOwner(w) == job[OwnJob(w)].status = "PROCESSING" /\ job[OwnJob(w)].owner = w

(* markSent, fenced by claimed_at *)
MarkSent(w) ==
  /\ At(w, {"expire"}, "done")
  /\ job' = IF StillOwner(w) THEN [job EXCEPT ![OwnJob(w)].status = "SENT"] ELSE job
  /\ Leave(w)
  /\ UNCHANGED <<appStatus, decision, waitVars, capacity, offerVars, clock, faults>>

DeliveryFails_OneAttemptLess(w) ==
  /\ tx[w].op = "expire" /\ tx[w].step \in {"begun", "appLocked", "done"}
  /\ faults < MaxFaults
  /\ faults' = faults + 1
  /\ LET next == IF job[OwnJob(w)].attempts + 1 >= MaxAttempts THEN "FAILED" ELSE "PENDING"
     IN  job' = IF StillOwner(w) THEN [job EXCEPT ![OwnJob(w)].status = next] ELSE job
  /\ Leave(w)
  /\ UNCHANGED <<appStatus, decision, waitVars, capacity, offerVars, clock>>

(* The delivery throws: requeueAfterFailure, or markFailed at the last one. *)
DeliveryFails(w) ==
  /\ tx[w].op = "expire" /\ tx[w].step \in {"begun", "appLocked", "done"}
  /\ faults < MaxFaults
  /\ faults' = faults + 1
  /\ LET next == IF job[OwnJob(w)].attempts >= MaxAttempts THEN "FAILED" ELSE "PENDING"
     IN  job' = IF StillOwner(w) THEN [job EXCEPT ![OwnJob(w)].status = next] ELSE job
  /\ Leave(w)
  /\ UNCHANGED <<appStatus, decision, waitVars, capacity, offerVars, clock>>

Crash(w) ==
  /\ tx[w].op = "expire"
  /\ faults < MaxFaults
  /\ faults' = faults + 1
  /\ Leave(w)
  /\ UNCHANGED <<appStatus, decision, waitVars, capacity, offerVars, job, clock>>

Tick ==
  /\ clock < MaxTime
  /\ clock' = clock + 1
  /\ UNCHANGED <<appStatus, decision, waitVars, capacity, offerVars, job, faults, tx>>

-----------------------------------------------------------------------------
Advance(p) ==
  \/ LockApplication(p) \/ LockWaitlistEntry(p) \/ LockCapacity(p)
  \/ Approve(p) \/ PutOnWaitlist(p) \/ Reject(p) \/ Promote(p)
  \/ Accept(p) \/ Decline(p) \/ Reopen(p) \/ Withdraw(p) \/ AdjustCapacity(p)
  \/ Refused(p)

AdvanceExpiry(w) == LockApplication(w) \/ Expire(w) \/ SkipExpiry(w) \/ MarkSent(w)

Request(p) ==
  \/ CreateCapacity(p) \/ BeginAdjustment(p)
  \/ \E a \in Apps : \/ BeginDecision(p, a) \/ BeginPromotion(p, a)
                     \/ BeginResponse(p, a) \/ BeginReopening(p, a)
                     \/ BeginWithdrawal(p, a)

Next ==
  \/ \E p \in Sessions : Request(p) \/ Advance(p) \/ Abort(p)
  \/ \E w \in Workers : \/ \E s \in Slots : BeginExpiry(w, s)
                        \/ AdvanceExpiry(w) \/ DeliveryFails(w) \/ Crash(w)
  \/ Tick

Spec == Init /\ [][Next]_vars

(* Row locks are granted in the order they are asked for, so a transaction *)
(* that can advance again and again does; the deadlock detector of the     *)
(* database ends a wait that cannot end; a worker polls until it is told   *)
(* to stop; and time passes.                                               *)
Fairness ==
  /\ WF_vars(Tick)
  /\ \A p \in Sessions : SF_vars(Advance(p)) /\ WF_vars(Deadlocked(p) /\ Abort(p))
  /\ \A w \in Workers : /\ SF_vars(AdvanceExpiry(w))
                        /\ WF_vars(\E s \in Slots : BeginExpiry(w, s))

FairSpec == Spec /\ Fairness

-----------------------------------------------------------------------------
(* Properties *)

Job == [status : {"NONE", "PENDING", "PROCESSING", "SENT", "FAILED"},
        attempts : Nat, owner : Workers \cup {"nobody"}]
Tx == [op : Ops, step : Steps, app : Apps \cup {NoApp}, now : Nat,
       status : Statuses, capVersion : Nat, version : Nat]

(* Every row and every transaction has its shape. *)
TypeOK ==
  /\ appStatus \in [Apps -> Statuses]
  /\ decision \in [Apps -> FinalDispositions \cup {"NONE"}]
  /\ entry \in [Apps -> {"NONE", "ACTIVE", "PROMOTED", "WITHDRAWN"}]
  /\ enteredAt \in [Apps -> Nat]
  /\ capacity \in [configured : Nat, validity : Nat, version : Nat]
  /\ seat \in [Slots -> {"NONE", "ACTIVE", "COMMITTED", "RELEASED"}]
  /\ lifecycle \in [Slots -> {"NONE", "ACTIVE", "ACCEPTED", "DECLINED", "EXPIRED"}]
  /\ expiresAt \in [Slots -> Nat]
  /\ current \in [Apps -> 0..MaxVersions]
  /\ acceptance \in [Apps -> 0..MaxVersions]
  /\ job \in [Slots -> Job]
  /\ clock \in Nat
  /\ faults \in Nat
  /\ tx \in [Procs -> Tx]

(* The reservations that consume a seat never outnumber the configured     *)
(* capacity, whatever approvals, promotions, reopenings and adjustments    *)
(* race for the last seat.                                                 *)
NoOverbooking == Cardinality(Consumed) <= capacity.configured

(* An offer version and its reservation always tell the same story: no     *)
(* race leaves an ACTIVE offer without a held seat, an accepted one        *)
(* without a committed seat, or a dead one that still holds a seat.        *)
SeatMatchesOffer ==
  \A s \in Slots :
    /\ lifecycle[s] = "ACTIVE" <=> seat[s] = "ACTIVE"
    /\ lifecycle[s] = "ACCEPTED" <=> seat[s] = "COMMITTED"
    /\ lifecycle[s] \in {"DECLINED", "EXPIRED"} <=> seat[s] = "RELEASED"

(* Only the current version of an offer can be open or accepted, and the   *)
(* acceptance row names exactly the accepted version: accept, decline,     *)
(* withdraw, expire and reopen leave one durable outcome, and an accepted  *)
(* application is never withdrawn.                                         *)
OneOutcomePerOffer ==
  \A s \in Slots :
    /\ lifecycle[s] \in {"ACTIVE", "ACCEPTED"} => s[2] = current[s[1]]
    /\ lifecycle[s] = "ACCEPTED" <=> acceptance[s[1]] = s[2]
    /\ lifecycle[s] = "ACCEPTED" => appStatus[s[1]] # "WITHDRAWN"

(* A waiting-list entry follows its application: PROMOTED only with an     *)
(* offer, WITHDRAWN only with the application, and an ACTIVE one belongs   *)
(* to a submitted application that waits and has no offer.                 *)
WaitlistMatchesApplication ==
  \A a \in Apps :
    /\ entry[a] = "ACTIVE" =>
         /\ decision[a] = "LISTA_DE_ESPERA"
         /\ appStatus[a] = "SUBMITTED"
         /\ ~HasOffer(a)
    /\ entry[a] = "PROMOTED" => HasOffer(a)
    /\ entry[a] = "WITHDRAWN" => appStatus[a] = "WITHDRAWN" /\ ~HasOffer(a)

(* What a transaction checked under its locks still holds until it commits:*)
(* the offer that is being answered or expired stays open, and the seat a  *)
(* promotion found stays free while it waits for the application.          *)
ChecksHoldUntilCommit ==
  \A p \in Procs :
    /\ At(p, {"accept", "decline", "expire"}, "appLocked") =>
         CurrentIs(tx[p].app, {"ACTIVE"})
    /\ tx[p].step = "capLocked" => SeatAvailable /\ capacity.version # 0

(* Two requests can wait for each other in one way only: a promotion that  *)
(* has the waiting-list entry and a withdrawal that has the application.   *)
(* Any other set of waiting requests has a member that can go on.          *)
OnlyPromotionAndWithdrawalDeadlock ==
  /\ \A p, q \in Procs :
       BlockedBy(p, q) /\ BlockedBy(q, p) => {tx[p].op, tx[q].op} = {"promote", "withdraw"}
  /\ (\E p \in Procs : tx[p].step # "idle") =>
       \E p \in Procs : tx[p].step # "idle" /\ (Unblocked(p) \/ Deadlocked(p))

(* The seats of the offering are the ledger the component promises. *)
Ledger == INSTANCE SeatLedger WITH
  Seats <- Slots,
  cap <- capacity.configured,
  version <- capacity.version,
  held <- {s \in Slots : seat[s] = "ACTIVE"},
  committed <- {s \in Slots : seat[s] = "COMMITTED"},
  released <- {s \in Slots : seat[s] = "RELEASED"}

(* Every step of the component is an entry of the ledger or none. *)
ImplementsLedger == Ledger!Spec

(* An offer past its deadline does not stay open: if fewer deliveries fail *)
(* than the worker attempts, its seat is eventually free for others.       *)
OverdueOfferEnds ==
  \A s \in Slots :
    (lifecycle[s] = "ACTIVE" /\ expiresAt[s] <= clock) ~> (lifecycle[s] # "ACTIVE")

-----------------------------------------------------------------------------
(* What the documents say and the code does not do *)

(* A confirmed withdrawal releases any reservation: a withdrawn            *)
(* application holds no seat.                                              *)
WithdrawnHoldsNoSeat ==
  \A s \in Consumed : appStatus[s[1]] # "WITHDRAWN"

(* Promotion takes the first entry of the waiting list: nobody who entered *)
(* earlier is still waiting when it commits.                               *)
NobodyIsOvertaken ==
  [][\A a, b \in Apps :
       /\ entry[a] = "ACTIVE" /\ entry'[a] = "PROMOTED"
       /\ entry[b] = "ACTIVE"
       => enteredAt[a] <= enteredAt[b]]_vars
=============================================================================
