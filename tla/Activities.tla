------------------------------ MODULE Activities ------------------------------
(***************************************************************************)
(* One activity definition of a tenant (interview or diagnostic            *)
(* evaluation), the policy that says who may carry it out, the activity    *)
(* the submission of ONE application pins, and its appointments:           *)
(* packages/database/src/activities.ts and activity-policy.ts, the routes  *)
(* of activity.controller.ts and the portal's activity-workflows.tsx.      *)
(*                                                                         *)
(* The operations on an activity hold its row lock, so each is one step;   *)
(* what varies is the screen they start from.  The operations on versions  *)
(* and on the policy read first and write later, without a lock in         *)
(* between: they are two steps of the administrator who runs them.         *)
(***************************************************************************)
EXTENDS Integers, Sequences, FiniteSets

CONSTANTS
  Admins,        \* administrators who edit the catalogue and the policy
  Executors,     \* staff members who may be primary or backup
  Kind,          \* activity_definitions.kind
  Limits,        \* values of maxNormalReschedules in use
  Scopes,        \* scopes in use: "tenant", "offering" or "other"
  Budgets,       \* bounds: records [edits, appointments, requests, ready]
  MaxVersions    \* bound: versions of the definition

ASSUME ActivityBounds ==
  /\ Limits \subseteq Nat
  /\ MaxVersions \in Nat \ {0}
  /\ Scopes \subseteq {"tenant", "offering", "other"}
  /\ Kind \in {"GUARDIAN_INTERVIEW", "DIAGNOSTIC_EVALUATION"}

None == 0
Nobody == "nobody"
Outcomes == {"REALIZADA", "INASISTENCIA", "NO_COMPLETADA"}

VARIABLES
  versions,    \* the definition's versions, in order of version number
  policy,      \* the tenant's policy for Kind, NoPolicy at first
  able,        \* executors whose membership is active and holds activity.perform
  admin,       \* what each administrator is in the middle of
  shown,       \* the policy version on each administrator's screen
  submitted,   \* applications.activities_pinned_at is set
  pinned,      \* the pinned version, None when no version applied
  status,      \* application_activities.status
  current,     \* application_activities.current_appointment_id
  appointments,\* activity_appointments, in order of sequence
  attempts,    \* activity_attempts, in order of sequence
  requests,    \* activity_reschedule_requests, in order of creation
  staffScreen, \* the appointment StaffActivityWorkspace shows
  familyScreen,\* the card FamilyActivityWorkspace shows
  budget       \* what is left of the bounds

catalogueVars == <<versions, policy, able, admin, shown>>
activityVars == <<status, current, appointments, attempts, requests>>
screens == <<staffScreen, familyScreen>>
vars == <<catalogueVars, submitted, pinned, activityVars, screens, budget>>

NoPolicy == [version |-> 0, primary |-> Nobody, backup |-> Nobody]
Idle == [op |-> "none"]
NoCard == [appointment |-> None, form |-> FALSE]

Spend(what) == budget[what] > 0 /\ budget' = [budget EXCEPT ![what] = @ - 1]

(* A tenant that starts its catalogue, or one with a published version and *)
(* a policy that is ready.                                                  *)
Init ==
  /\ budget \in Budgets
  /\ IF budget.ready
     THEN /\ \E n \in Limits : versions = <<[lifecycle |-> "PUBLISHED", limit |-> n, scope |-> "tenant"]>>
          /\ \E p, b \in Executors : p # b /\ policy = [version |-> 1, primary |-> p, backup |-> b]
     ELSE versions = <<>> /\ policy = NoPolicy
  /\ able = Executors
  /\ admin = [a \in Admins |-> Idle]
  /\ shown = [a \in Admins |-> 0]
  /\ submitted = FALSE
  /\ pinned = None
  /\ status = "PENDIENTE"
  /\ current = None
  /\ appointments = <<>>
  /\ attempts = <<>>
  /\ requests = <<>>
  /\ staffScreen = None
  /\ familyScreen = NoCard

-----------------------------------------------------------------------------
(* Who may carry the activity out *)

(* throwForPolicyReadiness: both executors, not only the one assigned. *)
PolicyReady == policy # NoPolicy /\ {policy.primary, policy.backup} \subseteq able

MayBeAssigned(e) == PolicyReady /\ e \in {policy.primary, policy.backup}

CanPerform(e) == e \in able

EligibleExecutors == {e \in Executors : CanPerform(e)}

(* An explicit duration needs no policy; the default is the policy's. *)
DurationResolved(override) == override \/ policy # NoPolicy

(* An executor loses or regains the membership or the permission. *)
ChangeMembership(e) ==
  /\ Spend("edits")
  /\ able' = IF e \in able THEN able \ {e} ELSE able \cup {e}
  /\ UNCHANGED <<versions, policy, admin, shown, submitted, pinned, activityVars, screens>>

-----------------------------------------------------------------------------
(* putPolicy: candidates are checked first, then the tenant row is locked *)

LoadPolicy(a) ==
  /\ shown' = [shown EXCEPT ![a] = policy.version]
  /\ UNCHANGED <<versions, policy, able, admin, submitted, pinned, activityVars, screens, budget>>

(* savePolicy of the portal sends expectedVersion only when its screen     *)
(* shows a policy, and only two different executors.                       *)
PolicyForms(a) ==
  {f \in [op : {"policy"}, primary : Executors, backup : Executors, expected : {shown[a]}] : f.primary # f.backup}

CheckCandidates(a) ==
  /\ admin[a] = Idle
  /\ Spend("edits")
  /\ \E f \in PolicyForms(a) :
       /\ {f.primary, f.backup} \subseteq EligibleExecutors
       /\ admin' = [admin EXCEPT ![a] = f]
  /\ UNCHANGED <<versions, policy, able, shown, submitted, pinned, activityVars, screens>>

PolicyWritable(expected) == policy.version = expected

WritePolicy(a) ==
  /\ admin[a].op = "policy"
  /\ policy' = IF PolicyWritable(admin[a].expected)
                 THEN [version |-> policy.version + 1, primary |-> admin[a].primary, backup |-> admin[a].backup]
                 ELSE policy
  /\ admin' = [admin EXCEPT ![a] = Idle]
  /\ UNCHANGED <<versions, able, shown, submitted, pinned, activityVars, screens, budget>>

-----------------------------------------------------------------------------
(* Versions of the definition: read by id, then written by id *)

(* What the form of a new version sends. *)
VersionForms == [op : {"create"}, number : {Len(versions) + 1}, limit : Limits, scope : Scopes]

(* createVersion reads the last number, and inserts the next one later. *)
ReadLatest(a) ==
  /\ admin[a] = Idle
  /\ Len(versions) < MaxVersions
  /\ Spend("edits")
  /\ \E f \in VersionForms, override \in BOOLEAN :
       /\ DurationResolved(override)
       /\ admin' = [admin EXCEPT ![a] = f]
  /\ UNCHANGED <<versions, policy, able, shown, submitted, pinned, activityVars, screens>>

(* A number taken in the meantime breaks the unique key: the insert fails. *)
InsertVersion(a) ==
  /\ admin[a].op = "create"
  /\ versions' = IF admin[a].number = Len(versions) + 1
                   THEN Append(versions, [lifecycle |-> "DRAFT", limit |-> admin[a].limit, scope |-> admin[a].scope])
                   ELSE versions
  /\ admin' = [admin EXCEPT ![a] = Idle]
  /\ UNCHANGED <<policy, able, shown, submitted, pinned, activityVars, screens, budget>>

(* Three operations find the row in the lifecycle they need. *)
Find(a, v, lifecycle) ==
  /\ admin[a] = Idle
  /\ versions[v].lifecycle = lifecycle
  /\ Spend("edits")
  /\ UNCHANGED <<versions, policy, able, shown, submitted, pinned, activityVars, screens>>

UpdateDraftVersion(a, v) ==
  /\ Find(a, v, "DRAFT")
  /\ \E n \in Limits, override \in BOOLEAN :
       /\ DurationResolved(override)
       /\ admin' = [admin EXCEPT ![a] = [op |-> "update", version |-> v, limit |-> n]]

PublishVersion(a, v) ==
  /\ Find(a, v, "DRAFT")
  /\ PolicyReady
  /\ admin' = [admin EXCEPT ![a] = [op |-> "publish", version |-> v]]

ArchiveVersion(a, v) ==
  /\ Find(a, v, "PUBLISHED")
  /\ admin' = [admin EXCEPT ![a] = [op |-> "archive", version |-> v]]

(* The trigger admission_guard_activity_definition_version_history. *)
Writable_Always(old, new) == TRUE
Writable(old, new) ==
  old.lifecycle = "DRAFT" \/ (old.lifecycle = "PUBLISHED" /\ new = [old EXCEPT !.lifecycle = "ARCHIVED"])

Changed(row, change) ==
  CASE change.op = "update"  -> [row EXCEPT !.limit = change.limit]
    [] change.op = "publish" -> [row EXCEPT !.lifecycle = "PUBLISHED"]
    [] change.op = "archive" -> [row EXCEPT !.lifecycle = "ARCHIVED"]

WriteVersion(a) ==
  /\ admin[a].op \in {"update", "publish", "archive"}
  /\ LET v == admin[a].version
         row == Changed(versions[v], admin[a])
     IN versions' = IF Writable(versions[v], row) THEN [versions EXCEPT ![v] = row] ELSE versions
  /\ admin' = [admin EXCEPT ![a] = Idle]
  /\ UNCHANGED <<policy, able, shown, submitted, pinned, activityVars, screens, budget>>

-----------------------------------------------------------------------------
(* pinApplicationActivities, in the transaction that submits the application *)

ScopeMatches(v) == versions[v].scope # "other"

Applicable == {v \in DOMAIN versions : versions[v].lifecycle = "PUBLISHED" /\ ScopeMatches(v)}

Specificity(v) == IF versions[v].scope = "offering" THEN 1 ELSE 0

(* Most specific scope first, then the highest version number. *)
Preferred(v, w) ==
  Specificity(v) > Specificity(w) \/ (Specificity(v) = Specificity(w) /\ v >= w)

PinApplicationActivities ==
  /\ ~submitted
  /\ submitted' = TRUE
  /\ IF Applicable = {}
     THEN pinned' = None
     ELSE PolicyReady /\ pinned' = CHOOSE v \in Applicable : \A w \in Applicable : Preferred(v, w)
  /\ UNCHANGED <<catalogueVars, activityVars, screens, budget>>

-----------------------------------------------------------------------------
(* Staff: the activity row is locked, the appointment must be the one seen *)

StaffLoad ==
  /\ pinned # None
  /\ staffScreen' = current
  /\ UNCHANGED <<catalogueVars, submitted, pinned, activityVars, familyScreen, budget>>

(* What StaffActions offers for the appointment on the screen; completing, *)
(* repeating and closing have a route and no button.                       *)
StaffActions(shownAppointment) ==
  {"complete", "repeat", "close"} \cup
  (IF shownAppointment = None THEN {"schedule"} ELSE {"reprogram", "noShow", "notCompleted"})

NewAppointment(e) == [status |-> "PROGRAMADA", previous |-> current, user |-> e]

(* The new appointment becomes the current one. *)
Book(e, changedAppointments) ==
  /\ Spend("appointments")
  /\ appointments' = Append(changedAppointments, NewAppointment(e))
  /\ current' = Len(appointments) + 1
  /\ status' = "PROGRAMADA"
  /\ UNCHANGED <<catalogueVars, submitted, pinned, attempts, screens>>

Open == pinned # None /\ status # "CERRADA"

Schedule(e) ==
  /\ Open
  /\ "schedule" \in StaffActions(staffScreen)
  /\ MayBeAssigned(e)
  /\ current = None
  /\ Book(e, appointments)
  /\ UNCHANGED requests

Reschedules == {i \in DOMAIN appointments : appointments[i].status = "REPROGRAMADA"}

BelowLimit_OffByOne == Cardinality(Reschedules) <= versions[pinned].limit
BelowLimit == Cardinality(Reschedules) < versions[pinned].limit

IsCurrent(shownAppointment) == current # None /\ current = shownAppointment

(* The status of the old appointment is not looked at.  A request is       *)
(* fulfilled only when the caller names it: the portal never does.         *)
Reprogram(e) ==
  /\ Open
  /\ "reprogram" \in StaffActions(staffScreen)
  /\ MayBeAssigned(e)
  /\ IsCurrent(staffScreen)
  /\ BelowLimit
  /\ Book(e, [appointments EXCEPT ![current].status = "REPROGRAMADA"])
  /\ \/ UNCHANGED requests
     \/ \E r \in DOMAIN requests :
          /\ requests[r] = [appointment |-> current, fulfilled |-> None]
          /\ requests' = [requests EXCEPT ![r].fulfilled = current']

StillScheduled_NotChecked == TRUE
StillScheduled == appointments[current].status = "PROGRAMADA"

(* The three recording routes fix the outcome. *)
Route(outcome) ==
  CASE outcome = "REALIZADA" -> "complete" [] outcome = "INASISTENCIA" -> "noShow"
    [] outcome = "NO_COMPLETADA" -> "notCompleted"

ValidInput(outcome, justified) == justified => outcome = "INASISTENCIA"

(* The executor must be the assigned one.  The time of a no-show comes from *)
(* the caller, so the tolerance is not modelled.                           *)
RecordOutcome(outcome, justified) ==
  /\ Open
  /\ Route(outcome) \in StaffActions(staffScreen)
  /\ ValidInput(outcome, justified)
  /\ IsCurrent(staffScreen)
  /\ StillScheduled
  /\ CanPerform(appointments[current].user)
  /\ attempts' = Append(attempts, [appointment |-> current, outcome |-> outcome, justified |-> justified])
  /\ appointments' = [appointments EXCEPT ![current].status = outcome]
  /\ status' = outcome
  /\ UNCHANGED <<catalogueVars, submitted, pinned, current, requests, screens, budget>>

(* The last attempt must be NO_COMPLETADA; the current appointment may be  *)
(* the repetition already booked after it.                                 *)
Repeat(e) ==
  /\ Open
  /\ MayBeAssigned(e)
  /\ Kind = "DIAGNOSTIC_EVALUATION"
  /\ attempts # <<>> /\ attempts[Len(attempts)].outcome = "NO_COMPLETADA"
  /\ IsCurrent(staffScreen)
  /\ Book(e, appointments)
  /\ UNCHANGED requests

UnjustifiedNoShows == {i \in DOMAIN attempts : attempts[i].outcome = "INASISTENCIA" /\ ~attempts[i].justified}

NothingScheduled_NotChecked == TRUE
NothingScheduled == current # None => appointments[current].status # "PROGRAMADA"

CloseActivityAfterNoShows ==
  /\ pinned # None
  /\ NothingScheduled
  /\ Cardinality(UnjustifiedNoShows) >= 2
  /\ status' = "CERRADA"
  /\ UNCHANGED <<catalogueVars, submitted, pinned, current, appointments, attempts, requests, screens, budget>>

-----------------------------------------------------------------------------
(* Family *)

Pending == {r \in DOMAIN requests : requests[r].fulfilled = None}

(* The card shows the form when there is an appointment, the activity is   *)
(* not closed and NO request of the activity is pending.                   *)
FamilyCard ==
  [appointment |-> current, form |-> current # None /\ status # "CERRADA" /\ Pending = {}]

FamilyLoad ==
  /\ pinned # None
  /\ familyScreen' = FamilyCard
  /\ UNCHANGED <<catalogueVars, submitted, pinned, activityVars, staffScreen, budget>>

RequestChange == familyScreen.form /\ familyScreen.appointment # None

(* The service checks neither the status nor an earlier request. *)
RequestFamilyReschedule ==
  /\ RequestChange
  /\ IsCurrent(familyScreen.appointment)
  /\ Spend("requests")
  /\ requests' = Append(requests, [appointment |-> current, fulfilled |-> None])
  /\ UNCHANGED <<catalogueVars, submitted, pinned, status, current, appointments, attempts, screens>>

-----------------------------------------------------------------------------
Next ==
  \/ \E e \in Executors : ChangeMembership(e) \/ Schedule(e) \/ Reprogram(e) \/ Repeat(e)
  \/ \E a \in Admins :
       \/ LoadPolicy(a)
       \/ CheckCandidates(a)
       \/ WritePolicy(a)
       \/ ReadLatest(a)
       \/ InsertVersion(a)
       \/ \E v \in DOMAIN versions : UpdateDraftVersion(a, v) \/ PublishVersion(a, v) \/ ArchiveVersion(a, v)
       \/ WriteVersion(a)
  \/ PinApplicationActivities
  \/ StaffLoad
  \/ \E outcome \in Outcomes, justified \in BOOLEAN : RecordOutcome(outcome, justified)
  \/ CloseActivityAfterNoShows
  \/ FamilyLoad
  \/ RequestFamilyReschedule

Spec == Init /\ [][Next]_vars

-----------------------------------------------------------------------------
(* The status of the activity is that of its newest appointment until it is *)
(* closed, and nothing is still scheduled in a closed activity: however     *)
(* stale the screens, recording, reprogramming and repeating always work on *)
(* the newest one.                                                          *)
StatusFollowsAppointment ==
  /\ current = Len(appointments)
  /\ status # "CERRADA" => status = IF current = None THEN "PENDIENTE" ELSE appointments[current].status
  /\ status = "CERRADA" => appointments[current].status # "PROGRAMADA"

(* The attempts are the evidence: an appointment has at most one, and once  *)
(* it has one it shows that outcome unless it was reprogrammed afterwards;  *)
(* an appointment never shows an outcome nobody recorded.                   *)
AttemptsExplainAppointments ==
  /\ \A i, j \in DOMAIN attempts : attempts[i].appointment = attempts[j].appointment => i = j
  /\ \A i \in DOMAIN attempts :
       appointments[attempts[i].appointment].status \in {attempts[i].outcome, "REPROGRAMADA"}
  /\ \A n \in DOMAIN appointments :
       appointments[n].status \in Outcomes => \E i \in DOMAIN attempts : attempts[i].appointment = n

(* Normal reschedules never exceed the limit of the pinned version, and the *)
(* limit itself cannot move under the application.                          *)
ReschedulesWithinLimit == pinned # None => Cardinality(Reschedules) <= versions[pinned].limit

(* A version that was published keeps its configuration for good, even when *)
(* an editor read it as a draft before the publication and writes after it. *)
PublishedIsFrozen ==
  [][\A v \in DOMAIN versions : versions[v].lifecycle # "DRAFT" =>
       versions'[v] \in {versions[v], [versions[v] EXCEPT !.lifecycle = "ARCHIVED"]}]_vars

(* docs/e1/08-pilot-operational-rules.md:89 -- the family may ask for a     *)
(* change from the portal: a card loaded now offers the form for an open    *)
(* appointment nobody has asked to change.                                  *)
FamilyMayAskForChange ==
  (current # None /\ status = "PROGRAMADA" /\ ~\E r \in Pending : requests[r].appointment = current)
    => FamilyCard.form
=============================================================================
