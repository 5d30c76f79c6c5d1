--------------------------- MODULE Activities_proofs ---------------------------
(***************************************************************************)
(* Proofs about Activities for every set of administrators and executors,  *)
(* every kind, limits, budgets and number of versions.  The inductive      *)
(* invariant adds to the properties what a screen cannot change: attempts  *)
(* are about appointments that exist, the pinned version was published,    *)
(* and nothing is booked before the application is submitted.              *)
(***************************************************************************)
EXTENDS Activities, FiniteSetTheorems, TLAPS

VersionRows == [lifecycle : {"DRAFT", "PUBLISHED", "ARCHIVED"}, limit : Limits,
                scope : {"tenant", "offering", "other"}]
AppointmentRows == [status : {"PROGRAMADA", "REPROGRAMADA"} \cup Outcomes, previous : Nat, user : Executors]
AttemptRows == [appointment : Nat, outcome : Outcomes, justified : BOOLEAN]

Rows ==
  /\ versions \in Seq(VersionRows)
  /\ appointments \in Seq(AppointmentRows)
  /\ attempts \in Seq(AttemptRows)
  /\ pinned \in Nat /\ current \in Nat /\ submitted \in BOOLEAN

(* What an administrator is in the middle of names a version that exists. *)
Edits ==
  /\ admin = [a \in Admins |-> admin[a]]
  /\ \A a \in Admins :
       /\ admin[a].op = "create" => admin[a].limit \in Limits /\ admin[a].scope \in Scopes
       /\ admin[a].op \in {"update", "publish", "archive"} => admin[a].version \in 1 .. Len(versions)
       /\ admin[a].op = "update" => admin[a].limit \in Limits

(* The pinned version was published, at the submission, before anything is *)
(* booked.                                                                 *)
Pinning ==
  /\ pinned # None => submitted /\ pinned \in 1 .. Len(versions) /\ versions[pinned].lifecycle # "DRAFT"
  /\ ~submitted => appointments = <<>>

AttemptsExist == \A i \in 1 .. Len(attempts) : attempts[i].appointment \in 1 .. Len(appointments)

IInv ==
  /\ Rows /\ Edits /\ Pinning /\ AttemptsExist
  /\ StatusFollowsAppointment /\ AttemptsExplainAppointments /\ ReschedulesWithinLimit

-----------------------------------------------------------------------------
(* A set of numbers has a least one, and a bounded one a greatest. *)
LEMMA Least == ASSUME NEW T \in SUBSET Nat, T # {} PROVE \E x \in T : \A y \in T : x <= y
<1>1. PICK R : R = {ss \in Nat \X Nat : ss[1] < ss[2]}
  OBVIOUS
<1>2. \A x, y \in Nat : x < y => <<x, y>> \in R
  BY <1>1
<1>3. IsWellFoundedOn({ss \in Nat \X Nat : ss[1] < ss[2]}, Nat)
  BY ONLY NatLessThanWellFounded DEF OpToRel
<1>4. IsWellFoundedOn(R, Nat)
  BY <1>1, <1>3
<1>5. PICK x \in T : \A y \in T : ~(<<y, x>> \in R)
  BY <1>4, WFMin
<1>6. ASSUME NEW y \in T PROVE x <= y
  <2>1. x \in Nat /\ y \in Nat
    OBVIOUS
  <2>2. ~(y < x)
    BY <1>2, <1>5, <2>1
  <2> QED BY <2>1, <2>2
<1> QED BY <1>6

LEMMA Greatest ==
  ASSUME NEW n \in Nat, NEW T \in SUBSET (1 .. n), T # {}
  PROVE  \E x \in T : \A y \in T : x >= y
<1>1. PICK D : D = {n - y : y \in T}
  OBVIOUS
<1>2. D \in SUBSET Nat /\ D # {}
  <2>1. \A y \in T : n - y \in Nat
    <3> TAKE y \in T
    <3>1. y \in 1 .. n
      OBVIOUS
    <3> QED BY <3>1
  <2> QED BY <1>1, <2>1
<1>3. PICK d \in D : \A e \in D : d <= e
  BY <1>2, Least
<1>4. PICK x \in T : d = n - x
  BY <1>1
<1>5. ASSUME NEW y \in T PROVE x >= y
  <2>1. d <= n - y
    BY <1>1, <1>3
  <2>2. x \in Nat /\ y \in Nat
    OBVIOUS
  <2> QED BY <1>4, <2>1, <2>2
<1> QED BY <1>5

(* Of the applicable versions one is preferred to all. *)
LEMMA PreferredExists ==
  ASSUME Rows, Applicable # {}
  PROVE  \E v \in Applicable : \A w \in Applicable : Preferred(v, w)
<1>1. PICK n \in Nat : n = Len(versions)
  BY DEF Rows
<1>2. Applicable \in SUBSET (1 .. n)
  BY <1>1 DEF Rows, Applicable
<1>3. \A v \in Applicable : Specificity(v) \in {0, 1}
  BY DEF Specificity
<1>4. PICK S : S = {v \in Applicable : Specificity(v) = 1}
  OBVIOUS
<1>5. CASE S # {}
  <2>1. PICK v \in S : \A w \in S : v >= w
    BY <1>2, <1>4, <1>5, Greatest
  <2> QED BY <1>3, <1>4, <2>1 DEF Preferred
<1>6. CASE S = {}
  <2>1. PICK v \in Applicable : \A w \in Applicable : v >= w
    BY <1>2, Greatest
  <2> QED BY <1>3, <1>4, <1>6, <2>1 DEF Preferred
<1> QED BY <1>5, <1>6

LEMMA InitHolds == Init => IInv
<1> SUFFICES ASSUME Init PROVE IInv
  OBVIOUS
<1>1. /\ appointments = <<>> /\ attempts = <<>> /\ pinned = None /\ current = None /\ submitted = FALSE
      /\ status = "PENDIENTE" /\ admin = [a \in Admins |-> Idle]
  BY DEF Init
<1>2. versions \in Seq(VersionRows)
  <2>1. CASE versions = <<>>
    BY <2>1
  <2>2. CASE \E n \in Limits : versions = <<[lifecycle |-> "PUBLISHED", limit |-> n, scope |-> "tenant"]>>
    <3>1. PICK row \in VersionRows : versions = <<row>>
      BY <2>2 DEF VersionRows
    <3> QED BY <3>1
  <2> QED BY <2>1, <2>2 DEF Init
<1>3. Rows
  <2>1. <<>> \in Seq(AppointmentRows) /\ <<>> \in Seq(AttemptRows)
    OBVIOUS
  <2> QED BY <1>1, <1>2, <2>1 DEF Rows, None
<1>4. Edits
  BY <1>1 DEF Edits, Idle
<1>5. Pinning /\ AttemptsExist /\ ReschedulesWithinLimit
  BY <1>1 DEF Pinning, AttemptsExist, ReschedulesWithinLimit
<1>6. StatusFollowsAppointment
  BY <1>1 DEF StatusFollowsAppointment, None
<1>7. AttemptsExplainAppointments
  BY <1>1 DEF AttemptsExplainAppointments
<1> QED BY <1>3, <1>4, <1>5, <1>6, <1>7 DEF IInv

-----------------------------------------------------------------------------
(* The catalogue *)

(* A version that was published keeps its limit. *)
PublishedStays ==
  \A v \in 1 .. Len(versions) :
    versions[v].lifecycle # "DRAFT" =>
      /\ v \in 1 .. Len(versions')
      /\ versions'[v] \in {versions[v], [versions[v] EXCEPT !.lifecycle = "ARCHIVED"]}

(* While the catalogue changes, an application and its activity keep what  *)
(* they have.                                                              *)
LEMMA CatalogueFrame ==
  ASSUME IInv, versions' \in Seq(VersionRows), PublishedStays, Edits',
         UNCHANGED <<submitted, pinned, activityVars>>
  PROVE  IInv'
<1>1. UNCHANGED <<submitted, pinned, status, current, appointments, attempts>>
  BY DEF activityVars
<1>2. Rows'
  BY <1>1 DEF IInv, Rows
<1>3. ASSUME pinned # None
      PROVE  /\ pinned \in 1 .. Len(versions') /\ versions'[pinned].lifecycle # "DRAFT"
             /\ versions'[pinned].limit = versions[pinned].limit
  <2>1. pinned \in 1 .. Len(versions) /\ versions[pinned].lifecycle # "DRAFT"
    BY <1>3 DEF IInv, Pinning
  <2>2. versions[pinned] \in VersionRows
    BY <2>1 DEF IInv, Rows
  <2>3. pinned \in 1 .. Len(versions')
        /\ versions'[pinned] \in {versions[pinned], [versions[pinned] EXCEPT !.lifecycle = "ARCHIVED"]}
    BY <2>1 DEF PublishedStays
  <2> QED BY <2>1, <2>2, <2>3 DEF VersionRows
<1>4. Pinning'
  BY <1>1, <1>3 DEF IInv, Pinning
<1>5. Reschedules' = Reschedules
  BY <1>1 DEF Reschedules
<1>6. ReschedulesWithinLimit'
  BY <1>1, <1>3, <1>5 DEF IInv, ReschedulesWithinLimit
<1>7. AttemptsExist' /\ StatusFollowsAppointment' /\ AttemptsExplainAppointments'
  BY <1>1 DEF IInv, AttemptsExist, StatusFollowsAppointment, AttemptsExplainAppointments
<1> QED BY <1>2, <1>4, <1>6, <1>7 DEF IInv

(* An administrator begins or ends an edit; the versions stay. *)
LEMMA EditKeeps ==
  ASSUME Edits, NEW a \in Admins, NEW t, UNCHANGED versions, admin' = [admin EXCEPT ![a] = t],
         t.op = "create" => t.limit \in Limits /\ t.scope \in Scopes,
         t.op \in {"update", "publish", "archive"} => t.version \in 1 .. Len(versions),
         t.op = "update" => t.limit \in Limits
  PROVE  Edits'
<1>1. \A b \in Admins : admin'[b] = IF b = a THEN t ELSE admin[b]
  BY DEF Edits
<1>2. admin' = [b \in Admins |-> admin'[b]]
  BY DEF Edits
<1> QED BY <1>1, <1>2 DEF Edits

LEMMA VersionsStay == ASSUME UNCHANGED versions PROVE PublishedStays
BY DEF PublishedStays

LEMMA InsertKeeps == ASSUME IInv, NEW a \in Admins, InsertVersion(a) PROVE IInv'
<1>1. /\ admin[a].op = "create" /\ admin' = [admin EXCEPT ![a] = Idle]
      /\ UNCHANGED <<submitted, pinned, activityVars>>
  BY DEF InsertVersion
<1>2. CASE UNCHANGED versions
  <2>1. Edits'
    BY <1>1, <1>2, EditKeeps DEF IInv, Idle
  <2> QED BY <1>1, <1>2, <2>1, CatalogueFrame, VersionsStay DEF IInv, Rows
<1>3. CASE versions' # versions
  <2>1. PICK row \in VersionRows : versions' = Append(versions, row)
    <3>1. admin[a].limit \in Limits /\ admin[a].scope \in {"tenant", "offering", "other"}
      BY <1>1, ActivityBounds DEF IInv, Edits
    <3>2. versions' = Append(versions, [lifecycle |-> "DRAFT", limit |-> admin[a].limit, scope |-> admin[a].scope])
      BY <1>3 DEF InsertVersion
    <3> QED BY <3>1, <3>2 DEF VersionRows
  <2>2. /\ versions' \in Seq(VersionRows) /\ Len(versions') = Len(versions) + 1
        /\ \A v \in 1 .. Len(versions) : versions'[v] = versions[v]
    BY <2>1 DEF IInv, Rows
  <2>3. Len(versions) \in Nat
    BY DEF IInv, Rows
  <2>4. PublishedStays
    BY <2>2, <2>3 DEF PublishedStays
  <2>5. \A b \in Admins : admin'[b] = IF b = a THEN Idle ELSE admin[b]
    BY <1>1 DEF IInv, Edits
  <2>6. Edits'
    BY <1>1, <2>2, <2>3, <2>5 DEF IInv, Edits, Idle
  <2> QED BY <1>1, <2>2, <2>4, <2>6, CatalogueFrame
<1> QED BY <1>2, <1>3

(* The trigger lets a published row change to archived and nothing else.   *)
LEMMA WriteKeeps == ASSUME IInv, NEW a \in Admins, WriteVersion(a) PROVE IInv' /\ PublishedStays
<1>1. /\ admin[a].op \in {"update", "publish", "archive"} /\ admin' = [admin EXCEPT ![a] = Idle]
      /\ UNCHANGED <<submitted, pinned, activityVars>>
  BY DEF WriteVersion
<1>2. PICK v \in 1 .. Len(versions) : v = admin[a].version
  BY <1>1 DEF IInv, Edits
<1>3. versions[v] \in VersionRows /\ versions \in Seq(VersionRows)
  BY DEF IInv, Rows
<1>4. Changed(versions[v], admin[a]) \in VersionRows
  <2>1. CASE admin[a].op = "update"
    BY <1>3, <2>1 DEF Changed, VersionRows, IInv, Edits
  <2>2. CASE admin[a].op = "publish"
    BY <1>3, <2>2 DEF Changed, VersionRows
  <2>3. CASE admin[a].op = "archive"
    BY <1>3, <2>3 DEF Changed, VersionRows
  <2> QED BY <1>1, <2>1, <2>2, <2>3
<1>5. PICK row \in VersionRows : row = Changed(versions[v], admin[a])
  BY <1>4
<1>6. versions' = versions \/ (Writable(versions[v], row) /\ versions' = [versions EXCEPT ![v] = row])
  BY <1>2, <1>5 DEF WriteVersion
<1>7. /\ versions' \in Seq(VersionRows) /\ Len(versions') = Len(versions)
      /\ \A u \in 1 .. Len(versions) : versions'[u] = versions[u] \/ (u = v /\ Writable(versions[v], row) /\ versions'[u] = row)
  BY <1>3, <1>6
<1>8. PublishedStays
  BY <1>7 DEF PublishedStays, Writable
<1>9. \A b \in Admins : admin'[b] = IF b = a THEN Idle ELSE admin[b]
  BY <1>1 DEF IInv, Edits
<1>10. Edits'
  BY <1>1, <1>7, <1>9 DEF IInv, Edits, Idle
<1> QED BY <1>1, <1>7, <1>8, <1>10, CatalogueFrame

LEMMA BeginEditKeeps ==
  ASSUME IInv, NEW a \in Admins,
         \/ LoadPolicy(a) \/ CheckCandidates(a) \/ WritePolicy(a) \/ ReadLatest(a)
         \/ \E v \in DOMAIN versions : UpdateDraftVersion(a, v) \/ PublishVersion(a, v) \/ ArchiveVersion(a, v)
  PROVE  IInv'
<1>1. UNCHANGED <<versions, submitted, pinned, activityVars>>
  BY DEF LoadPolicy, CheckCandidates, WritePolicy, ReadLatest, UpdateDraftVersion, PublishVersion, ArchiveVersion, Find
<1>2. Edits'
  <2>1. CASE LoadPolicy(a)
    BY <1>1, <2>1 DEF LoadPolicy, IInv, Edits
  <2>2. CASE CheckCandidates(a)
    <3>1. PICK f \in PolicyForms(a) : admin' = [admin EXCEPT ![a] = f]
      BY <2>2 DEF CheckCandidates
    <3>2. f.op = "policy"
      BY DEF PolicyForms
    <3> QED BY <1>1, <3>1, <3>2, EditKeeps DEF IInv
  <2>3. CASE WritePolicy(a)
    BY <1>1, <2>3, EditKeeps DEF WritePolicy, IInv, Idle
  <2>4. CASE ReadLatest(a)
    <3>1. PICK f \in VersionForms : admin' = [admin EXCEPT ![a] = f]
      BY <2>4 DEF ReadLatest
    <3>2. f.op = "create" /\ f.limit \in Limits /\ f.scope \in Scopes
      BY DEF VersionForms
    <3> QED BY <1>1, <3>1, <3>2, EditKeeps DEF IInv
  <2>5. ASSUME NEW v \in DOMAIN versions, UpdateDraftVersion(a, v) \/ PublishVersion(a, v) \/ ArchiveVersion(a, v)
        PROVE  Edits'
    <3>1. v \in 1 .. Len(versions)
      BY DEF IInv, Rows
    <3>2. CASE UpdateDraftVersion(a, v)
      <4>1. PICK n \in Limits : admin' = [admin EXCEPT ![a] = [op |-> "update", version |-> v, limit |-> n]]
        BY <3>2 DEF UpdateDraftVersion
      <4> QED BY <1>1, <3>1, <4>1, EditKeeps DEF IInv
    <3>3. CASE PublishVersion(a, v)
      BY <1>1, <3>1, <3>3, EditKeeps DEF PublishVersion, IInv
    <3>4. CASE ArchiveVersion(a, v)
      BY <1>1, <3>1, <3>4, EditKeeps DEF ArchiveVersion, IInv
    <3> QED BY <2>5, <3>2, <3>3, <3>4
  <2> QED BY <2>1, <2>2, <2>3, <2>4, <2>5
<1> QED BY <1>1, <1>2, CatalogueFrame, VersionsStay DEF IInv, Rows

-----------------------------------------------------------------------------
(* The submission pins the version: nothing is booked yet. *)

LEMMA PinKeeps == ASSUME IInv, PinApplicationActivities PROVE IInv'
<1>1. /\ ~submitted /\ submitted' = TRUE
      /\ UNCHANGED <<versions, admin, status, current, appointments, attempts>>
  BY DEF PinApplicationActivities, catalogueVars, activityVars
<1>2. pinned' = None \/ pinned' \in Applicable
  BY PreferredExists DEF PinApplicationActivities, IInv
<1>3. ASSUME pinned' # None
      PROVE  pinned' \in 1 .. Len(versions) /\ versions[pinned'].lifecycle = "PUBLISHED" /\ versions[pinned'].limit \in Nat
  <2>1. pinned' \in 1 .. Len(versions) /\ versions[pinned'].lifecycle = "PUBLISHED"
    BY <1>2, <1>3 DEF Applicable, IInv, Rows
  <2>2. versions[pinned'] \in VersionRows
    BY <2>1 DEF IInv, Rows
  <2> QED BY <2>1, <2>2, ActivityBounds DEF VersionRows
<1>4. Rows'
  <2>1. pinned' \in Nat
    BY <1>2, <1>3 DEF None
  <2> QED BY <1>1, <2>1 DEF IInv, Rows
<1>5. Pinning' /\ Edits' /\ AttemptsExist'
  BY <1>1, <1>3 DEF IInv, Pinning, Edits, AttemptsExist
<1>6. StatusFollowsAppointment' /\ AttemptsExplainAppointments'
  BY <1>1 DEF IInv, StatusFollowsAppointment, AttemptsExplainAppointments
<1>7. ReschedulesWithinLimit'
  <2>1. Reschedules' = {}
    BY <1>1 DEF Reschedules, IInv, Pinning
  <2>2. Cardinality(Reschedules') = 0
    BY <2>1, FS_EmptySet
  <2> QED BY <1>1, <1>3, <2>2 DEF ReschedulesWithinLimit
<1> QED BY <1>4, <1>5, <1>6, <1>7 DEF IInv

-----------------------------------------------------------------------------
(* The appointments *)

LEMMA IndexFacts ==
  ASSUME Rows
  PROVE  /\ Len(appointments) \in Nat /\ DOMAIN appointments = 1 .. Len(appointments)
         /\ Len(attempts) \in Nat /\ DOMAIN attempts = 1 .. Len(attempts)
         /\ \A n \in 1 .. Len(appointments) : appointments[n] \in AppointmentRows
         /\ \A i \in 1 .. Len(attempts) : attempts[i] \in AttemptRows
BY DEF Rows

LEMMA ReschedulesFinite == ASSUME Rows PROVE IsFiniteSet(Reschedules) /\ Cardinality(Reschedules) \in Nat
<1>1. PICK n \in Nat : n = Len(appointments)
  BY IndexFacts
<1>2. Reschedules \subseteq 1 .. n
  BY <1>1, IndexFacts DEF Reschedules
<1>3. IsFiniteSet(1 .. n)
  BY FS_Interval
<1> QED BY <1>2, <1>3, FS_Subset, FS_CardinalityType

(* Steps that touch neither the catalogue nor the pinned version. *)
ActivityStep == UNCHANGED <<versions, admin, submitted, pinned>>

(* A new appointment becomes the current one; the one before stays or is   *)
(* reprogrammed, within the limit.                                         *)
LEMMA BookKeeps ==
  ASSUME IInv, ActivityStep, NEW e \in Executors, NEW changed \in Seq(AppointmentRows),
         pinned # None, status # "CERRADA", Book(e, changed),
         Len(changed) = Len(appointments),
         \A n \in 1 .. Len(appointments) :
           \/ changed[n] = appointments[n]
           \/ n = current /\ changed[n].status = "REPROGRAMADA",
         Cardinality({n \in DOMAIN changed : changed[n].status = "REPROGRAMADA"}) <= versions[pinned].limit
  PROVE  IInv'
<1>1. PICK new \in AppointmentRows : new.status = "PROGRAMADA" /\ appointments' = Append(changed, new)
  <2>1. NewAppointment(e) \in AppointmentRows /\ NewAppointment(e).status = "PROGRAMADA"
    BY DEF NewAppointment, AppointmentRows, IInv, Rows
  <2> QED BY <2>1 DEF Book
<1>2. PICK n \in Nat : n = Len(appointments)
  BY IndexFacts DEF IInv
<1>3. current' = n + 1 /\ status' = "PROGRAMADA" /\ UNCHANGED attempts
  BY <1>2 DEF Book
<1>4. /\ appointments' \in Seq(AppointmentRows) /\ Len(appointments') = n + 1
      /\ appointments'[n + 1] = new
      /\ \A k \in 1 .. n : appointments'[k] = changed[k]
  BY <1>1, <1>2
<1>5. Rows'
  BY <1>3, <1>4 DEF ActivityStep, IInv, Rows
<1>6. Pinning' /\ Edits' /\ AttemptsExist'
  BY <1>2, <1>3, <1>4 DEF ActivityStep, IInv, Rows, Pinning, Edits, AttemptsExist
<1>7. StatusFollowsAppointment'
  BY <1>1, <1>3, <1>4 DEF StatusFollowsAppointment, None
<1>8. ReschedulesWithinLimit'
  <2>1. DOMAIN changed = 1 .. n /\ DOMAIN appointments' = 1 .. n + 1
    BY <1>2, <1>4
  <2>2. Reschedules' = {k \in DOMAIN changed : changed[k].status = "REPROGRAMADA"}
    BY <1>1, <1>4, <2>1 DEF Reschedules
  <2> QED BY <2>2 DEF ReschedulesWithinLimit, ActivityStep
<1>9. AttemptsExplainAppointments'
  <2>1. DOMAIN attempts = 1 .. Len(attempts) /\ DOMAIN appointments' = 1 .. n + 1 /\ DOMAIN appointments = 1 .. n
    BY <1>2, <1>4, IndexFacts DEF IInv
  <2>2. \A i \in 1 .. Len(attempts) : attempts[i].appointment \in 1 .. n
    BY <1>2 DEF IInv, AttemptsExist
  <2>3. \A i \in DOMAIN attempts : appointments'[attempts[i].appointment].status \in {attempts[i].outcome, "REPROGRAMADA"}
    BY <1>2, <1>4, <2>1, <2>2 DEF IInv, AttemptsExplainAppointments
  <2>4. \A k \in DOMAIN appointments' :
          appointments'[k].status \in Outcomes => \E i \in DOMAIN attempts : attempts[i].appointment = k
    BY <1>1, <1>2, <1>4, <2>1 DEF IInv, AttemptsExplainAppointments, Outcomes
  <2> QED BY <1>3, <2>3, <2>4 DEF IInv, AttemptsExplainAppointments
<1> QED BY <1>5, <1>6, <1>7, <1>8, <1>9 DEF IInv

LEMMA NewBookingKeeps == ASSUME IInv, NEW e \in Executors, Schedule(e) \/ Repeat(e) PROVE IInv'
<1>1. pinned # None /\ status # "CERRADA" /\ Book(e, appointments)
  BY DEF Schedule, Repeat, Open
<1>2. ActivityStep
  BY <1>1 DEF Book, ActivityStep, catalogueVars
<1>3. Cardinality({n \in DOMAIN appointments : appointments[n].status = "REPROGRAMADA"}) <= versions[pinned].limit
  BY <1>1 DEF IInv, ReschedulesWithinLimit, Reschedules
<1>4. appointments \in Seq(AppointmentRows)
  BY DEF IInv, Rows
<1> QED BY <1>1, <1>2, <1>3, <1>4, BookKeeps

(* One more reschedule, and there was room for it. *)
LEMMA ReprogramKeeps == ASSUME IInv, NEW e \in Executors, Reprogram(e) PROVE IInv'
<1>1. /\ pinned # None /\ status # "CERRADA" /\ current # None
      /\ Cardinality(Reschedules) < versions[pinned].limit
      /\ Book(e, [appointments EXCEPT ![current].status = "REPROGRAMADA"])
  BY DEF Reprogram, Open, IsCurrent, BelowLimit
<1>2. ActivityStep
  BY <1>1 DEF Book, ActivityStep, catalogueVars
<1>3. PICK n \in Nat : n = Len(appointments)
  BY IndexFacts DEF IInv
<1>4. current \in 1 .. n /\ appointments[current] \in AppointmentRows /\ appointments \in Seq(AppointmentRows)
  BY <1>1, <1>3, IndexFacts DEF IInv, StatusFollowsAppointment, None, Rows
<1>5. PICK row \in AppointmentRows : row = [appointments[current] EXCEPT !.status = "REPROGRAMADA"]
  BY <1>4 DEF AppointmentRows
<1>6. row.status = "REPROGRAMADA"
  BY <1>4, <1>5 DEF AppointmentRows
<1>7. PICK changed \in Seq(AppointmentRows) : changed = [appointments EXCEPT ![current] = row]
  <2>1. [appointments EXCEPT ![current] = row] \in Seq(AppointmentRows)
    BY <1>3, <1>4
  <2> QED BY <2>1
<1>8. Book(e, changed)
  BY <1>1, <1>5, <1>7
<1>9. /\ Len(changed) = n /\ DOMAIN changed = 1 .. n /\ DOMAIN appointments = 1 .. n
      /\ \A k \in 1 .. n : changed[k] = IF k = current THEN row ELSE appointments[k]
  BY <1>3, <1>4, <1>7
<1>10. Cardinality({k \in DOMAIN changed : changed[k].status = "REPROGRAMADA"}) <= versions[pinned].limit
  <2>1. {k \in DOMAIN changed : changed[k].status = "REPROGRAMADA"} = Reschedules \cup {current}
    BY <1>4, <1>6, <1>9 DEF Reschedules
  <2>2. PICK c \in Nat : c = Cardinality(Reschedules)
    BY ReschedulesFinite DEF IInv
  <2>3. Cardinality(Reschedules \cup {current}) = IF current \in Reschedules THEN c ELSE c + 1
    BY <2>2, ReschedulesFinite, FS_AddElement DEF IInv
  <2>4. versions[pinned].limit \in Nat
    <3>1. versions[pinned] \in VersionRows
      BY <1>1 DEF IInv, Pinning, Rows
    <3> QED BY <3>1, ActivityBounds DEF VersionRows
  <2>5. Cardinality(Reschedules \cup {current}) <= versions[pinned].limit
    BY <1>1, <2>2, <2>3, <2>4
  <2> QED BY <2>1, <2>5
<1> QED BY <1>1, <1>2, <1>3, <1>6, <1>8, <1>9, <1>10, BookKeeps

(* An outcome is recorded on the newest appointment, still scheduled, which *)
(* therefore has no attempt yet.                                            *)
LEMMA RecordKeeps ==
  ASSUME IInv, NEW outcome \in Outcomes, NEW justified \in BOOLEAN, RecordOutcome(outcome, justified)
  PROVE  IInv'
<1>1. /\ pinned # None /\ status # "CERRADA" /\ current # None /\ appointments[current].status = "PROGRAMADA"
      /\ attempts' = Append(attempts, [appointment |-> current, outcome |-> outcome, justified |-> justified])
      /\ appointments' = [appointments EXCEPT ![current].status = outcome]
      /\ status' = outcome
      /\ UNCHANGED <<versions, admin, submitted, pinned, current>>
  BY DEF RecordOutcome, Open, IsCurrent, StillScheduled, catalogueVars
<1>2. PICK n \in Nat, m \in Nat : n = Len(appointments) /\ m = Len(attempts)
  BY IndexFacts DEF IInv
<1>3. /\ current = n /\ n \in 1 .. n /\ appointments[n] \in AppointmentRows
      /\ appointments \in Seq(AppointmentRows) /\ attempts \in Seq(AttemptRows)
  BY <1>1, <1>2, IndexFacts DEF IInv, StatusFollowsAppointment, None, Rows
<1>4. PICK row \in AppointmentRows : row = [appointments[n] EXCEPT !.status = outcome]
  BY <1>3 DEF AppointmentRows
<1>5. row.status = outcome
  BY <1>3, <1>4 DEF AppointmentRows
<1>6. PICK attempt \in AttemptRows : attempt = [appointment |-> n, outcome |-> outcome, justified |-> justified]
  BY <1>3 DEF AttemptRows
<1>7. attempt.appointment = n /\ attempt.outcome = outcome
  BY <1>6
<1>8. /\ appointments' \in Seq(AppointmentRows) /\ Len(appointments') = n
      /\ \A k \in 1 .. n : appointments'[k] = IF k = n THEN row ELSE appointments[k]
  BY <1>1, <1>2, <1>3, <1>4
<1>9. /\ attempts' \in Seq(AttemptRows) /\ Len(attempts') = m + 1 /\ attempts'[m + 1] = attempt
      /\ \A i \in 1 .. m : attempts'[i] = attempts[i]
  BY <1>1, <1>2, <1>3, <1>6
<1>10. Rows'
  BY <1>1, <1>8, <1>9 DEF IInv, Rows
<1>11. Pinning' /\ Edits' /\ AttemptsExist'
  BY <1>1, <1>2, <1>3, <1>7, <1>8, <1>9 DEF IInv, Pinning, Edits, AttemptsExist
<1>12. StatusFollowsAppointment'
  BY <1>1, <1>3, <1>5, <1>8 DEF StatusFollowsAppointment, Outcomes
<1>13. ReschedulesWithinLimit'
  <2>1. DOMAIN appointments' = 1 .. n /\ DOMAIN appointments = 1 .. n
    BY <1>2, <1>3, <1>8
  <2>2. Reschedules' = Reschedules
    BY <1>1, <1>3, <1>5, <1>8, <2>1 DEF Reschedules, Outcomes
  <2> QED BY <1>1, <2>2 DEF IInv, ReschedulesWithinLimit
<1>14. AttemptsExplainAppointments'
  <2>1. /\ DOMAIN attempts' = 1 .. m + 1 /\ DOMAIN attempts = 1 .. m
        /\ DOMAIN appointments' = 1 .. n /\ DOMAIN appointments = 1 .. n
    BY <1>2, <1>3, <1>8, <1>9
  <2>2. \A i \in 1 .. m : attempts[i].appointment \in 1 .. n /\ attempts[i] \in AttemptRows
    BY <1>2, IndexFacts DEF IInv, AttemptsExist
  <2>3. \A i \in 1 .. m : attempts[i].appointment # n
    BY <1>1, <1>3, <2>1, <2>2 DEF IInv, AttemptsExplainAppointments, AttemptRows, Outcomes
  <2>4. \A i, j \in DOMAIN attempts' : attempts'[i].appointment = attempts'[j].appointment => i = j
    <3>1. \A i, j \in 1 .. m : attempts[i].appointment = attempts[j].appointment => i = j
      BY <2>1 DEF IInv, AttemptsExplainAppointments
    <3>2. \A i \in 1 .. m + 1 : i \in 1 .. m \/ i = m + 1
      OBVIOUS
    <3> QED BY <1>7, <1>9, <2>1, <2>3, <3>1, <3>2
  <2>5. \A i \in DOMAIN attempts' :
          appointments'[attempts'[i].appointment].status \in {attempts'[i].outcome, "REPROGRAMADA"}
    <3>1. \A i \in 1 .. m : appointments[attempts[i].appointment].status \in {attempts[i].outcome, "REPROGRAMADA"}
      BY <2>1 DEF IInv, AttemptsExplainAppointments
    <3>2. \A i \in 1 .. m + 1 : i \in 1 .. m \/ i = m + 1
      OBVIOUS
    <3> QED BY <1>3, <1>5, <1>7, <1>8, <1>9, <2>1, <2>2, <2>3, <3>1, <3>2
  <2>6. \A k \in DOMAIN appointments' :
          appointments'[k].status \in Outcomes => \E i \in DOMAIN attempts' : attempts'[i].appointment = k
    <3> SUFFICES ASSUME NEW k \in 1 .. n, appointments'[k].status \in Outcomes
                 PROVE  \E i \in 1 .. m + 1 : attempts'[i].appointment = k
      BY <2>1
    <3>1. CASE k = n
      BY <1>7, <1>9, <3>1
    <3>2. CASE k # n
      <4>1. appointments[k].status \in Outcomes
        BY <1>8, <3>2
      <4>2. PICK i \in 1 .. m : attempts[i].appointment = k
        BY <2>1, <4>1 DEF IInv, AttemptsExplainAppointments
      <4> QED BY <1>9, <4>2
    <3> QED BY <3>1, <3>2
  <2> QED BY <2>4, <2>5, <2>6 DEF AttemptsExplainAppointments
<1> QED BY <1>10, <1>11, <1>12, <1>13, <1>14 DEF IInv

(* Two no-shows are attempts at an appointment: there is a newest one.     *)
LEMMA CloseKeeps == ASSUME IInv, CloseActivityAfterNoShows PROVE IInv'
<1>1. /\ status' = "CERRADA" /\ (current # None => appointments[current].status # "PROGRAMADA")
      /\ Cardinality(UnjustifiedNoShows) >= 2
      /\ UNCHANGED <<versions, admin, submitted, pinned, current, appointments, attempts>>
  BY DEF CloseActivityAfterNoShows, NothingScheduled, catalogueVars
<1>2. UnjustifiedNoShows # {}
  BY <1>1, FS_EmptySet
<1>3. PICK i \in 1 .. Len(attempts) : attempts[i].appointment \in 1 .. Len(appointments)
  BY <1>2, IndexFacts DEF IInv, AttemptsExist, UnjustifiedNoShows
<1>4. current # None
  BY <1>3, IndexFacts DEF IInv, StatusFollowsAppointment, None
<1>5. StatusFollowsAppointment'
  BY <1>1, <1>4 DEF IInv, StatusFollowsAppointment
<1>6. Reschedules' = Reschedules
  BY <1>1 DEF Reschedules
<1> QED
  BY <1>1, <1>5, <1>6 DEF IInv, Rows, Edits, Pinning, AttemptsExist, AttemptsExplainAppointments, ReschedulesWithinLimit

(* Screens, executors and requests of the family carry no guarantee.       *)
LEMMA ScreenKeeps ==
  ASSUME IInv,
         \/ \E e \in Executors : ChangeMembership(e)
         \/ StaffLoad \/ FamilyLoad \/ RequestFamilyReschedule \/ UNCHANGED vars
  PROVE  IInv'
<1>1. UNCHANGED <<versions, admin, submitted, pinned, status, current, appointments, attempts>>
  BY DEF ChangeMembership, StaffLoad, FamilyLoad, RequestFamilyReschedule, vars, catalogueVars, activityVars
<1>2. Reschedules' = Reschedules
  BY <1>1 DEF Reschedules
<1> QED
  BY <1>1, <1>2 DEF IInv, Rows, Edits, Pinning, AttemptsExist, StatusFollowsAppointment,
                    AttemptsExplainAppointments, ReschedulesWithinLimit

-----------------------------------------------------------------------------
LEMMA Inductive == IInv /\ [Next]_vars => IInv'
<1> SUFFICES ASSUME IInv, [Next]_vars PROVE IInv'
  OBVIOUS
<1>1. ASSUME NEW e \in Executors, ChangeMembership(e) \/ Schedule(e) \/ Reprogram(e) \/ Repeat(e) PROVE IInv'
  BY <1>1, ScreenKeeps, NewBookingKeeps, ReprogramKeeps
<1>2. ASSUME NEW a \in Admins,
             \/ LoadPolicy(a) \/ CheckCandidates(a) \/ WritePolicy(a) \/ ReadLatest(a) \/ InsertVersion(a)
             \/ \E v \in DOMAIN versions : UpdateDraftVersion(a, v) \/ PublishVersion(a, v) \/ ArchiveVersion(a, v)
             \/ WriteVersion(a)
      PROVE  IInv'
  BY <1>2, BeginEditKeeps, InsertKeeps, WriteKeeps
<1>3. ASSUME NEW outcome \in Outcomes, NEW justified \in BOOLEAN, RecordOutcome(outcome, justified) PROVE IInv'
  BY <1>3, RecordKeeps
<1> QED BY <1>1, <1>2, <1>3, PinKeeps, CloseKeeps, ScreenKeeps DEF Next

LEMMA Invariance == Spec => []IInv
BY InitHolds, Inductive, PTL DEF Spec

(* However stale the screens, the status of an activity is that of its      *)
(* newest appointment, and nothing is scheduled in a closed one.            *)
THEOREM StatusIsTheNewest == Spec => []StatusFollowsAppointment
<1>1. IInv => StatusFollowsAppointment
  BY DEF IInv
<1> QED BY <1>1, Invariance, PTL

(* The attempts explain the appointments, one each.                        *)
THEOREM AttemptsAreEvidence == Spec => []AttemptsExplainAppointments
<1>1. IInv => AttemptsExplainAppointments
  BY DEF IInv
<1> QED BY <1>1, Invariance, PTL

(* Reschedules stay within the limit of the pinned version.                *)
THEOREM ReschedulesAreBounded == Spec => []ReschedulesWithinLimit
<1>1. IInv => ReschedulesWithinLimit
  BY DEF IInv
<1> QED BY <1>1, Invariance, PTL

(* No step changes a version that was published, but to archive it.        *)
THEOREM PublishedVersionsAreFrozen == Spec => PublishedIsFrozen
<1> DEFINE Frozen == \A v \in DOMAIN versions : versions[v].lifecycle # "DRAFT" =>
                        versions'[v] \in {versions[v], [versions[v] EXCEPT !.lifecycle = "ARCHIVED"]}
<1>1. ASSUME IInv, [Next]_vars PROVE Frozen
  <2>1. DOMAIN versions = 1 .. Len(versions) /\ Len(versions) \in Nat
    BY <1>1 DEF IInv, Rows
  <2>2. CASE UNCHANGED versions
    BY <2>2
  <2>3. ASSUME NEW a \in Admins, WriteVersion(a) PROVE Frozen
    BY <1>1, <2>1, <2>3, WriteKeeps DEF PublishedStays
  <2>4. ASSUME NEW a \in Admins, InsertVersion(a) PROVE Frozen
    <3>1. CASE UNCHANGED versions
      BY <3>1
    <3>2. CASE \E row : versions' = Append(versions, row)
      BY <1>1, <2>1, <3>2 DEF IInv, Rows
    <3> QED BY <2>4, <3>1, <3>2 DEF InsertVersion
  <2> QED
    BY <1>1, <2>2, <2>3, <2>4 DEF Next, vars, catalogueVars, ChangeMembership, Schedule, Reprogram, Repeat, Book,
       LoadPolicy, CheckCandidates, WritePolicy, ReadLatest, UpdateDraftVersion, PublishVersion, ArchiveVersion, Find,
       PinApplicationActivities, StaffLoad, RecordOutcome, CloseActivityAfterNoShows, FamilyLoad, RequestFamilyReschedule
<1> QED BY <1>1, Invariance, PTL DEF Spec, PublishedIsFrozen
=============================================================================
