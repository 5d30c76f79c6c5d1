------------------------------- MODULE Admission -------------------------------
(***************************************************************************)
(* From the catalogue of a tenant to the hand-off of an admitted student:  *)
(* academic years, processes and offerings (packages/database/src/         *)
(* intake.ts), the drafts ONE family opens for its student, the authority  *)
(* the family declares for each application and the staff reviews          *)
(* (application-authority.ts), the actions that authority gates (the       *)
(* submission, the acceptance of an offer, functional-handoff.ts), and the *)
(* policy on sensitive answers (sensitive-processing.ts), as the portal's  *)
(* page.tsx, authority-workflows.tsx, capacity-offer-workflows.tsx and      *)
(* sensitive-processing-workflows.tsx drive them.                           *)
(*                                                                         *)
(* What holds the lock of a row for its whole transaction is one step.     *)
(* A draft is created in two transactions, and a gated action reads the    *)
(* authority and commits later, holding the lock of the application: these *)
(* are two steps of the tab or the staff member that runs them.            *)
(***************************************************************************)
EXTENDS Integers, Sequences, FiniteSets

CONSTANTS
  Admins,          \* administrators of the catalogue
  Tabs,            \* browser tabs of the family
  Staff,           \* staff members who review authority and hand off
  Years, Processes, Offerings,
  FormVersions,    \* published when the story starts
  Birthdays,       \* dates of birth in use
  Days,            \* the days the story passes through, in order
  Budgets          \* bounds: records [start, edits, looks, policies, drafts, declarations, reviews, births]

ASSUME AdmissionBounds ==
  /\ Len(Days) > 0
  /\ \A d \in Birthdays : Len(d) = 3
  /\ 0 \notin Offerings             \* what a screen has that is of none

VARIABLES
  years,        \* academic_years.status
  processes,    \* admission_processes: status, year, window
  offerings,    \* admission_offerings and their admission_capacities row
  forms,        \* form_versions.lifecycle
  adminScreen,  \* what StaffCapacityOfferWorkspace shows each administrator
  day,          \* index in Days
  profile,      \* the family has a profile
  student,      \* the student and the date of birth
  applications, \* the family's applications, in order of creation
  authority,    \* application_authorities, one per application
  familyScreen, \* the authority FamilyAuthorityWorkspace shows in each tab
  staffScreen,  \* the id typed and the authority StaffAuthorityWorkspace shows
  task,         \* the transaction each tab or staff member is in
  enabled,      \* the HEALTH policy of the tenant is enabled
  offers,       \* the offer of each application
  handoffs,     \* integration_handoffs, as the applications they are for
  budget        \* what is left of the bounds

catalogue == <<years, processes, offerings, forms>>
family == <<profile, student>>
screens == <<adminScreen, familyScreen, staffScreen>>
admission == <<applications, authority, offers, handoffs>>
vars == <<catalogue, day, family, screens, admission, task, enabled, budget>>

Absent == "absent"
NoDate == <<>>
Idle == [op |-> "none"]
NoScreen == [app |-> 0]
Undeclared == [status |-> "NOT_DECLARED", mode |-> "none", basis |-> "none", birth |-> NoDate, version |-> 0, evidence |-> FALSE]
NoReadiness == [of |-> 0]
Ids == DOMAIN applications
Spend(what) == budget[what] > 0 /\ budget' = [budget EXCEPT ![what] = @ - 1]

(* An option of the select, as getConfiguration lists the offering: what    *)
(* the option prints, its code, its title and its status, is written with  *)
(* these columns by updateOffering.  The form version is not listed.        *)
Listed(o) ==
  IF offerings[o].status = Absent THEN [status |-> Absent]
  ELSE [status |-> offerings[o].status, process |-> offerings[o].process, year |-> offerings[o].year, closed |-> offerings[o].closed]

Init ==
  /\ budget \in Budgets
  /\ years = [y \in Years |-> IF budget.start = "empty" THEN Absent ELSE "OPEN"]
  /\ \E y \in Years :
       processes = [p \in Processes |->
         IF budget.start = "empty" THEN [status |-> Absent] ELSE [status |-> "PUBLISHED", year |-> y, window |-> "open"]]
  /\ \E p \in Processes, f \in FormVersions :
       offerings = [o \in Offerings |->
         IF budget.start \in {"empty", "process"} THEN [status |-> Absent]
         ELSE [status |-> IF budget.start = "draft" THEN "DRAFT" ELSE "PUBLISHED", process |-> p, year |-> processes[p].year,
               closed |-> FALSE, form |-> f, version |-> IF budget.start = "draft" THEN 2 ELSE 3, capacity |-> 1]]
  /\ forms = [f \in FormVersions |-> "PUBLISHED"]
  /\ adminScreen = [a \in Admins |-> [list |-> [o \in Offerings |-> Listed(o)], chosen |-> 0, ready |-> NoReadiness]]
  /\ day = 1
  /\ profile = FALSE
  /\ student = [known |-> FALSE, birth |-> NoDate]
  /\ applications = <<>>
  /\ authority = <<>>
  /\ familyScreen = [t \in Tabs |-> NoScreen]
  /\ staffScreen = [s \in Staff |-> [typed |-> 0, app |-> 0]]
  /\ task = [w \in Tabs \cup Staff |-> Idle]
  /\ enabled = FALSE
  /\ offers = <<>>
  /\ handoffs = <<>>

-----------------------------------------------------------------------------
(* The catalogue: each operation is one transaction *)

Keep == UNCHANGED <<day, family, admission, task, enabled, familyScreen, staffScreen>>

(* What the forms of AdminForm can post, and what the API accepts later. *)
AdminForm(resource) ==
  CASE resource = "academicYear" -> [status |-> "OPEN"]
    [] resource = "process" -> [status |-> "PUBLISHED", window |-> "open"]
    [] resource = "offering" -> [status |-> "DRAFT"]
YearStates == {"DRAFT", "OPEN", "CLOSED"}
ProcessStates == {"DRAFT", "PUBLISHED", "CLOSED"}

CreateAcademicYear(y) ==
  /\ years[y] = Absent
  /\ Spend("edits")
  /\ years' = [years EXCEPT ![y] = AdminForm("academicYear").status]
  /\ UNCHANGED <<processes, offerings, forms, adminScreen>> /\ Keep

(* assertPublishedOfferingsHaveCapacity *)
PublishedHaveCapacity(scope) == \A o \in scope : offerings[o].status = "PUBLISHED" => offerings[o].capacity > 0

Offered == {o \in Offerings : offerings[o].status # Absent}

UpdateAcademicYear(y, status) ==
  /\ years[y] # Absent
  /\ status = "OPEN" => PublishedHaveCapacity({o \in Offered : offerings[o].year = y})
  /\ Spend("edits")
  /\ years' = [years EXCEPT ![y] = status]
  /\ UNCHANGED <<processes, offerings, forms, adminScreen>> /\ Keep

Windows == {"early", "open", "late"}

SaveProcess(p, year, status, window) ==
  /\ years[year] # Absent
  /\ Spend("edits")
  /\ processes' = [processes EXCEPT ![p] = [status |-> status, year |-> year, window |-> window]]
  /\ UNCHANGED <<years, offerings, forms, adminScreen>> /\ Keep

CreateAdmissionProcess(p, year) ==
  processes[p].status = Absent /\ SaveProcess(p, year, AdminForm("process").status, AdminForm("process").window)

UpdateAdmissionProcess(p, year, status, window) ==
  /\ processes[p].status # Absent
  /\ status = "PUBLISHED" => PublishedHaveCapacity({o \in Offered : offerings[o].process = p})
  /\ SaveProcess(p, year, status, window)

(* ensureOfferingReferences: the year is the one of the process now. *)
ReferencesMatch(p, year) == processes[p].status # Absent /\ processes[p].year = year

WriteOffering(o, record) ==
  /\ offerings' = [offerings EXCEPT ![o] = record]
  /\ UNCHANGED <<years, processes, forms, adminScreen>> /\ Keep

CreateOffering(o, p, year, closed) ==
  /\ offerings[o].status = Absent
  /\ ReferencesMatch(p, year)
  /\ Spend("edits")
  /\ WriteOffering(o, [status |-> AdminForm("offering").status, process |-> p, year |-> year, closed |-> closed,
                       form |-> Absent, version |-> 1, capacity |-> 0])

(* No expected version: the last writer wins, whatever its screen showed. *)
UpdateOffering(o, p, year, closed) ==
  /\ o \in Offered
  /\ ReferencesMatch(p, year)
  /\ Spend("edits")
  /\ WriteOffering(o, [offerings[o] EXCEPT !.process = p, !.year = year, !.closed = closed, !.version = @ + 1])

(* The capacity row has a version of its own, which is all that is modelled *)
(* of it: 0 when there is none.  Whether the number of places is zero or    *)
(* positive decides nothing here.                                           *)
ConfigureCapacity(o) ==
  /\ o \in Offered /\ offerings[o].capacity = 0
  /\ Spend("edits")
  /\ WriteOffering(o, [offerings[o] EXCEPT !.capacity = 1])

AdjustCapacity(o) ==
  /\ o \in Offered /\ offerings[o].capacity > 0
  /\ Spend("edits")
  /\ WriteOffering(o, [offerings[o] EXCEPT !.capacity = @ + 1])

Assigned_SameVersion(o, f) == [offerings[o] EXCEPT !.form = f]
Assigned(o, f) == [offerings[o] EXCEPT !.form = f, !.version = @ + 1]

AssignOfferingVersion(o, f) ==
  /\ o \in Offered /\ forms[f] = "PUBLISHED"
  /\ Spend("edits")
  /\ WriteOffering(o, Assigned(o, f))

ArchiveVersion(f) ==
  /\ forms[f] = "PUBLISHED"
  /\ Spend("edits")
  /\ forms' = [forms EXCEPT ![f] = "ARCHIVED"]
  /\ UNCHANGED <<years, processes, offerings, adminScreen>> /\ Keep

-----------------------------------------------------------------------------
(* The administrator's screen: a list, an option of it, and a readiness.    *)
(* Each is fetched or chosen apart, and none again when another is.         *)

Look(a, screen) ==
  /\ Spend("looks")
  /\ adminScreen' = [adminScreen EXCEPT ![a] = screen]
  /\ UNCHANGED catalogue /\ Keep

LoadOfferings(a) == Look(a, [adminScreen[a] EXCEPT !.list = [o \in Offerings |-> Listed(o)]])

(* Another option clears the readiness. *)
ChooseOffering(a, o) ==
  /\ adminScreen[a].list[o].status # Absent
  /\ Look(a, [adminScreen[a] EXCEPT !.chosen = o, !.ready = NoReadiness])

Columns(row) == [process |-> row.process, year |-> row.year, closed |-> row.closed, form |-> row.form]

(* OfferingReadinessDto; capacityState, blockers and publishable follow.    *)
(* "asOf" is not in it: what the row was then, which the properties compare. *)
Readiness(o) ==
  [of |-> o, lifecycle |-> offerings[o].status, version |-> offerings[o].version, capacity |-> offerings[o].capacity,
   asOf |-> Columns(offerings[o])]

(* The answer is shown whatever was chosen since it was asked for. *)
GetOfferingReadiness(a, o) ==
  /\ adminScreen[a].chosen # 0 /\ adminScreen[a].list[o].status # Absent
  /\ o \in Offered
  /\ Look(a, [adminScreen[a] EXCEPT !.ready = Readiness(o)])

(* The command goes to the option chosen, with the version of the readiness *)
(* shown as expectedOfferingVersion.                                        *)
Commands(a, o) ==
  /\ adminScreen[a].chosen = o /\ adminScreen[a].ready # NoReadiness
  /\ adminScreen[a].ready.version = offerings[o].version

PublishOffering(a, o) ==
  /\ o \in Offered /\ Commands(a, o)
  /\ adminScreen[a].ready.lifecycle = "DRAFT" /\ adminScreen[a].ready.capacity > 0    \* the button
  /\ offerings[o].status = "DRAFT" /\ offerings[o].capacity > 0
  /\ Spend("edits")
  /\ WriteOffering(o, [offerings[o] EXCEPT !.status = "PUBLISHED", !.version = @ + 1])

CloseOffering(a, o) ==
  /\ o \in Offered /\ Commands(a, o)
  /\ adminScreen[a].ready.lifecycle # "CLOSED"
  /\ offerings[o].status # "CLOSED"
  /\ Spend("edits")
  /\ WriteOffering(o, [offerings[o] EXCEPT !.status = "CLOSED", !.version = @ + 1])

-----------------------------------------------------------------------------
(* opensAt and closesAt pass. *)
WindowPasses(p) ==
  /\ processes[p].status # Absent /\ processes[p].window # "late"
  /\ Spend("edits")
  /\ processes' = [processes EXCEPT ![p].window = IF @ = "early" THEN "open" ELSE "late"]
  /\ UNCHANGED <<years, offerings, forms, adminScreen>> /\ Keep

-----------------------------------------------------------------------------
(* The family's profile, student and drafts *)

IsAdmissionOfferingCurrent(offering) ==
  /\ offering.status = "PUBLISHED"
  /\ processes[offering.process].status = "PUBLISHED"
  /\ processes[offering.process].window = "open"
  /\ years[offering.year] = "OPEN"

(* What listPublicOfferings lists, and OfferingsSection lets the family start. *)
PublicOfferings ==
  {o \in Offered : /\ offerings[o].capacity > 0 /\ IsAdmissionOfferingCurrent(offerings[o])
                   /\ offerings[o].form # Absent /\ forms[offerings[o].form] = "PUBLISHED"}
OffersToStart == {o \in PublicOfferings : ~offerings[o].closed}

SaveProfile ==
  /\ ~profile
  /\ profile' = TRUE
  /\ UNCHANGED <<catalogue, day, student, screens, admission, task, enabled, budget>>

CreateStudent(birth) ==
  /\ profile /\ ~student.known
  /\ student' = [known |-> TRUE, birth |-> birth]
  /\ UNCHANGED <<catalogue, day, profile, screens, admission, task, enabled, budget>>

(* No application is locked or looked at. *)
UpdateStudent(birth) ==
  /\ student.known
  /\ Spend("births")
  /\ student' = [student EXCEPT !.birth = birth]
  /\ UNCHANGED <<catalogue, day, profile, screens, admission, task, enabled>>

(* Years between two calendar dates <<year, month, day>>: 29 February      *)
(* comes round on 1 March of a common year.                                *)
IsAdultStudent(birth, on) ==
  LET reached == on[2] > birth[2] \/ (on[2] = birth[2] /\ on[3] >= birth[3])
  IN on[1] - birth[1] - (IF reached THEN 0 ELSE 1) >= 18

(* The active application of the tab, as FamilyAuthorityWorkspace shows it. *)
AuthorityShown(i, au) == [app |-> i, version |-> au.version, adult |-> student.birth # NoDate /\ IsAdultStudent(student.birth, Days[day])]

Begin(who, what) == task[who] = Idle /\ task' = [task EXCEPT ![who] = what]
End(who) == task' = [task EXCEPT ![who] = Idle]

(* startApplication asks for a student, and opens the authority section. *)
StartApplication(t, o) == student.known /\ o \in OffersToStart

(* createApplicationDraft reads the offering in the public context ... *)
CheckOffering(t, o) ==
  /\ StartApplication(t, o)
  /\ Spend("drafts")
  /\ Begin(t, [op |-> "create", offering |-> o, seen |-> offerings[o]])
  /\ UNCHANGED <<catalogue, day, family, screens, admission, enabled>>

Active == {"DRAFT", "SUBMITTED"}

(* applications_active_duplicate_key *)
Duplicate(o, seen) ==
  \E i \in Ids : /\ applications[i].offering = o /\ applications[i].process = seen.process
                 /\ applications[i].year = seen.year /\ applications[i].status \in Active

(* ... and inserts the application in the applicant's. *)
CreateApplicationDraft(t) ==
  /\ task[t].op = "create"
  /\ LET seen == task[t].seen
         draft == [offering |-> task[t].offering, process |-> seen.process, year |-> seen.year, form |-> seen.form,
                   status |-> "DRAFT", acknowledged |-> FALSE, health |-> FALSE, as |-> Undeclared]
     IN IF Duplicate(task[t].offering, seen) THEN UNCHANGED admission
        ELSE /\ applications' = Append(applications, draft)
             /\ authority' = Append(authority, Undeclared)
             /\ offers' = Append(offers, "none")
             /\ UNCHANGED handoffs
  /\ familyScreen' = IF Duplicate(task[t].offering, task[t].seen) THEN familyScreen
                     ELSE [familyScreen EXCEPT ![t] = AuthorityShown(Len(applications) + 1, Undeclared)]
  /\ End(t)
  /\ UNCHANGED <<catalogue, day, family, adminScreen, staffScreen, enabled, budget>>

(* The applications whose draft ApplicationsSection lets the family save. *)
DraftsShown == {i \in Ids : applications[i].status = "DRAFT" /\ applications[i].form # Absent}

(* saveApplicationDraft finds the draft, and then updates it by id. *)
FindDraft(t, i, acknowledged) ==
  /\ i \in DraftsShown /\ applications[i].status = "DRAFT"
  /\ Spend("drafts")
  /\ Begin(t, [op |-> "save", app |-> i, acknowledged |-> acknowledged])
  /\ UNCHANGED <<catalogue, day, family, screens, admission, enabled>>

SaveApplicationDraft(t) ==
  /\ task[t].op = "save"
  /\ applications' = [applications EXCEPT ![task[t].app].acknowledged = task[t].acknowledged]
  /\ End(t)
  /\ UNCHANGED <<catalogue, day, family, screens, authority, offers, handoffs, enabled, budget>>

-----------------------------------------------------------------------------
(* Authority: declarations and reviews, under the lock of the application *)

Today == Days[day]
Adult == IsAdultStudent(student.birth, Today)

MidnightPasses ==
  /\ day < Len(Days)
  /\ day' = day + 1
  /\ UNCHANGED <<catalogue, family, screens, admission, task, enabled, budget>>

Gated == {"submit", "accept", "handoff"}

(* The row lock of the application. *)
Free_Always(i) == TRUE
Free(i) == \A w \in Tabs \cup Staff : task[w].op \in Gated => task[w].app # i

Declared(i) == authority[i].version > 0

(* validateDeclaration: a student of age declares for itself, with SELF. *)
ValidDeclaration(mode, basis) == (mode = "self") = Adult /\ (basis = "SELF") = Adult

LoadFamilyAuthority(t, i) ==
  /\ familyScreen' = [familyScreen EXCEPT ![t] = AuthorityShown(i, authority[i])]
  /\ UNCHANGED <<catalogue, day, family, adminScreen, staffScreen, admission, task, enabled, budget>>

(* What the form of FamilyAuthorityWorkspace can send. *)
DeclarationForms(t) ==
  IF familyScreen[t].adult THEN {[mode |-> "self", basis |-> "SELF"]}
  ELSE [mode : {"minor"}, basis : {"PARENT", "LEGAL_REPRESENTATIVE"}]

(* permittedAfterSubmission *)
ComesOfAge_Corrected(i, mode) == authority[i].mode = "minor"
ComesOfAge(i, mode) == authority[i].mode = "minor" /\ Adult /\ mode = "self"

MayRedeclare(i, mode) ==
  \/ applications[i].status = "DRAFT"
  \/ applications[i].status = "SUBMITTED" /\ ComesOfAge(i, mode)

(* A new declaration starts over; the evidence linked to the row stays. *)
Redeclared_SameVersion(i, form) ==
  [authority[i] EXCEPT !.status = "DECLARED", !.mode = form.mode, !.basis = form.basis, !.birth = student.birth, !.version = IF @ = 0 THEN 1 ELSE @]
Redeclared(i, form) ==
  [authority[i] EXCEPT !.status = "DECLARED", !.mode = form.mode, !.basis = form.basis, !.birth = student.birth, !.version = @ + 1]

DeclareApplicationAuthority(t) ==
  \E i \in {familyScreen[t].app} \ {0} : \E form \in DeclarationForms(t) :
    /\ Free(i) /\ task[t] = Idle
    /\ student.birth # NoDate /\ ValidDeclaration(form.mode, form.basis)
    /\ familyScreen[t].version = authority[i].version
    /\ Declared(i) => MayRedeclare(i, form.mode)
    /\ Spend("declarations")
    /\ authority' = [authority EXCEPT ![i] = Redeclared(i, form)]
    /\ familyScreen' = [familyScreen EXCEPT ![t].version = authority'[i].version, ![t].adult = Adult]
    /\ UNCHANGED <<catalogue, day, family, adminScreen, staffScreen, applications, offers, handoffs, task, enabled>>

AllowedTransitions(status) ==
  CASE status = "DECLARED" -> {"EVIDENCE_PENDING", "UNDER_REVIEW"}
    [] status = "EVIDENCE_PENDING" -> {"UNDER_REVIEW"}
    [] status = "UNDER_REVIEW" -> {"VERIFIED", "EVIDENCE_PENDING", "DISPUTED", "REJECTED"}
    [] status = "VERIFIED" -> {"DISPUTED"}
    [] status = "DISPUTED" -> {"UNDER_REVIEW", "VERIFIED", "REJECTED"}
    [] OTHER -> {}

(* The transitions StaffAuthorityWorkspace offers for what it shows. *)
ReviewOptions(status) == AllowedTransitions(status) \ (IF status = "DECLARED" THEN {"EVIDENCE_PENDING"} ELSE {})

(* The id field keeps what is typed; the rest of the screen what was loaded. *)
TypeApplicationId(s, i) ==
  /\ staffScreen' = [staffScreen EXCEPT ![s].typed = i]
  /\ UNCHANGED <<catalogue, day, family, adminScreen, familyScreen, admission, task, enabled, budget>>

Showing(i, shown) == [typed |-> i, app |-> i, shows |-> shown]

GetStaffAuthority(s) ==
  LET i == staffScreen[s].typed IN
  /\ i \in Ids
  /\ staffScreen' = [staffScreen EXCEPT ![s] = Showing(i, authority[i])]
  /\ UNCHANGED <<catalogue, day, family, adminScreen, familyScreen, admission, task, enabled, budget>>

(* A basis other than PARENT and SELF needs a linked document. *)
EvidenceSuffices(i, linked) == authority[i].basis \in {"PARENT", "SELF"} \/ authority[i].evidence \/ linked

(* The form goes to the application typed, with the version shown. *)
ReviewForms(s) ==
  IF staffScreen[s].app = 0 THEN {}
  ELSE [app : {staffScreen[s].typed}, expected : {staffScreen[s].shows.version},
        to : ReviewOptions(staffScreen[s].shows.status), linked : BOOLEAN]

ReviewApplicationAuthority(s) ==
  \E form \in ReviewForms(s) : LET i == form.app IN
    /\ i \in Ids /\ Free(i)
    /\ Declared(i) /\ authority[i].version = form.expected
    /\ form.to \in AllowedTransitions(authority[i].status)
    /\ form.to = "VERIFIED" => EvidenceSuffices(i, form.linked)
    /\ Spend("reviews")
    /\ authority' = [authority EXCEPT ![i].status = form.to, ![i].version = @ + 1, ![i].evidence = @ \/ form.linked]
    /\ staffScreen' = [staffScreen EXCEPT ![s] = Showing(i, authority'[i])]
    /\ UNCHANGED <<catalogue, day, family, adminScreen, familyScreen, applications, offers, handoffs, task, enabled>>

-----------------------------------------------------------------------------
(* What a verified authority gates *)

(* assertApplicationAuthorityForCriticalAction *)
CriticalActionAllowed(i) ==
  /\ student.birth # NoDate
  /\ authority[i].status = "VERIFIED"
  /\ student.birth = authority[i].birth
  /\ authority[i].mode = (IF Adult THEN "self" ELSE "minor")

UpdatePolicy(on) ==
  /\ enabled # on
  /\ Spend("policies")
  /\ enabled' = on
  /\ UNCHANGED <<catalogue, day, family, screens, admission, task>>

(* assertSensitiveProcessingAllowedForApplicationField; clearing is free. *)
SaveHealthAnswer(t, i, answered) ==
  /\ applications[i].status = "DRAFT" /\ applications[i].health # answered
  /\ answered => enabled /\ CriticalActionAllowed(i)
  /\ applications' = [applications EXCEPT ![i].health = answered]
  /\ UNCHANGED <<catalogue, day, family, screens, authority, offers, handoffs, task, enabled, budget>>

Gate(who, op, i) ==
  /\ Free(i)
  /\ CriticalActionAllowed(i)
  /\ Begin(who, [op |-> op, app |-> i])
  /\ UNCHANGED <<catalogue, day, family, screens, admission, enabled, budget>>

CheckSubmission(t, i) ==
  /\ familyScreen[t].app = i
  /\ applications[i].status = "DRAFT"
  /\ forms[applications[i].form] \in {"PUBLISHED", "ARCHIVED"}
  /\ IsAdmissionOfferingCurrent(offerings[applications[i].offering]) /\ ~offerings[applications[i].offering].closed
  /\ applications[i].health => enabled
  /\ Gate(t, "submit", i)

Submit(t) ==
  /\ task[t].op = "submit"
  /\ applications' = [applications EXCEPT ![task[t].app].status = "SUBMITTED", ![task[t].app].as = authority[task[t].app]]
  /\ End(t)
  /\ UNCHANGED <<catalogue, day, family, screens, authority, offers, handoffs, enabled, budget>>

(* CapacityOffer.tla models offers in full; here one is issued once. *)
IssueOffer(i) ==
  /\ applications[i].status = "SUBMITTED" /\ offers[i] = "none"
  /\ offers' = [offers EXCEPT ![i] = "ACTIVE"]
  /\ UNCHANGED <<catalogue, day, family, screens, applications, authority, handoffs, task, enabled, budget>>

(* The id field of FamilyOfferWorkspace takes any application. *)
CheckAcceptance(t, i) == offers[i] = "ACTIVE" /\ Gate(t, "accept", i)

Accept(t) ==
  /\ task[t].op = "accept"
  /\ offers' = [offers EXCEPT ![task[t].app] = "ACCEPTED"]
  /\ End(t)
  /\ UNCHANGED <<catalogue, day, family, screens, applications, authority, handoffs, enabled, budget>>

CheckHandoff(s, i) == applications[i].status = "SUBMITTED" /\ offers[i] = "ACCEPTED" /\ Gate(s, "handoff", i)

HandedOff(i) == \E n \in DOMAIN handoffs : handoffs[n] = i

(* A second request gets the hand-off of the first. *)
RequestFunctionalHandoff(s) ==
  /\ task[s].op = "handoff"
  /\ handoffs' = IF HandedOff(task[s].app) THEN handoffs ELSE Append(handoffs, task[s].app)
  /\ End(s)
  /\ UNCHANGED <<catalogue, day, family, screens, applications, authority, offers, enabled, budget>>

-----------------------------------------------------------------------------
CatalogueStep ==
  \/ \E y \in Years : CreateAcademicYear(y) \/ \E status \in YearStates : UpdateAcademicYear(y, status)
  \/ \E p \in Processes, y \in Years :
       CreateAdmissionProcess(p, y) \/ \E status \in ProcessStates, window \in Windows : UpdateAdmissionProcess(p, y, status, window)
  \/ \E o \in Offerings, p \in Processes, y \in Years, closed \in BOOLEAN : CreateOffering(o, p, y, closed) \/ UpdateOffering(o, p, y, closed)
  \/ \E o \in Offerings : ConfigureCapacity(o) \/ AdjustCapacity(o) \/ \E f \in FormVersions : AssignOfferingVersion(o, f)
  \/ \E f \in FormVersions : ArchiveVersion(f)
  \/ \E a \in Admins :
       \/ LoadOfferings(a)
       \/ \E o \in Offerings : ChooseOffering(a, o) \/ GetOfferingReadiness(a, o) \/ PublishOffering(a, o) \/ CloseOffering(a, o)
  \/ \E p \in Processes : WindowPasses(p)

FamilyStep ==
  \/ SaveProfile
  \/ \E b \in Birthdays : UpdateStudent(b) \/ CreateStudent(b)
  \/ CreateStudent(NoDate)
  \/ \E t \in Tabs :
       \/ \E o \in Offerings : CheckOffering(t, o)
       \/ CreateApplicationDraft(t) \/ SaveApplicationDraft(t) \/ Submit(t) \/ Accept(t)
       \/ DeclareApplicationAuthority(t)
       \/ \E i \in Ids :
            \/ LoadFamilyAuthority(t, i) \/ CheckSubmission(t, i) \/ CheckAcceptance(t, i)
            \/ \E yes \in BOOLEAN : FindDraft(t, i, yes) \/ SaveHealthAnswer(t, i, yes)

StaffStep ==
  \/ \E on \in BOOLEAN : UpdatePolicy(on)
  \/ \E i \in Ids : IssueOffer(i)
  \/ \E s \in Staff :
       \/ GetStaffAuthority(s) \/ ReviewApplicationAuthority(s) \/ RequestFunctionalHandoff(s)
       \/ \E i \in Ids : TypeApplicationId(s, i) \/ CheckHandoff(s, i)

Next == CatalogueStep \/ FamilyStep \/ StaffStep \/ MidnightPasses
Spec == Init /\ [][Next]_vars

-----------------------------------------------------------------------------
(* Properties *)

(* A publication or a closure overrides nothing that was written since the  *)
(* readiness its command names was read: updateOffering and                 *)
(* assignOfferingVersion, which ask for no expected version, other          *)
(* administrators and late answers may all come between.  Only the capacity *)
(* may be another, a later one, and never none.  What the screen shows      *)
(* beside the readiness is not part of this: see PublishedAsListed,         *)
(* PublishedWithShownCapacity and CommandIsOfTheShownOffering.              *)
CommandsOverrideNoWrite ==
  [][\A o \in Offered : offerings'[o].status # offerings[o].status =>
       \E a \in Admins : LET ready == adminScreen[a].ready IN
         /\ adminScreen[a].chosen = o
         /\ ready.of = o =>
              /\ ready.lifecycle = offerings[o].status /\ ready.asOf = Columns(offerings[o])
              /\ ready.capacity <= offerings[o].capacity
              /\ offerings'[o].status = "PUBLISHED" => ready.capacity > 0]_vars

(* While a submission, an acceptance or a hand-off has checked the         *)
(* authority and not committed, nobody reviews or replaces it: the lock of *)
(* the application, which every writer of application_authorities takes.   *)
(* The date of birth is outside that lock: see StudentHoldsAtCommit.        *)
AuthorityHoldsAtCommit ==
  \A w \in Tabs \cup Staff : task[w].op \in Gated => authority[task[w].app].status = "VERIFIED"

(* A review is of the declaration its reviewer read: between the load and  *)
(* the review the family may declare again, to another basis or another    *)
(* mode, and another reviewer may decide.                                  *)
ReviewSeesTheDeclaration ==
  [][\A i \in Ids :
       authority'[i].status # authority[i].status /\ authority'[i].status # "DECLARED"
         => \E s \in Staff : LET shown == staffScreen[s] IN
              shown.typed = i /\ (shown.app = i => shown.shows = authority[i])]_vars

(* The declaration a submitted application stands on is the one it was     *)
(* submitted under, or the student's own after a representative's: no      *)
(* sequence of redeclarations, corrected dates of birth and reviews puts   *)
(* another representative in its place.                                    *)
Declaration(au) == [mode |-> au.mode, basis |-> au.basis]
SubmittedDeclarationStands ==
  \A i \in Ids : applications[i].status = "SUBMITTED" =>
    \/ Declaration(authority[i]) = Declaration(applications[i].as)
    \/ applications[i].as.mode = "minor" /\ authority[i].mode = "self"

-----------------------------------------------------------------------------
(* What the code does not keep (README, known deviations) *)

(* The review is of the application on the reviewer's screen.              *)
ReviewIsOfTheShownApplication ==
  [][\A i \in Ids :
       authority'[i].status # authority[i].status /\ authority'[i].status # "DECLARED"
         => \E s \in Staff : staffScreen[s].app = i]_vars

(* The student's date of birth does not move between the check of a gated  *)
(* action and its commit.                                                  *)
StudentHoldsAtCommit ==
  \A w \in Tabs \cup Staff : task[w].op \in Gated => student.birth = authority[task[w].app].birth

(* A publication or a closure is of the offering whose readiness is shown:  *)
(* the answer for an option that was left names its version, not its id.    *)
CommandIsOfTheShownOffering ==
  [][\A o \in Offered : offerings'[o].status # offerings[o].status => \E a \in Admins : adminScreen[a].ready.of = o]_vars

(* What is published is what the select lists: loadOfferings is not         *)
(* repeated when the readiness is read again.                               *)
PublishedAsListed ==
  [][\A o \in Offered : offerings[o].status = "DRAFT" /\ offerings'[o].status = "PUBLISHED"
       => \E a \in Admins : adminScreen[a].chosen = o /\ adminScreen[a].list[o] = Listed(o)]_vars

(* What is published has the capacity shown ("La offering o su capacidad    *)
(* cambió"): publishOffering locks the capacity and compares nothing of it. *)
PublishedWithShownCapacity ==
  [][\A o \in Offered : offerings[o].status = "DRAFT" /\ offerings'[o].status = "PUBLISHED"
       => \E a \in Admins : adminScreen[a].ready.of = o /\ adminScreen[a].ready.capacity = offerings[o].capacity]_vars

(* An offering is in the academic year of its process.                     *)
OfferingYearIsItsProcess == \A o \in Offered : offerings[o].year = processes[offerings[o].process].year

=============================================================================
