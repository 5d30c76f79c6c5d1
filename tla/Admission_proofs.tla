---------------------------- MODULE Admission_proofs ----------------------------
(***************************************************************************)
(* Proofs about Admission for every set of administrators, tabs, staff,    *)
(* offerings, birthdays and days.  Two invariants, each inductive: how old  *)
(* a readiness on an administrator's screen may be (CatalogueInv), and     *)
(* what the lock of the application and the version of its declaration     *)
(* keep of an authority that was checked or read (AuthorityInv).           *)
(***************************************************************************)
EXTENDS Admission, TLAPS

OfferingRows ==
  [status : {"DRAFT", "PUBLISHED", "CLOSED"}, process : Processes, year : Years, closed : BOOLEAN,
   form : FormVersions \cup {Absent}, version : Nat, capacity : Nat]

Catalogued == offerings \in [Offerings -> {[status |-> Absent]} \cup OfferingRows]

ReadinessRows ==
  [of : Offerings, lifecycle : {"DRAFT", "PUBLISHED", "CLOSED"}, version : Nat, capacity : Nat,
   asOf : [process : Processes, year : Years, closed : BOOLEAN, form : FormVersions \cup {Absent}]]

(* A readiness is not newer than its offering, and as new only if nothing   *)
(* but the capacity was written since; a capacity only gets newer.          *)
SeenBefore(ready, now) ==
  /\ ready.capacity <= now.capacity
  /\ \/ ready.version < now.version
     \/ ready.version = now.version /\ ready.lifecycle = now.status /\ ready.asOf = Columns(now)

Sound(ready) == ready \in ReadinessRows /\ ready.of \in Offered /\ SeenBefore(ready, offerings[ready.of])

IsScreen(screen) == screen = [list |-> screen.list, chosen |-> screen.chosen, ready |-> screen.ready]

AdminScreens ==
  /\ adminScreen = [a \in Admins |-> adminScreen[a]]
  /\ \A a \in Admins : IsScreen(adminScreen[a])
  /\ \A a \in Admins : adminScreen[a].ready # NoReadiness => Sound(adminScreen[a].ready)

CatalogueInv == Catalogued /\ AdminScreens

-----------------------------------------------------------------------------
(* The catalogue *)

LEMMA OfferedRows == ASSUME Catalogued, NEW o \in Offered PROVE o \in Offerings /\ offerings[o] \in OfferingRows
BY DEF Catalogued, Offered

LEMMA CatalogueInit == Init => CatalogueInv
<1> SUFFICES ASSUME Init PROVE CatalogueInv
  OBVIOUS
<1>1. Catalogued
  <2>1. PICK p \in Processes, f \in FormVersions :
          offerings = [o \in Offerings |->
            IF budget.start \in {"empty", "process"} THEN [status |-> Absent]
            ELSE [status |-> IF budget.start = "draft" THEN "DRAFT" ELSE "PUBLISHED", process |-> p, year |-> processes[p].year,
                  closed |-> FALSE, form |-> f, version |-> IF budget.start = "draft" THEN 2 ELSE 3, capacity |-> 1]]
    BY DEF Init
  <2>2. CASE budget.start \in {"empty", "process"}
    BY <2>1, <2>2 DEF Catalogued
  <2>3. CASE budget.start \notin {"empty", "process"}
    <3>1. PICK y \in Years : processes = [q \in Processes |-> [status |-> "PUBLISHED", year |-> y, window |-> "open"]]
      BY <2>3 DEF Init
    <3>2. PICK st \in {"DRAFT", "PUBLISHED"}, n \in Nat :
            st = (IF budget.start = "draft" THEN "DRAFT" ELSE "PUBLISHED") /\ n = (IF budget.start = "draft" THEN 2 ELSE 3)
      OBVIOUS
    <3>3. PICK row \in OfferingRows :
            row = [status |-> st, process |-> p, year |-> processes[p].year, closed |-> FALSE, form |-> f, version |-> n, capacity |-> 1]
      BY <3>1 DEF OfferingRows
    <3>4. offerings = [o \in Offerings |-> row]
      BY <2>1, <2>3, <3>2, <3>3
    <3> QED BY <3>4 DEF Catalogued
  <2> QED BY <2>2, <2>3
<1>2. AdminScreens
  BY DEF Init, AdminScreens, IsScreen
<1> QED BY <1>1, <1>2 DEF CatalogueInv

(* Every write of an offering moves its version or only its capacity.      *)
Follows(old, row) ==
  /\ old.capacity <= row.capacity
  /\ \/ old.version < row.version
     \/ old.version = row.version /\ old.status = row.status /\ Columns(old) = Columns(row)

LEMMA WriteKeeps ==
  ASSUME CatalogueInv, NEW o \in Offerings, NEW row \in OfferingRows,
         offerings' = [offerings EXCEPT ![o] = row], UNCHANGED adminScreen,
         o \in Offered => Follows(offerings[o], row)
  PROVE  CatalogueInv'
<1>1. \A q \in Offerings : offerings'[q] = IF q = o THEN row ELSE offerings[q]
  BY DEF CatalogueInv, Catalogued
<1>2. Catalogued'
  BY DEF CatalogueInv, Catalogued
<1>3. Offered \subseteq Offered'
  BY <1>1 DEF Offered, OfferingRows, Absent
<1>4. ASSUME NEW a \in Admins, adminScreen[a].ready # NoReadiness
      PROVE  Sound(adminScreen[a].ready)'
  <2>1. PICK q \in Offered, seen \in ReadinessRows : q = seen.of /\ seen = adminScreen[a].ready /\ SeenBefore(seen, offerings[q])
    BY <1>4 DEF CatalogueInv, AdminScreens, Sound
  <2>2. offerings[q] \in OfferingRows
    BY OfferedRows DEF CatalogueInv
  <2>3. SeenBefore(seen, offerings'[q])
    <3>1. CASE q # o
      BY <1>1, <2>1, <3>1, OfferedRows DEF CatalogueInv
    <3>2. CASE q = o
      <4>1. PICK old \in OfferingRows : old = offerings[q]
        BY <2>2
      <4>2. Follows(old, row) /\ SeenBefore(seen, old)
        BY <2>1, <3>2, <4>1
      <4>3. /\ seen.version \in Nat /\ old.version \in Nat /\ row.version \in Nat
            /\ seen.capacity \in Nat /\ old.capacity \in Nat /\ row.capacity \in Nat
        BY DEF ReadinessRows, OfferingRows
      <4>4. SeenBefore(seen, row)
        <5>1. PICK x, y, z : x = seen.asOf /\ y = Columns(old) /\ z = Columns(row)
          OBVIOUS
        <5>2. /\ seen.capacity <= old.capacity
              /\ seen.version < old.version \/ (seen.version = old.version /\ seen.lifecycle = old.status /\ x = y)
          BY <4>2, <5>1 DEF SeenBefore
        <5>3. /\ old.capacity <= row.capacity
              /\ old.version < row.version \/ (old.version = row.version /\ old.status = row.status /\ y = z)
          BY <4>2, <5>1 DEF Follows
        <5>4. /\ seen.capacity <= row.capacity
              /\ seen.version < row.version \/ (seen.version = row.version /\ seen.lifecycle = row.status /\ x = z)
          BY <4>3, <5>2, <5>3
        <5> QED BY <5>1, <5>4 DEF SeenBefore
      <4>5. offerings'[q] = row
        BY <1>1, <3>2
      <4> QED BY <4>4, <4>5
    <3> QED BY <3>1, <3>2
  <2>4. adminScreen'[a].ready = seen /\ q \in Offered'
    BY <1>3, <2>1
  <2>5. Sound(seen)'
    BY <2>1, <2>3, <2>4 DEF Sound
  <2> QED BY <2>1, <2>5 DEF Sound
<1>5. AdminScreens'
  BY <1>4 DEF CatalogueInv, AdminScreens
<1> QED BY <1>2, <1>5 DEF CatalogueInv

LEMMA OfferingStepKeeps ==
  ASSUME CatalogueInv, NEW o \in Offerings,
         \/ \E p \in Processes, y \in Years, closed \in BOOLEAN : CreateOffering(o, p, y, closed) \/ UpdateOffering(o, p, y, closed)
         \/ ConfigureCapacity(o) \/ AdjustCapacity(o) \/ \E f \in FormVersions : AssignOfferingVersion(o, f)
         \/ \E a \in Admins : PublishOffering(a, o) \/ CloseOffering(a, o)
  PROVE  CatalogueInv'
<1>1. UNCHANGED adminScreen
  BY DEF CreateOffering, UpdateOffering, ConfigureCapacity, AdjustCapacity, AssignOfferingVersion, PublishOffering, CloseOffering, WriteOffering
<1>2. ASSUME NEW p \in Processes, NEW y \in Years, NEW closed \in BOOLEAN, CreateOffering(o, p, y, closed)
      PROVE  CatalogueInv'
  <2>1. PICK row \in OfferingRows :
          row = [status |-> "DRAFT", process |-> p, year |-> y, closed |-> closed, form |-> Absent, version |-> 1, capacity |-> 0]
    BY DEF OfferingRows
  <2>2. offerings' = [offerings EXCEPT ![o] = row] /\ o \notin Offered
    BY <1>2, <2>1 DEF CreateOffering, WriteOffering, AdminForm, Offered
  <2> QED BY <1>1, <2>2, WriteKeeps
<1> DEFINE old == offerings[o]
<1>3. ASSUME o \in Offered PROVE old \in OfferingRows /\ old.version \in Nat /\ old.capacity \in Nat
  BY <1>3, OfferedRows DEF CatalogueInv, OfferingRows
<1> HIDE DEF old
<1>4. ASSUME NEW p \in Processes, NEW y \in Years, NEW closed \in BOOLEAN, UpdateOffering(o, p, y, closed)
      PROVE  CatalogueInv'
  <2>1. o \in Offered /\ offerings' = [offerings EXCEPT ![o] =
          [old EXCEPT !.process = p, !.year = y, !.closed = closed, !.version = @ + 1]]
    BY <1>4 DEF UpdateOffering, WriteOffering, old
  <2>2. PICK n \in Nat : n = old.version + 1
    BY <1>3, <2>1
  <2>3. PICK row : row = [old EXCEPT !.process = p, !.year = y, !.closed = closed, !.version = n]
    OBVIOUS
  <2>4. row \in OfferingRows /\ row.version = n /\ row.capacity = old.capacity
    BY <1>3, <2>1, <2>3 DEF OfferingRows
  <2>5. offerings' = [offerings EXCEPT ![o] = row] /\ old.version < row.version
    BY <1>3, <2>1, <2>2, <2>3, <2>4
  <2>6. Follows(old, row)
    BY <1>3, <2>1, <2>4, <2>5 DEF Follows
  <2> QED BY <1>1, <2>4, <2>5, <2>6, WriteKeeps DEF old
<1>5. CASE ConfigureCapacity(o) \/ AdjustCapacity(o)
  <2>1. PICK n \in Nat : o \in Offered /\ old.capacity <= n /\ offerings' = [offerings EXCEPT ![o] = [old EXCEPT !.capacity = n]]
    <3>1. CASE ConfigureCapacity(o)
      <4>1. o \in Offered /\ old.capacity = 0 /\ offerings' = [offerings EXCEPT ![o] = [old EXCEPT !.capacity = 1]]
        BY <3>1 DEF ConfigureCapacity, WriteOffering, old
      <4>2. 1 \in Nat /\ old.capacity <= 1
        BY <4>1
      <4> QED BY <4>1, <4>2
    <3>2. CASE AdjustCapacity(o)
      <4>1. o \in Offered /\ offerings' = [offerings EXCEPT ![o] = [old EXCEPT !.capacity = @ + 1]]
        BY <3>2 DEF AdjustCapacity, WriteOffering, old
      <4>2. old.capacity + 1 \in Nat /\ old.capacity <= old.capacity + 1
        BY <1>3, <4>1
      <4> QED BY <4>1, <4>2
    <3> QED BY <1>5, <3>1, <3>2
  <2>2. PICK row : row = [old EXCEPT !.capacity = n]
    OBVIOUS
  <2>3. row \in OfferingRows /\ Follows(old, row)
    BY <1>3, <2>1, <2>2 DEF OfferingRows, Follows, Columns
  <2> QED BY <1>1, <2>1, <2>2, <2>3, WriteKeeps DEF old
<1>6. ASSUME NEW f \in FormVersions, AssignOfferingVersion(o, f) PROVE CatalogueInv'
  <2>1. o \in Offered /\ offerings' = [offerings EXCEPT ![o] = [old EXCEPT !.form = f, !.version = @ + 1]]
    BY <1>6 DEF AssignOfferingVersion, WriteOffering, Assigned, old
  <2>2. PICK n \in Nat : n = old.version + 1
    BY <1>3, <2>1
  <2>3. PICK row : row = [old EXCEPT !.form = f, !.version = n]
    OBVIOUS
  <2>4. row \in OfferingRows /\ row.version = n /\ row.capacity = old.capacity
    BY <1>3, <2>1, <2>3 DEF OfferingRows
  <2>5. offerings' = [offerings EXCEPT ![o] = row] /\ old.version < row.version
    BY <1>3, <2>1, <2>2, <2>3, <2>4
  <2>6. Follows(old, row)
    BY <1>3, <2>1, <2>4, <2>5 DEF Follows
  <2> QED BY <1>1, <2>4, <2>5, <2>6, WriteKeeps DEF old
<1>7. ASSUME NEW a \in Admins, PublishOffering(a, o) \/ CloseOffering(a, o) PROVE CatalogueInv'
  <2>1. PICK to \in {"PUBLISHED", "CLOSED"} :
          o \in Offered /\ offerings' = [offerings EXCEPT ![o] = [old EXCEPT !.status = to, !.version = @ + 1]]
    BY <1>7 DEF PublishOffering, CloseOffering, WriteOffering, old
  <2>2. PICK n \in Nat : n = old.version + 1
    BY <1>3, <2>1
  <2>3. PICK row : row = [old EXCEPT !.status = to, !.version = n]
    OBVIOUS
  <2>4. row \in OfferingRows /\ row.version = n /\ row.capacity = old.capacity
    BY <1>3, <2>1, <2>3 DEF OfferingRows
  <2>5. offerings' = [offerings EXCEPT ![o] = row] /\ old.version < row.version
    BY <1>3, <2>1, <2>2, <2>3, <2>4
  <2>6. Follows(old, row)
    BY <1>3, <2>1, <2>4, <2>5 DEF Follows
  <2> QED BY <1>1, <2>4, <2>5, <2>6, WriteKeeps DEF old
<1> QED BY <1>2, <1>4, <1>5, <1>6, <1>7

(* A readiness that arrives is the offering as it is; the other fetches and *)
(* choices keep the readiness or clear it.                                  *)
LEMMA LookKeeps ==
  ASSUME CatalogueInv, NEW b \in Admins, NEW screen, Look(b, screen), IsScreen(screen),
         \/ screen.ready \in {adminScreen[b].ready, NoReadiness}
         \/ \E o \in Offered : screen.ready = Readiness(o)
  PROVE  CatalogueInv'
<1>1. UNCHANGED offerings /\ adminScreen' = [adminScreen EXCEPT ![b] = screen]
  BY DEF Look, catalogue
<1>2. \A a \in Admins : adminScreen'[a] = IF a = b THEN screen ELSE adminScreen[a]
  BY <1>1 DEF CatalogueInv, AdminScreens
<1>3. adminScreen' = [a \in Admins |-> adminScreen'[a]]
  BY <1>1 DEF CatalogueInv, AdminScreens
<1>4. ASSUME NEW o \in Offered PROVE Sound(Readiness(o))
  <2>1. PICK row \in OfferingRows : row = offerings[o] /\ o \in Offerings
    BY OfferedRows DEF CatalogueInv
  <2>2. PICK ready : ready = [of |-> o, lifecycle |-> row.status, version |-> row.version, capacity |-> row.capacity, asOf |-> Columns(row)]
    OBVIOUS
  <2>3. ready \in ReadinessRows /\ ready.of = o
    BY <2>1, <2>2 DEF ReadinessRows, OfferingRows, Columns
  <2>4. SeenBefore(ready, row)
    BY <2>1, <2>2 DEF SeenBefore, OfferingRows
  <2> QED BY <2>1, <2>2, <2>3, <2>4 DEF Sound, Readiness
<1>5. ASSUME NEW a \in Admins, adminScreen'[a].ready # NoReadiness PROVE Sound(adminScreen'[a].ready)
  BY <1>2, <1>4, <1>5 DEF CatalogueInv, AdminScreens
<1>6. Offered' = Offered
  BY <1>1 DEF Offered
<1>7. ASSUME NEW ready, Sound(ready) PROVE ready \in ReadinessRows /\ ready.of \in Offered' /\ SeenBefore(ready, offerings'[ready.of])
  BY <1>1, <1>6, <1>7 DEF Sound
<1>8. \A a \in Admins : IsScreen(adminScreen'[a])
  BY <1>2 DEF CatalogueInv, AdminScreens
<1>9. AdminScreens'
  BY <1>3, <1>5, <1>7, <1>8 DEF AdminScreens, Sound, IsScreen
<1> QED BY <1>1, <1>9 DEF CatalogueInv, Catalogued

LEMMA ScreenLoadsKeep ==
  ASSUME CatalogueInv, NEW b \in Admins,
         LoadOfferings(b) \/ \E o \in Offerings : ChooseOffering(b, o) \/ GetOfferingReadiness(b, o)
  PROVE  CatalogueInv'
<1> DEFINE old == adminScreen[b]
<1>0. old = [list |-> old.list, chosen |-> old.chosen, ready |-> old.ready]
  BY DEF CatalogueInv, AdminScreens, IsScreen
<1>1. CASE LoadOfferings(b)
  <2>1. PICK list, screen : screen = [old EXCEPT !.list = list] /\ Look(b, screen)
    BY <1>1 DEF LoadOfferings
  <2>2. screen = [list |-> list, chosen |-> old.chosen, ready |-> old.ready]
    BY <1>0, <2>1
  <2>3. IsScreen(screen) /\ screen.ready = adminScreen[b].ready
    BY <2>2 DEF IsScreen
  <2> QED BY <2>1, <2>3, LookKeeps
<1>2. ASSUME NEW o \in Offerings, ChooseOffering(b, o) PROVE CatalogueInv'
  <2>1. PICK screen : screen = [old EXCEPT !.chosen = o, !.ready = NoReadiness] /\ Look(b, screen)
    BY <1>2 DEF ChooseOffering
  <2>2. screen = [list |-> old.list, chosen |-> o, ready |-> NoReadiness]
    BY <1>0, <2>1
  <2>3. IsScreen(screen) /\ screen.ready = NoReadiness
    BY <2>2 DEF IsScreen
  <2> QED BY <2>1, <2>3, LookKeeps
<1>3. ASSUME NEW o \in Offerings, GetOfferingReadiness(b, o) PROVE CatalogueInv'
  <2>1. PICK screen : o \in Offered /\ screen = [old EXCEPT !.ready = Readiness(o)] /\ Look(b, screen)
    BY <1>3 DEF GetOfferingReadiness
  <2>2. screen = [list |-> old.list, chosen |-> old.chosen, ready |-> Readiness(o)]
    BY <1>0, <2>1
  <2>3. IsScreen(screen) /\ screen.ready = Readiness(o)
    BY <2>2 DEF IsScreen
  <2> QED BY <2>1, <2>3, LookKeeps
<1> QED BY <1>1, <1>2, <1>3

LEMMA CatalogueUnchanged == ASSUME CatalogueInv, UNCHANGED <<offerings, adminScreen>> PROVE CatalogueInv'
BY DEF CatalogueInv, Catalogued, AdminScreens, Sound, Offered

LEMMA OtherStepsKeepOfferings ==
  ASSUME FamilyStep \/ StaffStep \/ MidnightPasses \/ UNCHANGED vars
  PROVE  UNCHANGED <<offerings, adminScreen>>
<1> USE DEF catalogue, screens
<1>1. ASSUME NEW t \in Tabs,
             \/ \E o \in Offerings : CheckOffering(t, o)
             \/ CreateApplicationDraft(t) \/ SaveApplicationDraft(t) \/ Submit(t) \/ Accept(t)
             \/ DeclareApplicationAuthority(t)
             \/ \E i \in Ids : LoadFamilyAuthority(t, i) \/ CheckSubmission(t, i) \/ CheckAcceptance(t, i)
             \/ \E i \in Ids, yes \in BOOLEAN : FindDraft(t, i, yes) \/ SaveHealthAnswer(t, i, yes)
      PROVE  UNCHANGED <<offerings, adminScreen>>
  BY <1>1 DEF CheckOffering, CreateApplicationDraft, SaveApplicationDraft, Submit, Accept, DeclareApplicationAuthority,
       LoadFamilyAuthority, CheckSubmission, CheckAcceptance, Gate, FindDraft, SaveHealthAnswer
<1>2. ASSUME FamilyStep PROVE UNCHANGED <<offerings, adminScreen>>
  BY <1>1, <1>2 DEF FamilyStep, SaveProfile, UpdateStudent, CreateStudent
<1>3. ASSUME NEW s \in Staff,
             \/ GetStaffAuthority(s) \/ ReviewApplicationAuthority(s) \/ RequestFunctionalHandoff(s)
             \/ \E i \in Ids : TypeApplicationId(s, i) \/ CheckHandoff(s, i)
      PROVE  UNCHANGED <<offerings, adminScreen>>
  BY <1>3 DEF GetStaffAuthority, ReviewApplicationAuthority, RequestFunctionalHandoff, TypeApplicationId, CheckHandoff, Gate
<1>4. ASSUME StaffStep PROVE UNCHANGED <<offerings, adminScreen>>
  BY <1>3, <1>4 DEF StaffStep, UpdatePolicy, IssueOffer
<1> QED BY <1>2, <1>4 DEF MidnightPasses, vars

LEMMA CatalogueStepKeeps == ASSUME CatalogueInv, [Next]_vars PROVE CatalogueInv'
<1>1. CASE UNCHANGED <<offerings, adminScreen>>
  BY <1>1, CatalogueUnchanged
<1>2. CASE CatalogueStep
  <2>1. ASSUME NEW y \in Years, CreateAcademicYear(y) \/ \E status \in YearStates : UpdateAcademicYear(y, status)
        PROVE  CatalogueInv'
    BY <1>1, <2>1 DEF CreateAcademicYear, UpdateAcademicYear
  <2>2. ASSUME NEW p \in Processes, NEW y \in Years,
               CreateAdmissionProcess(p, y) \/ \E status \in ProcessStates, window \in Windows : UpdateAdmissionProcess(p, y, status, window)
        PROVE  CatalogueInv'
    BY <1>1, <2>2 DEF CreateAdmissionProcess, UpdateAdmissionProcess, SaveProcess
  <2>3. ASSUME NEW f \in FormVersions, ArchiveVersion(f) PROVE CatalogueInv'
    BY <1>1, <2>3 DEF ArchiveVersion
  <2>4. ASSUME NEW p \in Processes, WindowPasses(p) PROVE CatalogueInv'
    BY <1>1, <2>4 DEF WindowPasses
  <2> QED BY <1>2, <2>1, <2>2, <2>3, <2>4, OfferingStepKeeps, ScreenLoadsKeep DEF CatalogueStep
<1>3. CASE FamilyStep \/ StaffStep \/ MidnightPasses \/ UNCHANGED vars
  BY <1>1, <1>3, OtherStepsKeepOfferings
<1> QED BY <1>2, <1>3 DEF Next

-----------------------------------------------------------------------------
(* The authority *)

AuthorityStates ==
  {"NOT_DECLARED", "DECLARED", "EVIDENCE_PENDING", "UNDER_REVIEW", "VERIFIED", "DISPUTED", "REJECTED"}
AuthorityRows ==
  [status : AuthorityStates, mode : {"none", "self", "minor"},
   basis : {"none", "SELF", "PARENT", "LEGAL_REPRESENTATIVE"}, birth : Birthdays \cup {NoDate},
   version : Nat, evidence : BOOLEAN]
ApplicationRows ==
  [offering : Offerings, process : Processes, year : Years, form : FormVersions \cup {Absent},
   status : Active, acknowledged : BOOLEAN, health : BOOLEAN, as : AuthorityRows]

Rows ==
  /\ applications \in Seq(ApplicationRows)
  /\ authority \in Seq(AuthorityRows)
  /\ Len(authority) = Len(applications)
  /\ student \in [known : BOOLEAN, birth : Birthdays \cup {NoDate}]

(* What a tab or a staff member is in the middle of. *)
TaskFits(t) ==
  /\ t.op = "create" => t.offering \in Offerings /\ t.seen \in OfferingRows
  /\ t.op = "save" => t.app \in 1 .. Len(applications) /\ t.acknowledged \in BOOLEAN
  /\ t.op \in Gated => t.app \in 1 .. Len(applications)

Tasks ==
  /\ task = [w \in Tabs \cup Staff |-> task[w]]
  /\ \A w \in Tabs \cup Staff : TaskFits(task[w])

FamilyRows == {NoScreen} \cup [app : Nat, version : Nat, adult : BOOLEAN]

FamilyScreens ==
  /\ familyScreen \in [Tabs -> FamilyRows]
  /\ \A t \in Tabs : familyScreen[t].app # 0 => familyScreen[t].app \in 1 .. Len(applications)

(* A declaration on the screen of the staff is the one there is, or the    *)
(* version has moved on.                                                   *)
StaffRows == [typed : Nat, app : {0}] \cup [typed : Nat, app : Nat \ {0}, shows : AuthorityRows]

ReadBefore(shows, now) == shows.version < now.version \/ shows = now

StaffScreens ==
  /\ staffScreen \in [Staff -> StaffRows]
  /\ \A s \in Staff : staffScreen[s].app # 0 =>
       /\ staffScreen[s].app \in 1 .. Len(authority)
       /\ ReadBefore(staffScreen[s].shows, authority[staffScreen[s].app])

(* Nothing is decided before it is declared. *)
DeclaredFirst ==
  \A i \in 1 .. Len(authority) :
    /\ authority[i].version = 0 => authority[i].status = "NOT_DECLARED"
    /\ applications[i].status = "SUBMITTED" => authority[i].version > 0

AuthorityInv ==
  /\ Rows /\ Tasks /\ FamilyScreens /\ StaffScreens /\ DeclaredFirst
  /\ AuthorityHoldsAtCommit /\ SubmittedDeclarationStands

LEMMA AuthorityInit == Init => AuthorityInv
<1> SUFFICES ASSUME Init PROVE AuthorityInv
  OBVIOUS
<1>1. /\ applications = <<>> /\ authority = <<>> /\ student = [known |-> FALSE, birth |-> NoDate]
      /\ familyScreen = [t \in Tabs |-> NoScreen] /\ staffScreen = [s \in Staff |-> [typed |-> 0, app |-> 0]]
      /\ task = [w \in Tabs \cup Staff |-> Idle]
  BY DEF Init
<1>2. <<>> \in Seq(ApplicationRows) /\ <<>> \in Seq(AuthorityRows)
  OBVIOUS
<1>3. Rows
  BY <1>1, <1>2 DEF Rows
<1>4. Tasks /\ AuthorityHoldsAtCommit
  BY <1>1 DEF Tasks, TaskFits, AuthorityHoldsAtCommit, Idle, Gated
<1>5. FamilyScreens /\ StaffScreens
  BY <1>1 DEF FamilyScreens, FamilyRows, StaffScreens, StaffRows, NoScreen
<1>6. DeclaredFirst /\ SubmittedDeclarationStands
  BY <1>1 DEF DeclaredFirst, SubmittedDeclarationStands, Ids
<1> QED BY <1>3, <1>4, <1>5, <1>6 DEF AuthorityInv

LEMMA RowFacts ==
  ASSUME Rows
  PROVE  /\ Len(applications) \in Nat /\ Len(authority) = Len(applications)
         /\ Ids = 1 .. Len(applications)
         /\ \A i \in 1 .. Len(applications) : applications[i] \in ApplicationRows /\ authority[i] \in AuthorityRows
BY DEF Rows, Ids

LEMMA IdleFits == TaskFits(Idle) /\ Idle.op = "none" /\ Idle.op \notin Gated
BY DEF TaskFits, Idle, Gated

(* A task begins or ends. *)
LEMMA TaskKeeps ==
  ASSUME AuthorityInv, NEW w \in Tabs \cup Staff, NEW t, task' = [task EXCEPT ![w] = t],
         TaskFits(t), t.op \in Gated => authority[t.app].status = "VERIFIED",
         UNCHANGED authority, Len(applications') = Len(applications)
  PROVE  Tasks' /\ AuthorityHoldsAtCommit'
<1>1. \A v \in Tabs \cup Staff : task'[v] = IF v = w THEN t ELSE task[v]
  BY DEF AuthorityInv, Tasks
<1>2. task' = [v \in Tabs \cup Staff |-> task'[v]]
  BY DEF AuthorityInv, Tasks
<1>3. Tasks'
  BY <1>1, <1>2 DEF AuthorityInv, Tasks, TaskFits
<1>4. AuthorityHoldsAtCommit'
  BY <1>1 DEF AuthorityInv, AuthorityHoldsAtCommit
<1> QED BY <1>3, <1>4

(* What concerns no application keeps it all. *)
LEMMA AuthorityFrame ==
  ASSUME AuthorityInv, UNCHANGED <<applications, authority, task, familyScreen, staffScreen>>,
         student' \in [known : BOOLEAN, birth : Birthdays \cup {NoDate}]
  PROVE  AuthorityInv'
BY DEF AuthorityInv, Rows, Tasks, TaskFits, FamilyScreens, StaffScreens, DeclaredFirst, AuthorityHoldsAtCommit,
       SubmittedDeclarationStands, Ids

LEMMA ScreenFrame ==
  ASSUME AuthorityInv, UNCHANGED <<familyScreen, staffScreen, authority>>, Len(applications') = Len(applications)
  PROVE  FamilyScreens' /\ StaffScreens'
BY DEF AuthorityInv, FamilyScreens, StaffScreens

LEMMA TaskStepKeeps ==
  ASSUME CatalogueInv, AuthorityInv,
         \/ \E t \in Tabs :
              \/ \E o \in Offerings : CheckOffering(t, o)
              \/ \E i \in Ids : CheckSubmission(t, i) \/ CheckAcceptance(t, i) \/ \E yes \in BOOLEAN : FindDraft(t, i, yes)
              \/ Accept(t)
         \/ \E s \in Staff : RequestFunctionalHandoff(s) \/ \E i \in Ids : CheckHandoff(s, i)
  PROVE  AuthorityInv'
<1>1. UNCHANGED <<applications, authority, familyScreen, staffScreen, student>>
  BY DEF CheckOffering, CheckSubmission, CheckAcceptance, FindDraft, Accept, RequestFunctionalHandoff, CheckHandoff,
         Gate, screens, admission, family
<1>2. Tasks' /\ AuthorityHoldsAtCommit'
  <2>1. ASSUME NEW t \in Tabs, NEW o \in Offerings, CheckOffering(t, o) PROVE Tasks' /\ AuthorityHoldsAtCommit'
    <3>1. o \in Offered /\ offerings[o] \in OfferingRows
      BY <2>1, OfferedRows DEF CheckOffering, StartApplication, OffersToStart, PublicOfferings, CatalogueInv
    <3>2. PICK row : row = [op |-> "create", offering |-> o, seen |-> offerings[o]]
      OBVIOUS
    <3>3. TaskFits(row) /\ row.op \notin Gated
      BY <3>1, <3>2 DEF TaskFits, Gated
    <3>4. task' = [task EXCEPT ![t] = row]
      BY <2>1, <3>2 DEF CheckOffering, Begin
    <3> QED BY <1>1, <3>3, <3>4, TaskKeeps
  <2>2. ASSUME NEW t \in Tabs, NEW i \in Ids, NEW yes \in BOOLEAN, FindDraft(t, i, yes)
        PROVE  Tasks' /\ AuthorityHoldsAtCommit'
    <3>1. PICK row : row = [op |-> "save", app |-> i, acknowledged |-> yes]
      OBVIOUS
    <3>2. TaskFits(row) /\ row.op \notin Gated
      BY <3>1, RowFacts DEF TaskFits, Gated, AuthorityInv
    <3>3. task' = [task EXCEPT ![t] = row]
      BY <2>2, <3>1 DEF FindDraft, Begin
    <3> QED BY <1>1, <3>2, <3>3, TaskKeeps
  <2>3. ASSUME NEW w \in Tabs \cup Staff, NEW op \in Gated, NEW i \in Ids, Gate(w, op, i)
        PROVE  Tasks' /\ AuthorityHoldsAtCommit'
    <3>1. PICK row : row = [op |-> op, app |-> i]
      OBVIOUS
    <3>2. TaskFits(row) /\ row.app = i
      BY <3>1, RowFacts DEF TaskFits, Gated, AuthorityInv
    <3>3. task' = [task EXCEPT ![w] = row] /\ authority[i].status = "VERIFIED"
      BY <2>3, <3>1 DEF Gate, Begin, CriticalActionAllowed
    <3> QED BY <1>1, <3>2, <3>3, TaskKeeps
  <2>4. ASSUME NEW w \in Tabs \cup Staff, Accept(w) \/ RequestFunctionalHandoff(w)
        PROVE  Tasks' /\ AuthorityHoldsAtCommit'
    BY <1>1, <2>4, IdleFits, TaskKeeps DEF Accept, RequestFunctionalHandoff, End
  <2> QED BY <2>1, <2>2, <2>3, <2>4 DEF CheckSubmission, CheckAcceptance, CheckHandoff, Gated
<1>3. FamilyScreens' /\ StaffScreens'
  BY <1>1, ScreenFrame
<1> QED BY <1>1, <1>2, <1>3 DEF AuthorityInv, Rows, DeclaredFirst, SubmittedDeclarationStands, Ids

LEMMA UndeclaredRow == Undeclared \in AuthorityRows /\ Undeclared.version = 0 /\ Undeclared.status = "NOT_DECLARED"
BY DEF Undeclared, AuthorityRows, AuthorityStates

(* A draft is a new application with a declaration to come. *)
LEMMA CreateKeeps == ASSUME AuthorityInv, NEW t \in Tabs, CreateApplicationDraft(t) PROVE AuthorityInv'
<1> DEFINE o == task[t].offering
           seen == task[t].seen
<1>1. /\ task[t].op = "create" /\ task' = [task EXCEPT ![t] = Idle]
      /\ UNCHANGED <<student, staffScreen>>
  BY DEF CreateApplicationDraft, End, family
<1>2. o \in Offerings /\ seen \in OfferingRows
  BY <1>1 DEF AuthorityInv, Tasks, TaskFits
<1>3. CASE Duplicate(o, seen)
  <2>1. UNCHANGED <<applications, authority, familyScreen>>
    BY <1>3 DEF CreateApplicationDraft, admission
  <2>2. Tasks' /\ AuthorityHoldsAtCommit'
    BY <1>1, <2>1, IdleFits, TaskKeeps
  <2>3. FamilyScreens' /\ StaffScreens'
    BY <1>1, <2>1, ScreenFrame
  <2> QED BY <1>1, <2>1, <2>2, <2>3 DEF AuthorityInv, Rows, DeclaredFirst, SubmittedDeclarationStands, Ids
<1>4. CASE ~Duplicate(o, seen)
  <2>1. PICK n \in Nat : n = Len(applications) /\ n = Len(authority) /\ n + 1 \in Nat
    BY RowFacts DEF AuthorityInv
  <2>2. PICK undeclared \in AuthorityRows :
          undeclared = Undeclared /\ undeclared.version = 0 /\ undeclared.status = "NOT_DECLARED"
    BY UndeclaredRow
  <2>3. PICK draft \in ApplicationRows :
          /\ applications' = Append(applications, draft)
          /\ draft.status = "DRAFT"
    <3>1. applications' = Append(applications,
            [offering |-> o, process |-> seen.process, year |-> seen.year, form |-> seen.form,
             status |-> "DRAFT", acknowledged |-> FALSE, health |-> FALSE, as |-> Undeclared])
      BY <1>4 DEF CreateApplicationDraft
    <3>2. seen.process \in Processes /\ seen.year \in Years /\ seen.form \in FormVersions \cup {Absent}
      BY <1>2 DEF OfferingRows
    <3>3. PICK draft : draft = [offering |-> o, process |-> seen.process, year |-> seen.year, form |-> seen.form,
             status |-> "DRAFT", acknowledged |-> FALSE, health |-> FALSE, as |-> Undeclared]
      OBVIOUS
    <3>4. draft \in ApplicationRows /\ draft.status = "DRAFT"
      BY <1>2, <2>2, <3>2, <3>3 DEF ApplicationRows, Active
    <3> QED BY <3>1, <3>3, <3>4
  <2>4. authority' = Append(authority, undeclared)
    BY <1>4, <2>2 DEF CreateApplicationDraft
  <2>5. familyScreen' = [familyScreen EXCEPT ![t] = AuthorityShown(n + 1, Undeclared)]
    BY <1>4, <2>1 DEF CreateApplicationDraft
  <2>6. /\ applications' \in Seq(ApplicationRows) /\ Len(applications') = n + 1
        /\ applications'[n + 1] = draft /\ \A i \in 1 .. n : applications'[i] = applications[i]
    BY <2>1, <2>3 DEF AuthorityInv, Rows
  <2>7. /\ authority' \in Seq(AuthorityRows) /\ Len(authority') = n + 1
        /\ authority'[n + 1] = undeclared /\ \A i \in 1 .. n : authority'[i] = authority[i]
    BY <2>1, <2>4 DEF AuthorityInv, Rows
  <2>8. Rows'
    BY <1>1, <2>6, <2>7 DEF AuthorityInv, Rows
  <2>9. \A v \in Tabs \cup Staff : task'[v] = IF v = t THEN Idle ELSE task[v]
    BY <1>1 DEF AuthorityInv, Tasks
  <2>10. Tasks'
    <3>1. task' = [v \in Tabs \cup Staff |-> task'[v]]
      BY <1>1 DEF AuthorityInv, Tasks
    <3>2. \A j \in 1 .. Len(applications) : j \in 1 .. Len(applications')
      BY <2>1, <2>6
    <3>3. ASSUME NEW v \in Tabs \cup Staff PROVE TaskFits(task[v])'
      <4>1. CASE v = t
        BY <2>9, <4>1, IdleFits DEF TaskFits, Idle, Gated
      <4>2. CASE v # t
        <5>1. TaskFits(task[v]) /\ task'[v] = task[v]
          BY <2>9, <4>2 DEF AuthorityInv, Tasks
        <5> QED BY <3>2, <5>1 DEF TaskFits
      <4> QED BY <4>1, <4>2
    <3> QED BY <3>1, <3>3 DEF Tasks
  <2>11. AuthorityHoldsAtCommit'
    BY <2>1, <2>7, <2>9, IdleFits DEF AuthorityInv, AuthorityHoldsAtCommit, Tasks, TaskFits
  <2>12. FamilyScreens'
    <3>1. PICK shown : shown = AuthorityShown(n + 1, Undeclared)
      OBVIOUS
    <3>2. shown \in FamilyRows /\ shown.app = n + 1
      BY <2>1, <3>1 DEF AuthorityShown, FamilyRows, IsAdultStudent, Undeclared
    <3>3. familyScreen' = [familyScreen EXCEPT ![t] = shown]
      BY <2>5, <3>1
    <3> QED BY <2>1, <2>6, <3>2, <3>3 DEF AuthorityInv, FamilyScreens
  <2>13. StaffScreens'
    BY <1>1, <2>1, <2>7 DEF AuthorityInv, StaffScreens
  <2>14. DeclaredFirst' /\ SubmittedDeclarationStands'
    <3>1. \A i \in 1 .. n + 1 : i \in 1 .. n \/ i = n + 1
      OBVIOUS
    <3>2. Ids = 1 .. n /\ Ids' = 1 .. n + 1
      BY <2>1, <2>6 DEF Ids, AuthorityInv, Rows
    <3>3. DeclaredFirst'
      BY <2>1, <2>2, <2>3, <2>6, <2>7, <3>1 DEF AuthorityInv, DeclaredFirst
    <3>4. SubmittedDeclarationStands'
      BY <2>1, <2>3, <2>6, <2>7, <3>1, <3>2 DEF AuthorityInv, SubmittedDeclarationStands
    <3> QED BY <3>3, <3>4
  <2> QED BY <2>8, <2>10, <2>11, <2>12, <2>13, <2>14 DEF AuthorityInv
<1> QED BY <1>3, <1>4

(* An application is saved, or it is submitted under its authority. *)
LEMMA ApplicationKeeps ==
  ASSUME AuthorityInv, NEW i \in 1 .. Len(applications), NEW row \in ApplicationRows,
         applications' = [applications EXCEPT ![i] = row],
         UNCHANGED <<authority, familyScreen, staffScreen, student>>,
         Tasks', AuthorityHoldsAtCommit',
         \/ row.status = applications[i].status /\ row.as = applications[i].as
         \/ row.as = authority[i] /\ authority[i].status = "VERIFIED"
  PROVE  AuthorityInv'
<1>1. /\ applications' \in Seq(ApplicationRows) /\ Len(applications') = Len(applications)
      /\ \A j \in 1 .. Len(applications) : applications'[j] = IF j = i THEN row ELSE applications[j]
  BY DEF AuthorityInv, Rows
<1>2. FamilyScreens' /\ StaffScreens'
  BY <1>1, ScreenFrame
<1>3. Rows'
  BY <1>1 DEF AuthorityInv, Rows
<1>4. Ids = 1 .. Len(applications) /\ Ids' = Ids /\ Len(authority) = Len(applications)
  BY <1>1 DEF AuthorityInv, Rows, Ids
<1>5. authority[i] \in AuthorityRows
  BY RowFacts DEF AuthorityInv
<1>6. authority[i].status = "VERIFIED" => authority[i].version > 0
  BY <1>4, <1>5 DEF AuthorityInv, DeclaredFirst, AuthorityRows
<1>7. DeclaredFirst'
  BY <1>1, <1>4, <1>6 DEF AuthorityInv, DeclaredFirst
<1>8. SubmittedDeclarationStands'
  BY <1>1, <1>4 DEF AuthorityInv, SubmittedDeclarationStands
<1> QED BY <1>2, <1>3, <1>7, <1>8 DEF AuthorityInv

LEMMA ApplicationStepKeeps ==
  ASSUME AuthorityInv, NEW t \in Tabs,
         \/ SaveApplicationDraft(t) \/ Submit(t)
         \/ \E i \in Ids, yes \in BOOLEAN : SaveHealthAnswer(t, i, yes)
  PROVE  AuthorityInv'
<1>1. UNCHANGED <<authority, familyScreen, staffScreen, student>>
  BY DEF SaveApplicationDraft, Submit, SaveHealthAnswer, family, screens
<1>2. \A i \in 1 .. Len(applications) : applications[i] \in ApplicationRows /\ authority[i] \in AuthorityRows
  BY RowFacts DEF AuthorityInv
<1>3. CASE SaveApplicationDraft(t)
  <2>1. PICK i \in 1 .. Len(applications), yes \in BOOLEAN : i = task[t].app /\ yes = task[t].acknowledged
    BY <1>3 DEF SaveApplicationDraft, AuthorityInv, Tasks, TaskFits
  <2>2. PICK row : row = [applications[i] EXCEPT !.acknowledged = yes]
    OBVIOUS
  <2>3. row \in ApplicationRows /\ row.status = applications[i].status /\ row.as = applications[i].as
    BY <1>2, <2>2 DEF ApplicationRows
  <2>4. applications' = [applications EXCEPT ![i] = row] /\ task' = [task EXCEPT ![t] = Idle]
    BY <1>3, <2>1, <2>2 DEF SaveApplicationDraft, End
  <2>5. Len(applications') = Len(applications)
    BY <2>3, <2>4 DEF AuthorityInv, Rows
  <2>6. Tasks' /\ AuthorityHoldsAtCommit'
    BY <1>1, <2>4, <2>5, IdleFits, TaskKeeps
  <2> QED BY <1>1, <2>3, <2>4, <2>6, ApplicationKeeps
<1>4. CASE Submit(t)
  <2>1. PICK i \in 1 .. Len(applications) : i = task[t].app /\ authority[i].status = "VERIFIED"
    BY <1>4 DEF Submit, AuthorityInv, Tasks, TaskFits, AuthorityHoldsAtCommit, Gated
  <2>2. PICK row : row = [applications[i] EXCEPT !.status = "SUBMITTED", !.as = authority[i]]
    OBVIOUS
  <2>3. row \in ApplicationRows /\ row.as = authority[i]
    BY <1>2, <2>2 DEF ApplicationRows, Active
  <2>4. applications' = [applications EXCEPT ![i] = row] /\ task' = [task EXCEPT ![t] = Idle]
    BY <1>4, <2>1, <2>2 DEF Submit, End
  <2>5. Len(applications') = Len(applications)
    BY <2>3, <2>4 DEF AuthorityInv, Rows
  <2>6. Tasks' /\ AuthorityHoldsAtCommit'
    BY <1>1, <2>4, <2>5, IdleFits, TaskKeeps
  <2> QED BY <1>1, <2>1, <2>3, <2>4, <2>6, ApplicationKeeps
<1>5. ASSUME NEW i \in Ids, NEW yes \in BOOLEAN, SaveHealthAnswer(t, i, yes) PROVE AuthorityInv'
  <2>1. i \in 1 .. Len(applications)
    BY RowFacts DEF AuthorityInv
  <2>2. PICK row : row = [applications[i] EXCEPT !.health = yes]
    OBVIOUS
  <2>3. row \in ApplicationRows /\ row.status = applications[i].status /\ row.as = applications[i].as
    BY <1>2, <2>1, <2>2 DEF ApplicationRows
  <2>4. applications' = [applications EXCEPT ![i] = row] /\ UNCHANGED task
    BY <1>5, <2>2 DEF SaveHealthAnswer
  <2>5. Len(applications') = Len(applications)
    BY <2>3, <2>4 DEF AuthorityInv, Rows
  <2>6. Tasks' /\ AuthorityHoldsAtCommit'
    BY <1>1, <2>4, <2>5 DEF AuthorityInv, Tasks, TaskFits, AuthorityHoldsAtCommit
  <2> QED BY <1>1, <2>1, <2>3, <2>4, <2>6, ApplicationKeeps
<1> QED BY <1>3, <1>4, <1>5

-----------------------------------------------------------------------------
(* Screens are loaded *)

LEMMA ShownRow ==
  ASSUME NEW i \in Nat, NEW row \in AuthorityRows
  PROVE  AuthorityShown(i, row) \in FamilyRows /\ AuthorityShown(i, row).app = i
<1>1. PICK adult \in BOOLEAN : adult = (student.birth # NoDate /\ IsAdultStudent(student.birth, Days[day]))
  BY DEF IsAdultStudent
<1>2. AuthorityShown(i, row) = [app |-> i, version |-> row.version, adult |-> adult]
  BY <1>1 DEF AuthorityShown
<1> QED BY <1>2 DEF FamilyRows, AuthorityRows

LEMMA ScreenStepKeeps ==
  ASSUME AuthorityInv,
         \/ \E t \in Tabs, i \in Ids : LoadFamilyAuthority(t, i)
         \/ \E s \in Staff : GetStaffAuthority(s) \/ \E i \in Ids : TypeApplicationId(s, i)
  PROVE  AuthorityInv'
<1>1. UNCHANGED <<applications, authority, student, task>>
  BY DEF LoadFamilyAuthority, GetStaffAuthority, TypeApplicationId, family, admission
<1>2. /\ Rows' /\ Tasks' /\ DeclaredFirst' /\ AuthorityHoldsAtCommit' /\ SubmittedDeclarationStands'
  BY <1>1 DEF AuthorityInv, Rows, Tasks, TaskFits, DeclaredFirst, AuthorityHoldsAtCommit, SubmittedDeclarationStands, Ids
<1>3. \A i \in Ids : i \in 1 .. Len(applications) /\ i \in Nat \ {0} /\ authority[i] \in AuthorityRows
  BY RowFacts DEF AuthorityInv
<1>4. Len(authority) = Len(applications)
  BY RowFacts DEF AuthorityInv
<1>5. ASSUME NEW t \in Tabs, NEW i \in Ids, LoadFamilyAuthority(t, i) PROVE FamilyScreens' /\ StaffScreens'
  <2>1. PICK shown \in FamilyRows : shown = AuthorityShown(i, authority[i]) /\ shown.app = i
    BY <1>3, ShownRow
  <2>2. familyScreen' = [familyScreen EXCEPT ![t] = shown] /\ UNCHANGED staffScreen
    BY <1>5, <2>1 DEF LoadFamilyAuthority
  <2>3. FamilyScreens'
    BY <1>1, <1>3, <2>1, <2>2 DEF AuthorityInv, FamilyScreens
  <2>4. StaffScreens'
    BY <1>1, <2>2 DEF AuthorityInv, StaffScreens
  <2> QED BY <2>3, <2>4
<1>6. ASSUME NEW s \in Staff, NEW shown \in StaffRows, staffScreen' = [staffScreen EXCEPT ![s] = shown], UNCHANGED familyScreen,
             shown.app # 0 => shown.app \in 1 .. Len(authority) /\ ReadBefore(shown.shows, authority[shown.app])
      PROVE  FamilyScreens' /\ StaffScreens'
  <2>1. FamilyScreens'
    BY <1>1, <1>6 DEF AuthorityInv, FamilyScreens
  <2>2. staffScreen' \in [Staff -> StaffRows] /\ \A u \in Staff : staffScreen'[u] = IF u = s THEN shown ELSE staffScreen[u]
    BY <1>6 DEF AuthorityInv, StaffScreens
  <2>3. StaffScreens'
    BY <1>1, <1>6, <2>2 DEF AuthorityInv, StaffScreens
  <2> QED BY <2>1, <2>3
<1>7. ASSUME NEW s \in Staff, NEW i \in Ids, TypeApplicationId(s, i) PROVE FamilyScreens' /\ StaffScreens'
  <2>1. PICK old \in StaffRows : old = staffScreen[s]
    BY DEF AuthorityInv, StaffScreens
  <2>2. PICK shown : shown = [old EXCEPT !.typed = i]
    OBVIOUS
  <2>3. shown \in StaffRows /\ shown.app = old.app /\ (old.app # 0 => shown.shows = old.shows)
    BY <1>3, <2>2 DEF StaffRows
  <2>4. staffScreen' = [staffScreen EXCEPT ![s] = shown] /\ UNCHANGED familyScreen
    BY <1>7, <2>1, <2>2 DEF TypeApplicationId
  <2>5. shown.app # 0 => shown.app \in 1 .. Len(authority) /\ ReadBefore(shown.shows, authority[shown.app])
    BY <2>1, <2>3 DEF AuthorityInv, StaffScreens
  <2> QED BY <1>6, <2>3, <2>4, <2>5
<1>8. ASSUME NEW s \in Staff, GetStaffAuthority(s) PROVE FamilyScreens' /\ StaffScreens'
  <2>1. PICK i \in Ids : i = staffScreen[s].typed
    BY <1>8 DEF GetStaffAuthority
  <2>2. PICK shown : shown = Showing(i, authority[i])
    OBVIOUS
  <2>3. shown \in StaffRows /\ shown.app = i /\ shown.shows = authority[i]
    BY <1>3, <2>2 DEF Showing, StaffRows
  <2>4. staffScreen' = [staffScreen EXCEPT ![s] = shown] /\ UNCHANGED familyScreen
    BY <1>8, <2>1, <2>2 DEF GetStaffAuthority
  <2>5. shown.app \in 1 .. Len(authority) /\ ReadBefore(shown.shows, authority[shown.app])
    BY <1>3, <1>4, <2>3 DEF ReadBefore
  <2> QED BY <1>6, <2>3, <2>4, <2>5
<1> QED BY <1>2, <1>5, <1>7, <1>8 DEF AuthorityInv

-----------------------------------------------------------------------------
(* Declarations and reviews *)

SameDeclaration(a, b) == a.mode = b.mode /\ a.basis = b.basis

LEMMA DeclarationFields == ASSUME NEW a, NEW b PROVE Declaration(a) = Declaration(b) <=> SameDeclaration(a, b)
BY DEF Declaration, SameDeclaration

(* A write of the authority moves its version, holds the lock of the       *)
(* application, and of one submitted keeps the declaration or makes it the *)
(* student's own.                                                          *)
LEMMA AuthorityWriteKeeps ==
  ASSUME AuthorityInv, NEW i \in 1 .. Len(authority), NEW row \in AuthorityRows,
         authority' = [authority EXCEPT ![i] = row], Free(i), authority[i].version < row.version,
         applications[i].status = "SUBMITTED" =>
           Declaration(row) = Declaration(authority[i]) \/ (authority[i].mode = "minor" /\ row.mode = "self"),
         UNCHANGED <<applications, student, task>>,
         familyScreen' \in [Tabs -> FamilyRows], \A t \in Tabs : familyScreen'[t].app = familyScreen[t].app,
         UNCHANGED staffScreen \/ \E s \in Staff : staffScreen' = [staffScreen EXCEPT ![s] = Showing(i, row)]
  PROVE  AuthorityInv'
<1>1. /\ authority' \in Seq(AuthorityRows) /\ Len(authority') = Len(authority)
      /\ \A j \in 1 .. Len(authority) : authority'[j] = IF j = i THEN row ELSE authority[j]
  BY DEF AuthorityInv, Rows
<1>2. /\ Len(authority) = Len(applications) /\ Ids = 1 .. Len(applications) /\ Len(authority) \in Nat
      /\ \A j \in 1 .. Len(authority) : authority[j] \in AuthorityRows /\ authority[j].version \in Nat
  BY RowFacts DEF AuthorityInv, AuthorityRows
<1>3. row.version \in Nat /\ row.version > 0
  BY <1>2 DEF AuthorityRows
<1>4. Rows'
  BY <1>1 DEF AuthorityInv, Rows
<1>5. Tasks'
  BY DEF AuthorityInv, Tasks, TaskFits
<1>6. FamilyScreens'
  BY DEF AuthorityInv, FamilyScreens
<1>7. StaffScreens'
  <2>1. ASSUME NEW s \in Staff, staffScreen[s].app # 0
        PROVE  staffScreen[s].app \in 1 .. Len(authority) /\ ReadBefore(staffScreen[s].shows, authority'[staffScreen[s].app])
    <3>1. staffScreen[s] \in StaffRows
      BY DEF AuthorityInv, StaffScreens
    <3>2. PICK j \in 1 .. Len(authority), seen \in AuthorityRows : j = staffScreen[s].app /\ seen = staffScreen[s].shows
      BY <2>1, <3>1 DEF AuthorityInv, StaffScreens, StaffRows
    <3>3. ReadBefore(seen, authority[j]) /\ seen.version \in Nat
      BY <2>1, <3>2 DEF AuthorityInv, StaffScreens, AuthorityRows
    <3>4. ReadBefore(seen, authority'[j])
      <4>1. CASE j # i
        BY <1>1, <3>3, <4>1
      <4>2. CASE j = i
        <5>1. seen.version < row.version
          BY <1>2, <1>3, <3>3, <4>2 DEF ReadBefore
        <5> QED BY <1>1, <4>2, <5>1 DEF ReadBefore
      <4> QED BY <4>1, <4>2
    <3> QED BY <3>2, <3>4
  <2>2. CASE UNCHANGED staffScreen
    BY <1>1, <2>1, <2>2 DEF AuthorityInv, StaffScreens
  <2>3. ASSUME NEW s \in Staff, staffScreen' = [staffScreen EXCEPT ![s] = Showing(i, row)] PROVE StaffScreens'
    <3>1. PICK shown : shown = Showing(i, row)
      OBVIOUS
    <3>2. shown \in StaffRows /\ shown.app = i /\ shown.shows = row
      BY <1>2, <3>1 DEF Showing, StaffRows
    <3>3. /\ staffScreen' \in [Staff -> StaffRows]
          /\ \A u \in Staff : staffScreen'[u] = IF u = s THEN shown ELSE staffScreen[u]
      BY <2>3, <3>1, <3>2 DEF AuthorityInv, StaffScreens
    <3>4. ReadBefore(row, authority'[i])
      BY <1>1 DEF ReadBefore
    <3> QED BY <1>1, <2>1, <3>2, <3>3, <3>4 DEF StaffScreens
  <2> QED BY <2>2, <2>3
<1>8. DeclaredFirst'
  BY <1>1, <1>3 DEF AuthorityInv, DeclaredFirst
<1>9. AuthorityHoldsAtCommit'
  <2>1. ASSUME NEW w \in Tabs \cup Staff, task[w].op \in Gated PROVE authority'[task[w].app].status = "VERIFIED"
    <3>1. task[w].app \in 1 .. Len(authority) /\ task[w].app # i
      BY <1>2, <2>1 DEF Free, AuthorityInv, Tasks, TaskFits
    <3> QED BY <1>1, <2>1, <3>1 DEF AuthorityInv, AuthorityHoldsAtCommit
  <2> QED BY <2>1 DEF AuthorityHoldsAtCommit
<1>10. SubmittedDeclarationStands'
  <2>1. Ids' = Ids
    BY DEF Ids
  <2>2. ASSUME NEW j \in Ids, applications[j].status = "SUBMITTED"
        PROVE  \/ Declaration(authority'[j]) = Declaration(applications[j].as)
               \/ applications[j].as.mode = "minor" /\ authority'[j].mode = "self"
    <3>1. PICK as, old, new : as = applications[j].as /\ old = authority[j] /\ new = authority'[j]
      OBVIOUS
    <3>2. SameDeclaration(old, as) \/ (as.mode = "minor" /\ old.mode = "self")
      BY <2>2, <3>1, DeclarationFields DEF AuthorityInv, SubmittedDeclarationStands
    <3>3. new = old \/ SameDeclaration(new, old) \/ (old.mode = "minor" /\ new.mode = "self")
      BY <1>1, <1>2, <2>2, <3>1, DeclarationFields
    <3>4. SameDeclaration(new, as) \/ (as.mode = "minor" /\ new.mode = "self")
      BY <3>2, <3>3 DEF SameDeclaration
    <3> QED BY <3>1, <3>4, DeclarationFields
  <2> QED BY <2>1, <2>2 DEF SubmittedDeclarationStands
<1> QED BY <1>4, <1>5, <1>6, <1>7, <1>8, <1>9, <1>10 DEF AuthorityInv

LEMMA AdultOrNot == ASSUME NEW birth, NEW on PROVE IsAdultStudent(birth, on) \in BOOLEAN
BY DEF IsAdultStudent

LEMMA DeclareKeeps == ASSUME AuthorityInv, NEW t \in Tabs, DeclareApplicationAuthority(t) PROVE AuthorityInv'
<1>1. PICK i \in {familyScreen[t].app} \ {0}, form \in DeclarationForms(t) :
        /\ Free(i) /\ student.birth # NoDate /\ ValidDeclaration(form.mode, form.basis)
        /\ Declared(i) => MayRedeclare(i, form.mode)
        /\ authority' = [authority EXCEPT ![i] = Redeclared(i, form)]
        /\ familyScreen' = [familyScreen EXCEPT ![t].version = authority'[i].version, ![t].adult = Adult]
        /\ UNCHANGED <<staffScreen, applications, student, task>>
  BY DEF DeclareApplicationAuthority, family
<1>2. i \in 1 .. Len(authority) /\ authority[i] \in AuthorityRows /\ i \in 1 .. Len(applications)
  BY <1>1, RowFacts DEF AuthorityInv, FamilyScreens
<1>3. PICK n \in Nat : n = authority[i].version + 1 /\ authority[i].version < n /\ authority[i].version \in Nat
  BY <1>2 DEF AuthorityRows
<1>4. form.mode \in {"self", "minor"} /\ form.basis \in {"SELF", "PARENT", "LEGAL_REPRESENTATIVE"}
  BY DEF DeclarationForms
<1>0. PICK mode \in {"none", "self", "minor"}, basis \in {"none", "SELF", "PARENT", "LEGAL_REPRESENTATIVE"} :
        mode = form.mode /\ basis = form.basis
  BY <1>4
<1>5. PICK birth \in Birthdays \cup {NoDate} : birth = student.birth
  BY DEF AuthorityInv, Rows
<1>6. PICK old \in AuthorityRows : old = authority[i]
  BY <1>2
<1>7. PICK row : row = [old EXCEPT !.status = "DECLARED", !.mode = mode, !.basis = basis, !.birth = birth, !.version = n]
  OBVIOUS
<1>8. row \in AuthorityRows /\ row.version = n /\ row.mode = form.mode
  <2>1. PICK status \in AuthorityStates : status = "DECLARED"
    BY DEF AuthorityStates
  <2>2. old.evidence \in BOOLEAN
    BY DEF AuthorityRows
  <2>3. row = [status |-> status, mode |-> mode, basis |-> basis, birth |-> birth, version |-> n, evidence |-> old.evidence]
    BY <1>7, <2>1 DEF AuthorityRows
  <2> QED BY <1>0, <2>2, <2>3 DEF AuthorityRows
<1>9. authority' = [authority EXCEPT ![i] = row]
  BY <1>0, <1>1, <1>3, <1>5, <1>6, <1>7 DEF Redeclared
<1>10. applications[i].status = "SUBMITTED" => authority[i].mode = "minor" /\ row.mode = "self"
  BY <1>1, <1>2, <1>8 DEF AuthorityInv, DeclaredFirst, Declared, MayRedeclare, ComesOfAge
<1>11. /\ familyScreen' \in [Tabs -> FamilyRows]
       /\ \A u \in Tabs : familyScreen'[u].app = familyScreen[u].app
  <2>1. authority'[i] = row
    BY <1>2, <1>9 DEF AuthorityInv, Rows
  <2>2. PICK adult \in BOOLEAN : adult = Adult
    BY AdultOrNot DEF Adult
  <2>3. PICK seen \in FamilyRows : seen = familyScreen[t] /\ seen.app # 0
    BY <1>1 DEF AuthorityInv, FamilyScreens
  <2>4. PICK shown : shown = [seen EXCEPT !.version = n, !.adult = adult]
    OBVIOUS
  <2>5. shown \in FamilyRows /\ shown.app = seen.app
    BY <2>3, <2>4 DEF FamilyRows, NoScreen
  <2>6. familyScreen' = [familyScreen EXCEPT ![t] = shown]
    <3>1. authority'[i].version = n
      BY <1>8, <2>1
    <3>2. familyScreen' = [familyScreen EXCEPT ![t].version = n, ![t].adult = adult]
      BY <1>1, <2>2, <3>1
    <3> QED BY <2>3, <2>4, <3>2 DEF AuthorityInv, FamilyScreens, FamilyRows, NoScreen
  <2> QED BY <2>3, <2>5, <2>6 DEF AuthorityInv, FamilyScreens
<1> QED BY <1>1, <1>2, <1>3, <1>8, <1>9, <1>10, <1>11, AuthorityWriteKeeps

LEMMA ReviewKeeps == ASSUME AuthorityInv, NEW s \in Staff, ReviewApplicationAuthority(s) PROVE AuthorityInv'
<1>1. PICK form \in ReviewForms(s) :
        /\ form.app \in Ids /\ Free(form.app) /\ form.to \in AllowedTransitions(authority[form.app].status)
        /\ authority' = [authority EXCEPT ![form.app].status = form.to, ![form.app].version = @ + 1,
                                          ![form.app].evidence = @ \/ form.linked]
        /\ staffScreen' = [staffScreen EXCEPT ![s] = Showing(form.app, authority'[form.app])]
        /\ UNCHANGED <<familyScreen, applications, student, task>>
  BY DEF ReviewApplicationAuthority, family
<1>2. PICK i \in Ids, to \in AllowedTransitions(authority[form.app].status), linked \in BOOLEAN :
        i = form.app /\ to = form.to /\ linked = form.linked
  <2>1. form.linked \in BOOLEAN
    BY DEF ReviewForms
  <2> QED BY <1>1, <2>1
<1>3. i \in 1 .. Len(authority) /\ authority[i] \in AuthorityRows
  BY RowFacts DEF AuthorityInv
<1>4. PICK old \in AuthorityRows : old = authority[i]
  BY <1>3
<1>5. PICK n \in Nat : n = old.version + 1 /\ old.version < n
  BY DEF AuthorityRows
<1>6. to \in AuthorityStates
  BY <1>1, <1>2 DEF AllowedTransitions, AuthorityStates
<1>7. PICK evidence \in BOOLEAN : evidence = (old.evidence \/ linked)
  OBVIOUS
<1>8. PICK row : row = [old EXCEPT !.status = to, !.version = n, !.evidence = evidence]
  OBVIOUS
<1>9. row \in AuthorityRows /\ row.version = n /\ SameDeclaration(row, old)
  BY <1>6, <1>8 DEF AuthorityRows, SameDeclaration
<1>10. authority' = [authority EXCEPT ![i] = row]
  BY <1>1, <1>2, <1>4, <1>5, <1>7, <1>8 DEF AuthorityInv, Rows
<1>11. authority'[i] = row
  BY <1>3, <1>10 DEF AuthorityInv, Rows
<1>12. Declaration(row) = Declaration(authority[i])
  BY <1>4, <1>9, DeclarationFields
<1>13. familyScreen' \in [Tabs -> FamilyRows] /\ \A u \in Tabs : familyScreen'[u].app = familyScreen[u].app
  BY <1>1 DEF AuthorityInv, FamilyScreens
<1> QED BY <1>1, <1>2, <1>3, <1>4, <1>5, <1>9, <1>10, <1>11, <1>12, <1>13, AuthorityWriteKeeps

-----------------------------------------------------------------------------
(* The rest of the steps *)

Concerned == <<applications, authority, task, familyScreen, staffScreen>>

LEMMA CatalogueStepsConcernNoApplication == ASSUME CatalogueStep PROVE UNCHANGED <<Concerned, student>>
<1> USE DEF Concerned, Keep, admission, family
<1>1. ASSUME NEW y \in Years, CreateAcademicYear(y) \/ \E status \in YearStates : UpdateAcademicYear(y, status)
      PROVE  UNCHANGED <<Concerned, student>>
  BY <1>1 DEF CreateAcademicYear, UpdateAcademicYear
<1>2. ASSUME NEW p \in Processes, NEW y \in Years,
             CreateAdmissionProcess(p, y) \/ \E status \in ProcessStates, window \in Windows : UpdateAdmissionProcess(p, y, status, window)
      PROVE  UNCHANGED <<Concerned, student>>
  BY <1>2 DEF CreateAdmissionProcess, UpdateAdmissionProcess, SaveProcess
<1>3. ASSUME NEW o \in Offerings,
             \/ \E p \in Processes, y \in Years, closed \in BOOLEAN : CreateOffering(o, p, y, closed) \/ UpdateOffering(o, p, y, closed)
             \/ ConfigureCapacity(o) \/ AdjustCapacity(o) \/ \E f \in FormVersions : AssignOfferingVersion(o, f)
             \/ \E a \in Admins : PublishOffering(a, o) \/ CloseOffering(a, o)
      PROVE  UNCHANGED <<Concerned, student>>
  BY <1>3 DEF CreateOffering, UpdateOffering, ConfigureCapacity, AdjustCapacity, AssignOfferingVersion, PublishOffering,
       CloseOffering, WriteOffering
<1>4. ASSUME NEW f \in FormVersions, ArchiveVersion(f) PROVE UNCHANGED <<Concerned, student>>
  BY <1>4 DEF ArchiveVersion
<1>5. ASSUME NEW p \in Processes, WindowPasses(p) PROVE UNCHANGED <<Concerned, student>>
  BY <1>5 DEF WindowPasses
<1>6. ASSUME NEW a \in Admins, LoadOfferings(a) \/ \E o \in Offerings : ChooseOffering(a, o) \/ GetOfferingReadiness(a, o)
      PROVE  UNCHANGED <<Concerned, student>>
  BY <1>6 DEF LoadOfferings, ChooseOffering, GetOfferingReadiness, Look
<1> QED BY <1>1, <1>2, <1>3, <1>4, <1>5, <1>6 DEF CatalogueStep

LEMMA StudentStepKeeps ==
  ASSUME AuthorityInv, NEW b \in Birthdays \cup {NoDate}, CreateStudent(b) \/ UpdateStudent(b)
  PROVE  AuthorityInv'
<1>1. UNCHANGED Concerned
  BY DEF CreateStudent, UpdateStudent, screens, admission, Concerned
<1>2. student' \in [known : BOOLEAN, birth : Birthdays \cup {NoDate}]
  <2>1. PICK old \in [known : BOOLEAN, birth : Birthdays \cup {NoDate}] : old = student
    BY DEF AuthorityInv, Rows
  <2>2. student' = [known |-> TRUE, birth |-> b] \/ student' = [old EXCEPT !.birth = b]
    BY <2>1 DEF CreateStudent, UpdateStudent
  <2>3. PICK set : set = Birthdays \cup {NoDate}
    OBVIOUS
  <2>4. b \in set /\ old \in [known : BOOLEAN, birth : set]
    BY <2>1, <2>3
  <2>5. [known |-> TRUE, birth |-> b] \in [known : BOOLEAN, birth : set] /\ [old EXCEPT !.birth = b] \in [known : BOOLEAN, birth : set]
    BY <2>4
  <2> QED BY <2>2, <2>3, <2>5
<1> QED BY <1>1, <1>2, AuthorityFrame DEF Concerned

LEMMA AuthorityStepKeeps == ASSUME CatalogueInv, AuthorityInv, [Next]_vars PROVE AuthorityInv'
<1>1. CASE UNCHANGED <<Concerned, student>>
  BY <1>1, AuthorityFrame DEF Concerned, AuthorityInv, Rows
<1>2. CASE CatalogueStep
  BY <1>1, <1>2, CatalogueStepsConcernNoApplication
<1>3. CASE MidnightPasses \/ UNCHANGED vars
  BY <1>1, <1>3 DEF MidnightPasses, vars, Concerned, family, screens, admission
<1>4. CASE FamilyStep
  <2>1. CASE SaveProfile
    BY <1>1, <2>1 DEF SaveProfile, Concerned, screens, admission
  <2>2. ASSUME NEW b \in Birthdays \cup {NoDate}, CreateStudent(b) \/ UpdateStudent(b) PROVE AuthorityInv'
    BY <2>2, StudentStepKeeps
  <2>3. ASSUME NEW t \in Tabs,
               \/ \E o \in Offerings : CheckOffering(t, o)
               \/ \E i \in Ids : CheckSubmission(t, i) \/ CheckAcceptance(t, i) \/ \E yes \in BOOLEAN : FindDraft(t, i, yes)
               \/ Accept(t)
        PROVE  AuthorityInv'
    BY <2>3, TaskStepKeeps
  <2>4. ASSUME NEW t \in Tabs,
               \/ SaveApplicationDraft(t) \/ Submit(t)
               \/ \E i \in Ids, yes \in BOOLEAN : SaveHealthAnswer(t, i, yes)
        PROVE  AuthorityInv'
    BY <2>4, ApplicationStepKeeps
  <2>5. ASSUME NEW t \in Tabs, NEW i \in Ids, LoadFamilyAuthority(t, i) PROVE AuthorityInv'
    BY <2>5, ScreenStepKeeps
  <2> QED BY <1>4, <2>1, <2>2, <2>3, <2>4, <2>5, CreateKeeps, DeclareKeeps DEF FamilyStep
<1>5. CASE StaffStep
  <2>1. ASSUME \/ \E on \in BOOLEAN : UpdatePolicy(on)
               \/ \E i \in Ids : IssueOffer(i)
        PROVE  AuthorityInv'
    BY <1>1, <2>1 DEF UpdatePolicy, IssueOffer, Concerned, family, screens, admission
  <2>2. ASSUME NEW s \in Staff, RequestFunctionalHandoff(s) \/ \E i \in Ids : CheckHandoff(s, i) PROVE AuthorityInv'
    BY <2>2, TaskStepKeeps
  <2>3. ASSUME NEW s \in Staff, GetStaffAuthority(s) \/ \E i \in Ids : TypeApplicationId(s, i) PROVE AuthorityInv'
    BY <2>3, ScreenStepKeeps
  <2> QED BY <1>5, <2>1, <2>2, <2>3, ReviewKeeps DEF StaffStep
<1> QED BY <1>2, <1>3, <1>4, <1>5 DEF Next

(* Both invariants hold in every state of every behaviour. *)
LEMMA Invariance == Spec => [](CatalogueInv /\ AuthorityInv)
<1>1. Init => CatalogueInv /\ AuthorityInv
  BY CatalogueInit, AuthorityInit
<1>2. CatalogueInv /\ AuthorityInv /\ [Next]_vars => (CatalogueInv /\ AuthorityInv)'
  BY CatalogueStepKeeps, AuthorityStepKeeps
<1> QED BY <1>1, <1>2, PTL DEF Spec

-----------------------------------------------------------------------------
(* Whatever number of tabs and staff act on one application, the authority *)
(* a submission, an acceptance or a hand-off checked under its lock is     *)
(* still VERIFIED when it commits (assertApplicationAuthorityForCritical-  *)
(* Action).                                                                *)
THEOREM AuthorityHolds == Spec => []AuthorityHoldsAtCommit
BY Invariance, PTL DEF AuthorityInv

(* An application that was submitted stands on the declaration it was      *)
(* submitted under, or on the student's own after a representative's       *)
(* (permittedAfterSubmission), for every sequence of redeclarations,       *)
(* corrected dates of birth and reviews.                                   *)
THEOREM DeclarationStands == Spec => []SubmittedDeclarationStands
BY Invariance, PTL DEF AuthorityInv

CommandStep ==
  \A o \in Offered : offerings'[o].status # offerings[o].status =>
    \E a \in Admins : LET ready == adminScreen[a].ready IN
      /\ adminScreen[a].chosen = o
      /\ ready.of = o =>
           /\ ready.lifecycle = offerings[o].status /\ ready.asOf = Columns(offerings[o])
           /\ ready.capacity <= offerings[o].capacity
           /\ offerings'[o].status = "PUBLISHED" => ready.capacity > 0

(* Only publishOffering and closeOffering move the lifecycle of an offering *)
(* that there is.                                                           *)
LEMMA OnlyCommandsMoveLifecycle ==
  ASSUME CatalogueInv, [Next]_vars, NEW o \in Offered, offerings'[o].status # offerings[o].status
  PROVE  \E a \in Admins : PublishOffering(a, o) \/ CloseOffering(a, o)
<1>1. o \in Offerings /\ offerings[o] \in OfferingRows
  BY OfferedRows DEF CatalogueInv
<1>2. ~UNCHANGED offerings
  OBVIOUS
<1>3. ASSUME NEW q \in Offerings, NEW row, offerings' = [offerings EXCEPT ![q] = row], q \in Offered => row.status = offerings[q].status
      PROVE  FALSE
  BY <1>1, <1>3 DEF CatalogueInv, Catalogued
<1>4. CASE FamilyStep \/ StaffStep \/ MidnightPasses \/ UNCHANGED vars
  BY <1>2, <1>4, OtherStepsKeepOfferings
<1>5. CASE CatalogueStep
  <2>1. ASSUME NEW y \in Years, CreateAcademicYear(y) \/ \E status \in YearStates : UpdateAcademicYear(y, status)
        PROVE  FALSE
    BY <1>2, <2>1 DEF CreateAcademicYear, UpdateAcademicYear
  <2>2. ASSUME NEW p \in Processes, NEW y \in Years,
               CreateAdmissionProcess(p, y) \/ \E status \in ProcessStates, window \in Windows : UpdateAdmissionProcess(p, y, status, window)
        PROVE  FALSE
    BY <1>2, <2>2 DEF CreateAdmissionProcess, UpdateAdmissionProcess, SaveProcess
  <2>3. ASSUME NEW q \in Offerings, NEW p \in Processes, NEW y \in Years, NEW closed \in BOOLEAN,
               CreateOffering(q, p, y, closed)
        PROVE  FALSE
    <3>1. q \notin Offered /\ \E row : offerings' = [offerings EXCEPT ![q] = row]
      BY <2>3 DEF CreateOffering, WriteOffering, Offered
    <3> QED BY <1>3, <3>1
  <2>4. ASSUME NEW q \in Offerings, NEW p \in Processes, NEW y \in Years, NEW closed \in BOOLEAN,
               UpdateOffering(q, p, y, closed)
        PROVE  FALSE
    <3>1. PICK old \in OfferingRows : old = offerings[q]
      BY <2>4, OfferedRows DEF UpdateOffering, CatalogueInv
    <3>2. PICK row : row = [old EXCEPT !.process = p, !.year = y, !.closed = closed, !.version = @ + 1]
      OBVIOUS
    <3>3. offerings' = [offerings EXCEPT ![q] = row] /\ row.status = old.status
      BY <2>4, <3>1, <3>2 DEF UpdateOffering, WriteOffering, OfferingRows
    <3> QED BY <1>3, <3>1, <3>3
  <2>5. ASSUME NEW q \in Offerings, ConfigureCapacity(q) \/ AdjustCapacity(q) PROVE FALSE
    <3>1. PICK old \in OfferingRows : old = offerings[q]
      BY <2>5, OfferedRows DEF ConfigureCapacity, AdjustCapacity, CatalogueInv
    <3>2. PICK n : offerings' = [offerings EXCEPT ![q] = [old EXCEPT !.capacity = n]]
      BY <2>5, <3>1 DEF ConfigureCapacity, AdjustCapacity, WriteOffering
    <3>3. PICK row : row = [old EXCEPT !.capacity = n]
      OBVIOUS
    <3>4. row.status = old.status
      BY <3>3 DEF OfferingRows
    <3> QED BY <1>3, <3>1, <3>2, <3>3, <3>4
  <2>6. ASSUME NEW q \in Offerings, NEW f \in FormVersions, AssignOfferingVersion(q, f) PROVE FALSE
    <3>1. PICK old \in OfferingRows : old = offerings[q]
      BY <2>6, OfferedRows DEF AssignOfferingVersion, CatalogueInv
    <3>2. PICK row : row = [old EXCEPT !.form = f, !.version = @ + 1]
      OBVIOUS
    <3>3. offerings' = [offerings EXCEPT ![q] = row] /\ row.status = old.status
      BY <2>6, <3>1, <3>2 DEF AssignOfferingVersion, WriteOffering, Assigned, OfferingRows
    <3> QED BY <1>3, <3>1, <3>3
  <2>7. ASSUME NEW f \in FormVersions, ArchiveVersion(f) PROVE FALSE
    BY <1>2, <2>7 DEF ArchiveVersion
  <2>8. ASSUME NEW p \in Processes, WindowPasses(p) PROVE FALSE
    BY <1>2, <2>8 DEF WindowPasses
  <2>9. ASSUME NEW a \in Admins, LoadOfferings(a) \/ \E q \in Offerings : ChooseOffering(a, q) \/ GetOfferingReadiness(a, q)
        PROVE  FALSE
    BY <1>2, <2>9 DEF LoadOfferings, ChooseOffering, GetOfferingReadiness, Look, catalogue
  <2>10. ASSUME NEW a \in Admins, NEW q \in Offerings, PublishOffering(a, q) \/ CloseOffering(a, q), q # o PROVE FALSE
    BY <1>1, <2>10 DEF PublishOffering, CloseOffering, WriteOffering, CatalogueInv, Catalogued
  <2> QED BY <1>5, <2>1, <2>2, <2>3, <2>4, <2>5, <2>6, <2>7, <2>8, <2>9, <2>10 DEF CatalogueStep
<1> QED BY <1>4, <1>5 DEF Next

(* Whoever edits an offering while another administrator looks at it, and   *)
(* however the list, the choice and the readiness of that screen were       *)
(* fetched, publishOffering and closeOffering override nothing written      *)
(* since the readiness of that offering was read: every write but that of   *)
(* the capacity moves the version they compare, and a capacity that was     *)
(* there stays.  A readiness of another offering, the capacity shown and    *)
(* the list are outside (CommandIsOfTheShownOffering,                       *)
(* PublishedWithShownCapacity, PublishedAsListed).                          *)
THEOREM NoWriteIsOverridden == Spec => CommandsOverrideNoWrite
<1>1. ASSUME CatalogueInv, [Next]_vars PROVE CommandStep
  <2>1. SUFFICES ASSUME NEW o \in Offered, offerings'[o].status # offerings[o].status
                 PROVE  \E a \in Admins :
                          /\ adminScreen[a].chosen = o
                          /\ adminScreen[a].ready.of = o =>
                               /\ adminScreen[a].ready.lifecycle = offerings[o].status
                               /\ adminScreen[a].ready.asOf = Columns(offerings[o])
                               /\ adminScreen[a].ready.capacity <= offerings[o].capacity
                               /\ offerings'[o].status = "PUBLISHED" => adminScreen[a].ready.capacity > 0
    BY DEF CommandStep
  <2>2. PICK a \in Admins : PublishOffering(a, o) \/ CloseOffering(a, o)
    BY <1>1, <2>1, OnlyCommandsMoveLifecycle
  <2>3. PICK now \in OfferingRows : now = offerings[o] /\ o \in Offerings
    BY <1>1, OfferedRows DEF CatalogueInv
  <2>4. adminScreen[a].chosen = o /\ adminScreen[a].ready # NoReadiness /\ adminScreen[a].ready.version = now.version
    BY <2>2, <2>3 DEF PublishOffering, CloseOffering, Commands
  <2>5. PICK ready \in ReadinessRows : ready = adminScreen[a].ready /\ SeenBefore(ready, offerings[ready.of])
    BY <1>1, <2>4 DEF CatalogueInv, AdminScreens, Sound
  <2>6. ASSUME ready.of = o
        PROVE  ready.lifecycle = now.status /\ ready.asOf = Columns(now) /\ ready.capacity <= now.capacity
    <3>1. SeenBefore(ready, now) /\ ready.version = now.version /\ now.version \in Nat
      BY <2>3, <2>4, <2>5, <2>6 DEF OfferingRows
    <3> QED BY <3>1 DEF SeenBefore
  <2>7. ASSUME offerings'[o].status = "PUBLISHED" PROVE adminScreen[a].ready.capacity > 0
    <3>1. CASE PublishOffering(a, o)
      BY <3>1 DEF PublishOffering
    <3>2. CASE CloseOffering(a, o)
      <4>1. PICK row : row = [now EXCEPT !.status = "CLOSED", !.version = @ + 1]
        OBVIOUS
      <4>2. offerings' = [offerings EXCEPT ![o] = row] /\ row.status = "CLOSED"
        BY <2>3, <3>2, <4>1 DEF CloseOffering, WriteOffering, OfferingRows
      <4>3. offerings'[o].status = "CLOSED"
        BY <1>1, <2>3, <4>2 DEF CatalogueInv, Catalogued
      <4> QED BY <2>7, <4>3
    <3> QED BY <2>2, <3>1, <3>2
  <2> QED BY <2>3, <2>4, <2>5, <2>6, <2>7
<1>2. [][CatalogueInv /\ [Next]_vars]_vars => [][CommandStep]_vars
  BY <1>1, PTL
<1> QED BY <1>2, Invariance, PTL DEF Spec, CommandsOverrideNoWrite, CommandStep

ReviewStep ==
  \A i \in Ids :
    authority'[i].status # authority[i].status /\ authority'[i].status # "DECLARED"
      => \E s \in Staff : LET shown == staffScreen[s] IN
           shown.typed = i /\ (shown.app = i => shown.shows = authority[i])

(* Only a declaration and a review write an authority that there is. *)
LEMMA OnlyTwoWriteAuthority ==
  ASSUME AuthorityInv, [Next]_vars
  PROVE  \/ \E t \in Tabs : DeclareApplicationAuthority(t)
         \/ \E s \in Staff : ReviewApplicationAuthority(s)
         \/ \A i \in Ids : authority'[i] = authority[i]
<1>1. CASE CatalogueStep
  BY <1>1, CatalogueStepsConcernNoApplication DEF Concerned
<1>2. CASE MidnightPasses \/ UNCHANGED vars
  BY <1>2 DEF MidnightPasses, vars, admission
<1>3. CASE FamilyStep
  <2>1. ASSUME NEW t \in Tabs, CreateApplicationDraft(t) PROVE \A i \in Ids : authority'[i] = authority[i]
    <3>1. UNCHANGED authority \/ authority' = Append(authority, Undeclared)
      BY <2>1 DEF CreateApplicationDraft, admission
    <3>2. Ids = 1 .. Len(authority) /\ authority \in Seq(AuthorityRows)
      BY RowFacts DEF AuthorityInv, Rows
    <3> QED BY <3>1, <3>2, UndeclaredRow
  <2>2. ASSUME NEW t \in Tabs,
               \/ \E o \in Offerings : CheckOffering(t, o)
               \/ SaveApplicationDraft(t) \/ Submit(t) \/ Accept(t)
               \/ \E i \in Ids :
                    \/ LoadFamilyAuthority(t, i) \/ CheckSubmission(t, i) \/ CheckAcceptance(t, i)
                    \/ \E yes \in BOOLEAN : FindDraft(t, i, yes) \/ SaveHealthAnswer(t, i, yes)
        PROVE  UNCHANGED authority
    BY <2>2 DEF CheckOffering, SaveApplicationDraft, Submit, Accept, LoadFamilyAuthority, CheckSubmission, CheckAcceptance,
         Gate, FindDraft, SaveHealthAnswer, admission
  <2>3. ASSUME NEW b \in Birthdays \cup {NoDate}, SaveProfile \/ CreateStudent(b) \/ UpdateStudent(b) PROVE UNCHANGED authority
    BY <2>3 DEF SaveProfile, CreateStudent, UpdateStudent, admission
  <2> QED BY <1>3, <2>1, <2>2, <2>3 DEF FamilyStep
<1>4. CASE StaffStep
  <2>1. ASSUME \/ \E on \in BOOLEAN : UpdatePolicy(on)
               \/ \E i \in Ids : IssueOffer(i)
        PROVE  UNCHANGED authority
    BY <2>1 DEF UpdatePolicy, IssueOffer, admission
  <2>2. ASSUME NEW s \in Staff,
               \/ GetStaffAuthority(s) \/ RequestFunctionalHandoff(s)
               \/ \E i \in Ids : TypeApplicationId(s, i) \/ CheckHandoff(s, i)
        PROVE  UNCHANGED authority
    BY <2>2 DEF GetStaffAuthority, RequestFunctionalHandoff, TypeApplicationId, CheckHandoff, Gate, admission
  <2> QED BY <1>4, <2>1, <2>2 DEF StaffStep
<1> QED BY <1>1, <1>2, <1>3, <1>4 DEF Next

(* A review is of the declaration its reviewer read, however many          *)
(* declarations and reviews came between the load and the review: each of  *)
(* them moved the version the review names.                                *)
THEOREM ReviewsSeeTheDeclaration == Spec => ReviewSeesTheDeclaration
<1>1. ASSUME AuthorityInv, [Next]_vars PROVE ReviewStep
  <2>1. SUFFICES ASSUME NEW i \in Ids, authority'[i].status # authority[i].status, authority'[i].status # "DECLARED"
                 PROVE  \E s \in Staff : staffScreen[s].typed = i /\ (staffScreen[s].app = i => staffScreen[s].shows = authority[i])
    BY DEF ReviewStep
  <2>2. i \in 1 .. Len(authority) /\ authority[i] \in AuthorityRows
    BY <1>1, RowFacts DEF AuthorityInv
  <2>3. ASSUME NEW t \in Tabs, DeclareApplicationAuthority(t) PROVE FALSE
    <3>1. PICK j, form : authority' = [authority EXCEPT ![j] = Redeclared(j, form)]
      BY <2>3 DEF DeclareApplicationAuthority
    <3>2. j = i /\ authority'[i] = Redeclared(i, form)
      BY <1>1, <2>1, <2>2, <3>1 DEF AuthorityInv, Rows
    <3> QED BY <2>1, <2>2, <3>2 DEF Redeclared, AuthorityRows
  <2>4. PICK s \in Staff : ReviewApplicationAuthority(s)
    BY <1>1, <2>1, <2>3, OnlyTwoWriteAuthority
  <2>5. PICK form \in ReviewForms(s) :
          /\ authority[form.app].version = form.expected
          /\ authority' = [authority EXCEPT ![form.app].status = form.to, ![form.app].version = @ + 1,
                                            ![form.app].evidence = @ \/ form.linked]
    BY <2>4 DEF ReviewApplicationAuthority
  <2>6. form.app = staffScreen[s].typed /\ form.expected = staffScreen[s].shows.version /\ staffScreen[s].app # 0
    BY DEF ReviewForms
  <2>7. form.app = i
    BY <1>1, <2>1, <2>2, <2>5 DEF AuthorityInv, Rows
  <2>8. ASSUME staffScreen[s].app = i PROVE staffScreen[s].shows = authority[i]
    <3>1. ReadBefore(staffScreen[s].shows, authority[i])
      BY <1>1, <2>6, <2>8 DEF AuthorityInv, StaffScreens
    <3>2. staffScreen[s].shows.version = authority[i].version /\ authority[i].version \in Nat
      BY <2>2, <2>5, <2>6, <2>7 DEF AuthorityRows
    <3> QED BY <3>1, <3>2 DEF ReadBefore
  <2> QED BY <2>6, <2>7, <2>8
<1>2. [][AuthorityInv /\ [Next]_vars]_vars => [][ReviewStep]_vars
  BY <1>1, PTL
<1> QED BY <1>2, Invariance, PTL DEF Spec, ReviewSeesTheDeclaration, ReviewStep
=============================================================================
