---------------------------- MODULE Rights_proofs ----------------------------
(***************************************************************************)
(* Who may act and who may decide, for every number of accounts, tabs,     *)
(* assignments, elevations, versions and decisions: the properties of      *)
(* Access and those of Recommendation.                                     *)
(*                                                                         *)
(* Access: a request carries along what its last transaction saw. What     *)
(* stays true of it meanwhile is the invariant: its session is the one     *)
(* its token was signed for once the mutation was asserted safe, what it   *)
(* shows of an assignment was so and still is while the version is the     *)
(* same, and its elevation keeps its expiry.                               *)
(*                                                                         *)
(* Recommendation: the properties are inductive together with three facts  *)
(* about the order of rows: only the last version can be a draft,          *)
(* decisions are about versions that were submitted, and later decisions   *)
(* are about later versions.                                               *)
(***************************************************************************)
EXTENDS Access, Recommendation, TLAPS


-----------------------------------------------------------------------------
(* The routes *)

(* The routes of the forms that name one. *)
FormRoutes ==
  {"createAssignment", "updateAssignment", "revokeAssignment", "startElevation", "closeElevation", "requestFunctionalHandoff"}

(* What a form can reach asserts that the mutation is safe. *)
Asserting(route) ==
  /\ route.mutates /\ route.audience # "none" => route.asserts
  /\ route.name \in FormRoutes => route.asserts

LEMMA MutationsAssert == ASSUME NEW names, NEW audience PROVE \A r \in Mutations(names, audience) : Asserting(r)
BY DEF Mutations, Routes, Asserting

LEMMA ReadsAreNoForms ==
  ASSUME NEW names, NEW audience, \A n \in names : n \notin FormRoutes PROVE \A r \in Reads(names, audience) : Asserting(r)
BY DEF Reads, Routes, Asserting

LEMMA PublicAreNoForms ==
  ASSUME NEW names, \A n \in names : n \notin FormRoutes PROVE \A r \in Routes(names, "none", TRUE, FALSE) : Asserting(r)
BY DEF Routes, Asserting

LEMMA RoutesAssert == \A r \in AllRoutes : Asserting(r)
<1>1. \A r \in PublicRoutes \cup WebhookRoutes : Asserting(r)
  <2>1. \A r \in Routes({"register", "verify"}, "none", TRUE, FALSE) : Asserting(r)
    BY PublicAreNoForms DEF FormRoutes
  <2>2. \A r \in Reads({"session"}, "none") : Asserting(r)
    BY ReadsAreNoForms DEF FormRoutes
  <2>3. \A r \in Routes({"receive"}, "none", TRUE, FALSE) : Asserting(r)
    BY PublicAreNoForms DEF FormRoutes
  <2> QED BY <2>1, <2>2, <2>3 DEF PublicRoutes, WebhookRoutes
<1>2. \A r \in ActivityPolicyRoutes \cup FamilyActivityRoutes \cup StaffActivityRoutes
        \cup OutcomeRoutes \cup ActivityTemplateRoutes \cup AuthorityRoutes : Asserting(r)
  BY ReadsAreNoForms, MutationsAssert DEF ActivityPolicyRoutes, FamilyActivityRoutes, StaffActivityRoutes, OutcomeRoutes, ActivityTemplateRoutes, AuthorityRoutes,
       FormRoutes
<1>3. \A r \in CalendarRoutes \cup CapacityRoutes \cup FamilyOfferRoutes
        \cup CommunicationRoutes \cup DashboardRoutes \cup RequirementRoutes : Asserting(r)
  BY ReadsAreNoForms, MutationsAssert DEF CalendarRoutes, CapacityRoutes, FamilyOfferRoutes, CommunicationRoutes, DashboardRoutes, RequirementRoutes,
       FormRoutes
<1>4. \A r \in FamilyDocumentRoutes \cup DocumentReviewRoutes \cup AssistanceRoutes
        \cup FormEditorRoutes \cup FormVersionRoutes \cup FamilyFormRoutes : Asserting(r)
  BY ReadsAreNoForms, MutationsAssert DEF FamilyDocumentRoutes, DocumentReviewRoutes, AssistanceRoutes, FormEditorRoutes, FormVersionRoutes, FamilyFormRoutes,
       FormRoutes
<1>5. \A r \in FamilyIntakeRoutes \cup ApplicationRoutes \cup CatalogueRoutes
        \cup OfferingRoutes \cup RecommendationRoutes \cup DirectionRoutes : Asserting(r)
  BY ReadsAreNoForms, MutationsAssert DEF FamilyIntakeRoutes, ApplicationRoutes, CatalogueRoutes, OfferingRoutes, RecommendationRoutes, DirectionRoutes,
       FormRoutes
<1>6. \A r \in ReportRoutes \cup RoleRoutes \cup SupportRoutes
        \cup HandoffRoutes \cup PolicyRoutes \cup ProjectionRoutes : Asserting(r)
  BY ReadsAreNoForms, MutationsAssert DEF ReportRoutes, RoleRoutes, SupportRoutes, HandoffRoutes, PolicyRoutes, ProjectionRoutes,
       FormRoutes
<1> QED BY <1>1, <1>2, <1>3, <1>4, <1>5, <1>6 DEF AllRoutes

-----------------------------------------------------------------------------
(* The invariant *)

IsSeq(s) == \E S : s \in Seq(S)

ChallengeRows == [user : Users, created : Nat, consumed : BOOLEAN, superseded : BOOLEAN]

RowShapes ==
  /\ now \in Nat
  /\ challenges \in Seq(ChallengeRows)
  /\ assignments \in Seq(AssignmentRows)
  /\ IsSeq(elevations)
  /\ \A e \in DOMAIN elevations :
       elevations[e] = [actor |-> elevations[e].actor, scopes |-> elevations[e].scopes,
                        expires |-> elevations[e].expires, closed |-> elevations[e].closed]

BudgetFits == "forms" \in DOMAIN budget /\ budget.forms \in {"other", "access", "support"}

(* Every challenge but the newest of its user is used or superseded. *)
NewestIsLive ==
  \A c, d \in DOMAIN challenges : challenges[c].user = challenges[d].user /\ Live(c) => d <= c

(* What a list or a request says of an assignment was so, and is so while   *)
(* the version is the same.                                                 *)
SeenBefore(row, seen) == seen.version < row.version \/ seen = row

ListFits(list) ==
  /\ IsSeq(list)
  /\ \A a \in DOMAIN list : a \in DOMAIN assignments /\ list[a] \in AssignmentRows /\ SeenBefore(assignments[a], list[a])

Screens ==
  /\ screen = [t \in Tabs |-> screen[t]]
  /\ \A t \in Tabs : screen[t] = [user |-> screen[t].user, lists |-> screen[t].lists] /\ ListFits(screen[t].lists)

Elevation(wants) == IF "elevation" \in DOMAIN wants THEN wants.elevation ELSE 0

(* What a form sends. *)
WantsFit(wants) ==
  /\ wants.op # "logout" => wants.route.asserts
  /\ wants.op \in {"update", "revoke"} =>
       /\ wants.id \in DOMAIN assignments /\ wants.shown \in AssignmentRows
       /\ SeenBefore(assignments[wants.id], wants.shown)
       /\ wants.shown.status # "REVOKED"
  /\ wants.op = "update" => wants.status \in {"ACTIVE", "SUSPENDED"}
  /\ wants.op = "create" => wants.assignment \in AssignmentRows
  /\ Elevation(wants) # 0 => Elevation(wants) \in DOMAIN elevations

RequestFits(r) ==
  /\ r.at = "registering" => r.user \in Users
  /\ r.at \in {"token", "sent", "safe"} =>
       /\ r = [at |-> r.at, wants |-> r.wants, session |-> r.session, issued |-> r.issued, cookie |-> r.cookie]
       /\ WantsFit(r.wants)
       /\ r.at = "safe" => r.session = r.cookie
  /\ r.at \in {"ready", "writing"} =>
       /\ r = [at |-> r.at, wants |-> r.wants, user |-> r.user, context |-> r.context, cookie |-> r.cookie, session |-> r.session]
       /\ WantsFit(r.wants)
       /\ r.session = r.cookie
  /\ r.at = "done" =>
       /\ r.session = r.cookie
       /\ Elevation(r.wants) # 0 => Elevation(r.wants) \in DOMAIN elevations
       /\ r.wants.op = "work" /\ Elevation(r.wants) # 0 /\ r.user \notin Members => r.when < elevations[Elevation(r.wants)].expires

Requests ==
  /\ request = [t \in Tabs |-> request[t]]
  /\ \A t \in Tabs : RequestFits(request[t])

IInv == RowShapes /\ BudgetFits /\ NewestIsLive /\ Screens /\ Requests

-----------------------------------------------------------------------------
(* Sequences and records *)

LEMMA Appended ==
  ASSUME NEW s, IsSeq(s), NEW x
  PROVE  /\ IsSeq(Append(s, x))
         /\ DOMAIN s \subseteq DOMAIN Append(s, x)
         /\ \A n \in DOMAIN s : Append(s, x)[n] = s[n]
         /\ \A n \in DOMAIN Append(s, x) : n \in DOMAIN s \/ (n = Len(s) + 1 /\ Append(s, x)[n] = x)
<1>1. PICK S : s \in Seq(S)
  BY DEF IsSeq
<1>2. PICK T : T = S \cup {x}
  OBVIOUS
<1>3. s \in Seq(T) /\ x \in T
  BY <1>1, <1>2
<1>4. Append(s, x) \in Seq(T)
  BY <1>3
<1> QED BY <1>3, <1>4 DEF IsSeq

LEMMA SeqUpdate == ASSUME NEW S, NEW s \in Seq(S), NEW i, NEW x \in S PROVE [s EXCEPT ![i] = x] \in Seq(S)
<1>1. PICK n \in Nat : DOMAIN s = 1 .. n /\ \A k \in 1 .. n : s[k] \in S
  OBVIOUS
<1>2. PICK q : q = [s EXCEPT ![i] = x]
  OBVIOUS
<1>3. q = [k \in 1 .. n |-> q[k]] /\ \A k \in 1 .. n : q[k] \in S
  BY <1>1, <1>2
<1>4. q \in Seq(S)
  BY <1>3
<1> QED BY <1>2, <1>4

LEMMA SpendKeeps == ASSUME BudgetFits, NEW what, what # "forms", Spend(what) PROVE BudgetFits'
BY DEF BudgetFits, Spend

LEMMA InitHolds == Init => IInv
<1> SUFFICES ASSUME Init PROVE IInv
  OBVIOUS
<1>1. /\ DOMAIN budget = {"logged", "mailed", "granted", "jar", "forms", "until",
                          "registers", "verifies", "refreshes", "logouts", "mutations"}
      /\ budget.mailed \in Seq(Users) /\ budget.granted \in Seq(AssignmentRows)
      /\ budget.forms \in {"other", "access", "support"}
      /\ \A i, j \in DOMAIN budget.mailed : budget.mailed[i] = budget.mailed[j] => i = j
  BY AccessBounds DEF Init
<1>2. PICK mailed \in Seq(Users), n \in Nat : mailed = budget.mailed /\ DOMAIN mailed = 1 .. n
  BY <1>1
<1>3. challenges = [c \in 1 .. n |-> [user |-> mailed[c], created |-> 0, consumed |-> FALSE, superseded |-> FALSE]]
  BY <1>2 DEF Init
<1>4. challenges \in Seq(ChallengeRows)
  <2>1. \A c \in 1 .. n : [user |-> mailed[c], created |-> 0, consumed |-> FALSE, superseded |-> FALSE] \in ChallengeRows
    BY <1>2 DEF ChallengeRows
  <2> QED BY <1>3, <2>1
<1>5. RowShapes
  <2>1. elevations = <<>> /\ <<>> \in Seq({}) /\ now = 0 /\ assignments = budget.granted
    BY DEF Init
  <2> QED BY <1>1, <1>4, <2>1 DEF RowShapes, IsSeq
<1>6. BudgetFits
  BY <1>1 DEF BudgetFits
<1>7. NewestIsLive
  <2>1. \A c, d \in 1 .. n : mailed[c] = mailed[d] => c = d
    BY <1>1, <1>2
  <2>2. DOMAIN challenges = 1 .. n /\ \A c \in 1 .. n : challenges[c].user = mailed[c] /\ c <= c
    BY <1>3
  <2> QED BY <2>1, <2>2 DEF NewestIsLive
<1>8. Screens
  <2>1. ListFits(<<>>)
    <3>1. <<>> \in Seq({})
      OBVIOUS
    <3> QED BY <3>1 DEF ListFits, IsSeq
  <2> QED BY <2>1 DEF Init, Screens
<1>9. Requests
  BY DEF Init, Requests, Idle, RequestFits
<1> QED BY <1>5, <1>6, <1>7, <1>8, <1>9 DEF IInv

-----------------------------------------------------------------------------
(* What a step of a tab keeps *)

(* Assignments keep their member and move their version, elevations keep    *)
(* their expiry.                                                            *)
Advances ==
  /\ \A a \in DOMAIN assignments :
       /\ a \in DOMAIN assignments'
       /\ assignments'[a].member = assignments[a].member
       /\ assignments'[a] = assignments[a] \/ assignments[a].version < assignments'[a].version
  /\ \A e \in DOMAIN elevations : e \in DOMAIN elevations' /\ elevations'[e].expires = elevations[e].expires

LEMMA SeenStays ==
  ASSUME RowShapes, RowShapes', Advances, NEW a \in DOMAIN assignments, NEW seen \in AssignmentRows, SeenBefore(assignments[a], seen)
  PROVE  SeenBefore(assignments'[a], seen)
<1>1. PICK old \in AssignmentRows, new \in AssignmentRows : old = assignments[a] /\ new = assignments'[a]
  BY DEF RowShapes, Advances
<1>2. old.version \in Nat /\ new.version \in Nat /\ seen.version \in Nat
  BY DEF AssignmentRows
<1> QED BY <1>1, <1>2 DEF Advances, SeenBefore

LEMMA ListStays == ASSUME RowShapes, RowShapes', Advances, NEW list, ListFits(list) PROVE ListFits(list)'
BY SeenStays DEF ListFits, Advances

LEMMA WantsStay == ASSUME RowShapes, RowShapes', Advances, NEW wants, WantsFit(wants) PROVE WantsFit(wants)'
BY SeenStays DEF WantsFit, Advances

LEMMA RequestStays == ASSUME RowShapes, RowShapes', Advances, NEW r, RequestFits(r) PROVE RequestFits(r)'
<1>1. Members \subseteq Members'
  BY DEF Advances, Members
<1>2. CASE r.at \in {"token", "sent", "safe", "ready", "writing"}
  BY <1>2, WantsStay DEF RequestFits
<1>3. CASE r.at = "done"
  BY <1>1, <1>3 DEF RequestFits, Advances
<1>4. CASE r.at \notin {"token", "sent", "safe", "ready", "writing", "done"}
  BY <1>4 DEF RequestFits
<1> QED BY <1>2, <1>3, <1>4

LEMMA StepKeeps ==
  ASSUME IInv, NEW t \in Tabs, NEW r, request' = [request EXCEPT ![t] = r], RequestFits(r)',
         Advances, RowShapes', BudgetFits', NewestIsLive', Screens'
  PROVE  IInv'
<1>1. request' = [u \in Tabs |-> request'[u]] /\ \A u \in Tabs : request'[u] = IF u = t THEN r ELSE request[u]
  BY DEF IInv, Requests
<1>2. \A u \in Tabs : RequestFits(request[u])'
  <2>1. ASSUME NEW u \in Tabs, u # t PROVE RequestFits(request[u])'
    <3>1. PICK q : q = request[u] /\ q = request'[u]
      BY <1>1, <2>1
    <3>2. RequestFits(q)
      BY <3>1 DEF IInv, Requests
    <3>3. RequestFits(q)'
      BY <3>2, RequestStays DEF IInv
    <3> QED BY <3>1, <3>3
  <2> QED BY <1>1, <2>1
<1> QED BY <1>1, <1>2 DEF IInv, Requests

(* Most steps change the request of one tab and no row these facts are      *)
(* about.                                                                   *)
LEMMA RequestStepKeeps ==
  ASSUME IInv, NEW t \in Tabs, NEW r, request' = [request EXCEPT ![t] = r], RequestFits(r),
         UNCHANGED <<now, challenges, rights, screen>>, BudgetFits'
  PROVE  IInv'
<1>1. UNCHANGED <<now, challenges, assignments, elevations, screen>>
  BY DEF rights
<1>2. RowShapes' /\ NewestIsLive' /\ Screens' /\ Advances
  BY <1>1 DEF IInv, RowShapes, NewestIsLive, Live, Screens, ListFits, Advances
<1>3. RequestFits(r)'
  BY <1>1 DEF RequestFits, WantsFit, Members
<1> QED BY <1>2, <1>3, StepKeeps

LEMMA IdleFits == RequestFits(Idle) /\ Idle.at = "idle"
BY DEF RequestFits, Idle

(* What a waiting tab's request is. *)
LEMMA RequestIs ==
  ASSUME IInv, NEW t \in Tabs
  PROVE  /\ RequestFits(request[t])
         /\ Header(t) = Elevation(request[t].wants)
         /\ \A next : Goto(t, next) <=> request' = [request EXCEPT ![t] = next]
BY DEF IInv, Requests, Header, Elevation, Goto

LEMMA BudgetStays == ASSUME BudgetFits, UNCHANGED budget PROVE BudgetFits'
BY DEF BudgetFits

-----------------------------------------------------------------------------
(* Accounts *)

LEMMA RegistrationStepKeeps ==
  ASSUME IInv, NEW t \in Tabs,
         \/ \E u \in Users : Register(t, u)
         \/ \E c \in mail : Verify(t, c)
         \/ SendVerification(t) \/ DeadlockVictim(t)
  PROVE  IInv'
<1>1. UNCHANGED <<now, challenges, rights, screen>>
  BY DEF Register, Verify, SendVerification, DeadlockVictim, identity
<1>2. BudgetFits'
  BY SpendKeeps, BudgetStays DEF Register, Verify, SendVerification, DeadlockVictim, IInv
<1>3. ASSUME NEW u \in Users, Register(t, u) PROVE IInv'
  <2>1. PICK r : r = [at |-> "registering", user |-> u]
    OBVIOUS
  <2>2. RequestFits(r) /\ request' = [request EXCEPT ![t] = r]
    BY <1>3, <2>1 DEF Register, Goto, RequestFits
  <2> QED BY <1>1, <1>2, <2>2, RequestStepKeeps
<1>4. ASSUME NEW c \in mail, Verify(t, c) PROVE IInv'
  <2>1. PICK r : r = [at |-> "verifying", challenge |-> c]
    OBVIOUS
  <2>2. RequestFits(r) /\ request' = [request EXCEPT ![t] = r]
    BY <1>4, <2>1 DEF Verify, Goto, RequestFits
  <2> QED BY <1>1, <1>2, <2>2, RequestStepKeeps
<1>5. CASE SendVerification(t) \/ DeadlockVictim(t)
  <2>1. request' = [request EXCEPT ![t] = Idle]
    BY <1>5 DEF SendVerification, DeadlockVictim, Refuse, Goto
  <2> QED BY <1>1, <1>2, <2>1, IdleFits, RequestStepKeeps
<1> QED BY <1>3, <1>4, <1>5

LEMMA Unmoved ==
  ASSUME UNCHANGED <<now, assignments, elevations, screen>>, IInv
  PROVE  Screens' /\ Advances /\ (challenges' \in Seq(ChallengeRows) => RowShapes') /\ \A r : RequestFits(r) => RequestFits(r)'
BY DEF IInv, Screens, ListFits, Advances, RowShapes, RequestFits, WantsFit, Members

LEMMA IssueSessionKeeps == ASSUME IInv, NEW t \in Tabs, IssueSession(t) PROVE IInv'
<1>1. /\ request' = [request EXCEPT ![t] = Idle] /\ UNCHANGED <<now, challenges, assignments, elevations, budget>>
      /\ screen' = [screen EXCEPT ![t].user = challenges[request[t].challenge].user]
  BY DEF IssueSession, Goto, identity, rights
<1>2. RowShapes' /\ BudgetFits' /\ NewestIsLive' /\ Advances /\ RequestFits(Idle)'
  BY <1>1, IdleFits DEF IInv, RowShapes, BudgetFits, NewestIsLive, Live, Advances, RequestFits, Idle
<1>3. Screens'
  BY <1>1 DEF IInv, Screens, ListFits
<1> QED BY <1>1, <1>2, <1>3, StepKeeps

(* A registration supersedes the live challenges of its user before it      *)
(* inserts the next one.                                                    *)
LEMMA CreateChallengeKeeps == ASSUME IInv, NEW t \in Tabs, CreateChallenge(t) PROVE IInv'
<1> DEFINE u == request[t].user
           next == [user |-> u, created |-> now, consumed |-> FALSE, superseded |-> FALSE]
<1>1. At(t, "registering") /\ UNCHANGED <<now, assignments, elevations, screen, budget>>
  BY DEF CreateChallenge, rights
<1>2. u \in Users /\ next \in ChallengeRows
  BY <1>1, RequestIs DEF At, RequestFits, ChallengeRows, IInv, RowShapes
<1>3. BudgetFits'
  BY <1>1, BudgetStays DEF IInv
<1>4. CASE UNCHANGED challenges /\ Goto(t, Idle)
  BY <1>1, <1>3, <1>4, IdleFits, RequestStepKeeps, RequestIs DEF rights
<1>5. CASE challenges' = Append(Superseded(u), next) /\ Goto(t, [at |-> "sending", challenge |-> Len(challenges) + 1])
  <2>1. PICK old \in Seq(ChallengeRows), n \in Nat : old = challenges /\ n = Len(old) /\ DOMAIN old = 1 .. n
    BY DEF IInv, RowShapes
  <2>2. PICK dead : dead = Superseded(u)
    OBVIOUS
  <2>3. /\ dead \in Seq(ChallengeRows) /\ DOMAIN dead = 1 .. n
        /\ \A c \in 1 .. n : /\ dead[c].user = old[c].user /\ dead[c].consumed = old[c].consumed
                             /\ dead[c].superseded = (old[c].superseded \/ c \in LiveOf(u))
    <3>1. dead = [c \in 1 .. n |-> [old[c] EXCEPT !.superseded = @ \/ c \in LiveOf(u)]]
      BY <2>1, <2>2 DEF Superseded
    <3>2. ASSUME NEW c \in 1 .. n
          PROVE  /\ dead[c] \in ChallengeRows /\ dead[c].user = old[c].user /\ dead[c].consumed = old[c].consumed
                 /\ dead[c].superseded = (old[c].superseded \/ c \in LiveOf(u))
      <4>1. PICK row \in ChallengeRows : row = old[c]
        BY <2>1
      <4>2. PICK flag \in BOOLEAN : flag = (old[c].superseded \/ c \in LiveOf(u))
        OBVIOUS
      <4>3. dead[c] = [row EXCEPT !.superseded = flag]
        BY <3>1, <4>1, <4>2
      <4>4. [row EXCEPT !.superseded = flag] \in ChallengeRows
        BY DEF ChallengeRows
      <4> QED BY <4>1, <4>2, <4>3, <4>4 DEF ChallengeRows
    <3>3. dead = [c \in 1 .. n |-> dead[c]]
      BY <3>1
    <3>4. dead \in Seq(ChallengeRows)
      BY <3>2, <3>3
    <3>5. DOMAIN dead = 1 .. n
      BY <3>1
    <3> QED BY <3>2, <3>4, <3>5
  <2>4. /\ challenges' \in Seq(ChallengeRows) /\ DOMAIN challenges' = 1 .. n + 1
        /\ challenges'[n + 1] = next /\ \A c \in 1 .. n : challenges'[c] = dead[c]
    <3> HIDE DEF next
    <3> QED BY <1>2, <1>5, <2>1, <2>2, <2>3
  <2>5. NewestIsLive'
    <3>1. ASSUME NEW c \in 1 .. n + 1, NEW d \in 1 .. n + 1, challenges'[c].user = challenges'[d].user, Live(c)'
          PROVE  d <= c
      <4>1. CASE c = n + 1
        BY <4>1
      <4>2. CASE c \in 1 .. n /\ d \in 1 .. n
        <5>1. Live(c) /\ challenges[c].user = challenges[d].user
          BY <2>1, <2>3, <2>4, <3>1, <4>2 DEF Live
        <5> QED BY <2>1, <4>2, <5>1 DEF IInv, NewestIsLive
      <4>3. CASE c \in 1 .. n /\ d = n + 1
        <5>1. challenges[c].user = u
          BY <2>1, <2>3, <2>4, <3>1, <4>3
        <5>2. Live(c) /\ c \notin LiveOf(u)
          BY <2>1, <2>3, <2>4, <3>1, <4>3 DEF Live
        <5> QED BY <2>1, <4>3, <5>1, <5>2 DEF LiveOf
      <4> QED BY <4>1, <4>2, <4>3
    <3> QED BY <2>4, <3>1 DEF NewestIsLive
  <2>6. PICK r : r = [at |-> "sending", challenge |-> Len(challenges) + 1]
    OBVIOUS
  <2>7. RequestFits(r)' /\ request' = [request EXCEPT ![t] = r]
    BY <1>5, <2>6 DEF RequestFits, Goto
  <2> QED BY <1>1, <1>3, <2>4, <2>5, <2>7, Unmoved, StepKeeps
<1> QED BY <1>4, <1>5 DEF CreateChallenge

LEMMA ConsumeChallengeKeeps == ASSUME IInv, NEW t \in Tabs, ConsumeChallenge(t) PROVE IInv'
<1>1. UNCHANGED <<now, assignments, elevations, screen, budget>>
  BY DEF ConsumeChallenge, rights
<1>2. BudgetFits'
  BY <1>1, BudgetStays DEF IInv
<1>3. CASE UNCHANGED challenges /\ Refuse(t)
  BY <1>1, <1>2, <1>3, IdleFits, RequestStepKeeps DEF rights, Refuse, Goto
<1>4. ASSUME NEW c, challenges' = [challenges EXCEPT ![c].consumed = TRUE], Goto(t, [at |-> "issuing", challenge |-> c])
      PROVE  IInv'
  <2>1. challenges' \in Seq(ChallengeRows) /\ DOMAIN challenges' = DOMAIN challenges
        /\ \A d \in DOMAIN challenges : challenges'[d].user = challenges[d].user /\ (Live(d)' => Live(d))
    <3>1. PICK old \in Seq(ChallengeRows), n \in Nat : old = challenges /\ DOMAIN old = 1 .. n
      BY DEF IInv, RowShapes
    <3>2. CASE c \notin 1 .. n
      <4>1. challenges' = challenges
        BY <1>4, <3>1, <3>2
      <4> QED BY <3>1, <4>1 DEF Live
    <3>3. CASE c \in 1 .. n
      <4>0. PICK row \in ChallengeRows : row = old[c]
        BY <3>1, <3>3
      <4>1. PICK used : used = [row EXCEPT !.consumed = TRUE]
        OBVIOUS
      <4>2. used \in ChallengeRows /\ used.user = row.user /\ used.consumed
        BY <4>1 DEF ChallengeRows
      <4>3. challenges' = [old EXCEPT ![c] = used]
        BY <1>4, <3>1, <3>3, <4>0, <4>1
      <4>4. [old EXCEPT ![c] = used] \in Seq(ChallengeRows)
        BY <4>2, SeqUpdate
      <4>5. DOMAIN challenges' = 1 .. n /\ \A d \in 1 .. n : challenges'[d] = IF d = c THEN used ELSE old[d]
        BY <3>1, <4>3
      <4> QED BY <3>1, <4>0, <4>2, <4>3, <4>4, <4>5 DEF Live
    <3> QED BY <3>2, <3>3
  <2>2. NewestIsLive'
    BY <2>1 DEF IInv, NewestIsLive
  <2>3. PICK r : r = [at |-> "issuing", challenge |-> c]
    OBVIOUS
  <2>4. RequestFits(r)' /\ request' = [request EXCEPT ![t] = r]
    BY <1>4, <2>3 DEF RequestFits, Goto
  <2> QED BY <1>1, <1>2, <2>1, <2>2, <2>4, Unmoved, StepKeeps
<1> QED BY <1>3, <1>4 DEF ConsumeChallenge

-----------------------------------------------------------------------------
(* What the portal's forms send *)

LEMMA MutationIsThere == ASSUME NEW names, NEW audience, NEW name \in names PROVE \E x \in Mutations(names, audience) : x.name = name
<1>1. [name |-> name, audience |-> audience, mutates |-> TRUE, asserts |-> TRUE] \in Mutations(names, audience)
  BY DEF Mutations, Routes
<1> QED BY <1>1

LEMMA RouteAsserts == \A name \in FormRoutes : RouteOf(name).asserts
<1>1. \A name \in {"createAssignment", "updateAssignment", "revokeAssignment"} : \E x \in RoleRoutes : x.name = name
  BY MutationIsThere DEF RoleRoutes
<1>2. \A name \in {"startElevation", "closeElevation"} : \E x \in SupportRoutes : x.name = name
  BY MutationIsThere DEF SupportRoutes
<1>3. \A name \in {"requestFunctionalHandoff"} : \E x \in HandoffRoutes : x.name = name
  BY MutationIsThere DEF HandoffRoutes
<1>4. RoleRoutes \cup SupportRoutes \cup HandoffRoutes \subseteq AllRoutes
  BY DEF AllRoutes
<1>5. ASSUME NEW name \in FormRoutes PROVE RouteOf(name).asserts
  <2>1. \E x \in AllRoutes : x.name = name
    BY <1>1, <1>2, <1>3, <1>4 DEF FormRoutes
  <2>2. PICK r : r = CHOOSE x \in AllRoutes : x.name = name
    OBVIOUS
  <2>3. r \in AllRoutes /\ r.name = name
    BY <2>1, <2>2
  <2>4. r.asserts
    BY <2>3, RoutesAssert DEF Asserting
  <2> QED BY <2>2, <2>4 DEF RouteOf
<1> QED BY <1>5

LEMMA AccessFormsFit == ASSUME IInv, NEW t \in Tabs, NEW wants \in AccessForms(t) PROVE WantsFit(wants)
<1> DEFINE lists == screen[t].lists
<1>1. ListFits(lists)
  BY DEF IInv, Screens
<1>2. \A name \in {"updateAssignment", "revokeAssignment", "createAssignment"} : RouteOf(name).asserts
  BY RouteAsserts DEF FormRoutes
<1>3. CASE \E a \in DOMAIN lists : lists[a].status # "REVOKED" /\ wants =
             [op |-> "update", route |-> RouteOf("updateAssignment"), id |-> a, shown |-> lists[a],
              status |-> IF lists[a].status = "ACTIVE" THEN "SUSPENDED" ELSE "ACTIVE"]
  BY <1>1, <1>2, <1>3 DEF WantsFit, ListFits, Elevation
<1>4. CASE \E a \in DOMAIN lists : lists[a].status # "REVOKED" /\ wants =
             [op |-> "revoke", route |-> RouteOf("revokeAssignment"), id |-> a, shown |-> lists[a]]
  BY <1>1, <1>2, <1>4 DEF WantsFit, ListFits, Elevation
<1>5. CASE \E a \in DOMAIN lists : wants =
             [op |-> "create", route |-> RouteOf("createAssignment"),
              assignment |-> [member |-> lists[a].member, permissions |-> {"work"}, scopes |-> {"s"}, status |-> "ACTIVE", version |-> 1]]
  <2>1. PICK a \in DOMAIN lists : wants =
          [op |-> "create", route |-> RouteOf("createAssignment"),
           assignment |-> [member |-> lists[a].member, permissions |-> {"work"}, scopes |-> {"s"}, status |-> "ACTIVE", version |-> 1]]
    BY <1>5
  <2>2. lists[a].member \in Users
    BY <1>1 DEF ListFits, AssignmentRows
  <2>3. [member |-> lists[a].member, permissions |-> {"work"}, scopes |-> {"s"}, status |-> "ACTIVE", version |-> 1] \in AssignmentRows
    BY <2>2 DEF AssignmentRows
  <2> QED BY <1>2, <2>1, <2>3 DEF WantsFit, Elevation
<1> QED BY <1>3, <1>4, <1>5 DEF AccessForms

LEMMA SupportFormsFit == ASSUME IInv, NEW t \in Tabs, NEW wants \in SupportForms(t) PROVE WantsFit(wants)
<1>1. \A name \in {"startElevation", "closeElevation", "requestFunctionalHandoff"} : RouteOf(name).asserts
  BY RouteAsserts DEF FormRoutes
<1>2. CASE wants = [op |-> "start", route |-> RouteOf("startElevation"), expires |-> now + 1]
  BY <1>1, <1>2 DEF WantsFit, Elevation
<1>3. CASE \E e \in DOMAIN elevations :
             \/ wants = [op |-> "close", route |-> RouteOf("closeElevation"), elevation |-> e]
             \/ wants = [op |-> "work", route |-> RouteOf("requestFunctionalHandoff"), elevation |-> e]
  BY <1>1, <1>3 DEF WantsFit, Elevation
<1> QED BY <1>2, <1>3 DEF SupportForms

LEMMA OtherFormsFit == ASSUME NEW wants \in OtherForms PROVE WantsFit(wants)
<1>1. PICK r \in AllRoutes : r.mutates /\ r.audience # "none" /\ wants = [op |-> "work", route |-> [audience |-> r.audience, asserts |-> r.asserts]]
  BY DEF OtherForms
<1>2. r.asserts
  BY <1>1, RoutesAssert DEF Asserting
<1> QED BY <1>1, <1>2 DEF WantsFit, Elevation

LEMMA FormsFit == ASSUME IInv, NEW t \in Tabs, NEW wants \in Forms(t) PROVE WantsFit(wants)
BY AccessFormsFit, SupportFormsFit, OtherFormsFit DEF Forms, IInv, BudgetFits

-----------------------------------------------------------------------------
(* Sessions *)

LEMMA RequestOnly ==
  ASSUME IInv, NEW t \in Tabs, NEW r, Goto(t, r), RequestFits(r), UNCHANGED <<now, identity, screen, rights>>, BudgetFits'
  PROVE  IInv'
BY RequestStepKeeps DEF Goto, identity

LEMMA RefreshKeeps == ASSUME IInv, NEW t \in Tabs, RefreshSession(t) PROVE IInv'
<1>1. BudgetFits'
  BY SpendKeeps DEF RefreshSession, IInv
<1>2. PICK u : Goto(t, [at |-> "refreshed", user |-> u])
  BY DEF RefreshSession
<1>3. PICK r : r = [at |-> "refreshed", user |-> u]
  OBVIOUS
<1>4. RequestFits(r)
  BY <1>3 DEF RequestFits
<1> QED BY <1>1, <1>2, <1>3, <1>4, RequestOnly DEF RefreshSession

LEMMA ShowSessionKeeps == ASSUME IInv, NEW t \in Tabs, ShowSession(t) PROVE IInv'
<1>1. /\ request' = [request EXCEPT ![t] = Idle] /\ UNCHANGED <<now, challenges, assignments, elevations, budget>>
      /\ screen' = [screen EXCEPT ![t].user = request[t].user]
  BY DEF ShowSession, Goto, identity, rights
<1>2. RowShapes' /\ BudgetFits' /\ NewestIsLive' /\ Advances /\ RequestFits(Idle)'
  BY <1>1, IdleFits DEF IInv, RowShapes, BudgetFits, NewestIsLive, Live, Advances, RequestFits, Idle
<1>3. Screens'
  BY <1>1 DEF IInv, Screens, ListFits
<1> QED BY <1>1, <1>2, <1>3, StepKeeps

LEMMA TokenKeeps ==
  ASSUME IInv, NEW t \in Tabs, NEW wants, WantsFit(wants), IssueCsrfToken(t, wants), BudgetFits'
  PROVE  IInv'
<1>1. ASSUME NEW n, Goto(t, [at |-> "token", wants |-> wants, session |-> n, issued |-> now, cookie |-> 0]) PROVE IInv'
  <2>1. PICK r : r = [at |-> "token", wants |-> wants, session |-> n, issued |-> now, cookie |-> 0]
    OBVIOUS
  <2>2. RequestFits(r)
    BY <2>1 DEF RequestFits
  <2> QED BY <1>1, <2>1, <2>2, RequestOnly DEF IssueCsrfToken
<1>2. CASE Goto(t, Idle)
  BY <1>2, IdleFits, RequestOnly DEF IssueCsrfToken
<1> QED BY <1>1, <1>2 DEF IssueCsrfToken

LEMMA LogOutOrMutateKeeps == ASSUME IInv, NEW t \in Tabs, LogOut(t) \/ (\E wants \in Forms(t) : Mutate(t, wants)) PROVE IInv'
<1>1. BudgetFits'
  BY SpendKeeps DEF LogOut, Mutate, IInv
<1>2. WantsFit([op |-> "logout"])
  BY DEF WantsFit, Elevation
<1> QED BY <1>1, <1>2, FormsFit, TokenKeeps DEF LogOut, Mutate

LEMMA SendKeeps == ASSUME IInv, NEW t \in Tabs, Send(t) PROVE IInv'
<1>1. /\ request' = [request EXCEPT ![t].at = "sent", ![t].cookie = cookie[Jar(t)]]
      /\ UNCHANGED <<now, challenges, rights, screen, budget>> /\ request[t].at = "token"
  BY DEF Send, At, identity
<1>2. PICK old, c : old = request[t] /\ c = cookie[Jar(t)]
  OBVIOUS
<1>3. RequestFits(old)
  BY <1>2 DEF IInv, Requests
<1>4. PICK r : r = [at |-> "sent", wants |-> old.wants, session |-> old.session, issued |-> old.issued, cookie |-> c]
  OBVIOUS
<1>5. old = [at |-> "token", wants |-> old.wants, session |-> old.session, issued |-> old.issued, cookie |-> old.cookie] /\ WantsFit(old.wants)
  BY <1>1, <1>2, <1>3 DEF RequestFits
<1>6. RequestFits(r)
  BY <1>4, <1>5 DEF RequestFits
<1>7. request' = [request EXCEPT ![t] = r]
  <2>1. PICK wants, session, issued, none : old = [at |-> "token", wants |-> wants, session |-> session, issued |-> issued, cookie |-> none]
    BY <1>5
  <2>2. [old EXCEPT !.at = "sent", !.cookie = c] = r
    <3>1. PICK left : left = [old EXCEPT !.at = "sent", !.cookie = c]
      OBVIOUS
    <3>2. left = [at |-> "sent", wants |-> wants, session |-> session, issued |-> issued, cookie |-> c]
      BY <2>1, <3>1
    <3>3. r = [at |-> "sent", wants |-> wants, session |-> session, issued |-> issued, cookie |-> c]
      BY <1>4, <2>1
    <3> QED BY <3>1, <3>2, <3>3
  <2> QED BY <1>1, <1>2, <2>2
<1> QED BY <1>1, <1>6, <1>7, RequestStepKeeps, BudgetStays DEF IInv

(* A handler that goes on keeps the fields of its request. *)
LEMMA ProceedIs == ASSUME IInv, NEW t \in Tabs, NEW phase, Proceed(t, phase) PROVE request' = [request EXCEPT ![t] = [request[t] EXCEPT !.at = phase]]
BY DEF IInv, Requests, Proceed

LEMMA AssertKeeps == ASSUME IInv, NEW t \in Tabs, AssertMutationSafe(t) PROVE IInv'
<1>1. UNCHANGED <<now, identity, challenges, rights, screen, budget>> /\ request[t].at = "sent" /\ BudgetFits'
  BY BudgetStays DEF AssertMutationSafe, At, identity, IInv
<1>2. CASE Refuse(t)
  BY <1>1, <1>2, IdleFits, RequestOnly DEF Refuse
<1>3. CASE CsrfValid(t) /\ Proceed(t, "safe")
  <2>1. PICK old : old = request[t] /\ RequestFits(old)
    BY DEF IInv, Requests
  <2>2. PICK r : r = [old EXCEPT !.at = "safe"]
    OBVIOUS
  <2>3. old = [at |-> "sent", wants |-> old.wants, session |-> old.session, issued |-> old.issued, cookie |-> old.cookie] /\ WantsFit(old.wants)
        /\ old.session = old.cookie
    BY <1>1, <1>3, <2>1 DEF RequestFits, CsrfValid
  <2>4. r = [at |-> "safe", wants |-> old.wants, session |-> old.session, issued |-> old.issued, cookie |-> old.cookie]
    BY <2>2, <2>3
  <2>5. RequestFits(r)
    BY <2>3, <2>4 DEF RequestFits
  <2> QED BY <1>1, <1>3, <2>1, <2>2, <2>5, ProceedIs, RequestStepKeeps
<1> QED BY <1>2, <1>3 DEF AssertMutationSafe

LEMMA RevokeSessionKeeps == ASSUME IInv, NEW t \in Tabs, RevokeCurrentSession(t) PROVE IInv'
<1>1. UNCHANGED <<now, identity, challenges, assignments, elevations, rights, budget>> /\ BudgetFits' /\ request' = [request EXCEPT ![t] = Idle]
  BY BudgetStays DEF RevokeCurrentSession, identity, rights, IInv, Refuse, Goto
<1>2. CASE UNCHANGED screen
  BY <1>1, <1>2, IdleFits, RequestStepKeeps
<1>3. CASE screen' = [screen EXCEPT ![t] = [user |-> Nobody, lists |-> <<>>]]
  <2>1. RowShapes' /\ NewestIsLive' /\ Advances /\ RequestFits(Idle)'
    BY <1>1, IdleFits DEF IInv, RowShapes, NewestIsLive, Live, Advances, RequestFits, Idle
  <2>2. ListFits(<<>>)'
    <3>1. <<>> \in Seq({})
      OBVIOUS
    <3> QED BY <3>1 DEF ListFits, IsSeq
  <2>3. Screens'
    BY <1>1, <1>3, <2>2 DEF IInv, Screens, ListFits
  <2> QED BY <1>1, <2>1, <2>3, StepKeeps
<1> QED BY <1>2, <1>3 DEF RevokeCurrentSession

-----------------------------------------------------------------------------
(* Operations *)

(* A context is resolved for the session whose token was checked. *)
LEMMA ResolveContextKeeps == ASSUME IInv, NEW t \in Tabs, ResolveContext(t) PROVE IInv'
<1>1. UNCHANGED <<now, identity, screen, rights, budget>> /\ BudgetFits'
  BY BudgetStays DEF ResolveContext, IInv
<1>2. PICK old : old = request[t] /\ RequestFits(old)
  BY DEF IInv, Requests
<1>3. WantsFit(old.wants) /\ old.session = old.cookie
  <2>1. CASE old.at = "safe"
    BY <1>2, <2>1 DEF RequestFits
  <2>2. CASE old.at = "sent" /\ old.wants.op # "logout" /\ ~old.wants.route.asserts
    BY <1>2, <2>2 DEF RequestFits, WantsFit
  <2> QED BY <1>2, <2>1, <2>2 DEF ResolveContext, At
<1>4. CASE Refuse(t)
  BY <1>1, <1>4, IdleFits, RequestOnly DEF Refuse
<1>5. ASSUME NEW user, NEW context,
             Goto(t, [at |-> "ready", wants |-> old.wants, user |-> user, context |-> context, cookie |-> old.cookie, session |-> old.session])
      PROVE  IInv'
  <2>1. PICK r : r = [at |-> "ready", wants |-> old.wants, user |-> user, context |-> context, cookie |-> old.cookie, session |-> old.session]
    OBVIOUS
  <2>2. RequestFits(r)
    BY <1>3, <2>1 DEF RequestFits
  <2> QED BY <1>1, <1>5, <2>1, <2>2, RequestOnly
<1> QED BY <1>2, <1>4, <1>5 DEF ResolveContext

(* The answer to an operation. *)
Reply(old) == [at |-> "done", wants |-> old.wants, user |-> old.user, cookie |-> old.cookie, session |-> old.session, when |-> now]

LEMMA AnswerGoes == ASSUME NEW t \in Tabs, Answer(t) PROVE request' = [request EXCEPT ![t] = Reply(request[t])]
BY DEF Answer, Goto, Reply

LEMMA ReplyFits ==
  ASSUME NEW old, RequestFits(old), old.at \in {"ready", "writing"},
         old.wants.op = "work" /\ Elevation(old.wants) # 0 /\ old.user \notin Members => now < elevations[Elevation(old.wants)].expires
  PROVE  RequestFits(Reply(old))
<1>1. PICK r : r = Reply(old)
  OBVIOUS
<1>2. r.at = "done" /\ r.wants = old.wants /\ r.user = old.user /\ r.cookie = old.cookie /\ r.session = old.session /\ r.when = now
  BY <1>1 DEF Reply
<1>3. old.session = old.cookie /\ WantsFit(old.wants)
  BY DEF RequestFits
<1>4. RequestFits(r)
  BY <1>2, <1>3 DEF RequestFits, WantsFit
<1> QED BY <1>1, <1>4

LEMMA WritingFits == ASSUME NEW old, RequestFits(old), old.at = "ready" PROVE RequestFits([old EXCEPT !.at = "writing"])
<1>1. PICK r : r = [old EXCEPT !.at = "writing"]
  OBVIOUS
<1>2. PICK wants, user, context, cook, session : old = [at |-> "ready", wants |-> wants, user |-> user, context |-> context, cookie |-> cook, session |-> session]
  BY DEF RequestFits
<1>3. r = [at |-> "writing", wants |-> wants, user |-> user, context |-> context, cookie |-> cook, session |-> session]
  BY <1>1, <1>2
<1>4. WantsFit(wants) /\ session = cook
  BY <1>2 DEF RequestFits
<1>5. RequestFits(r)
  BY <1>3, <1>4 DEF RequestFits
<1> QED BY <1>1, <1>5

LEMMA ReadingKeeps ==
  ASSUME IInv, NEW t \in Tabs, Work(t) \/ ReadAssignment(t) \/ FindElevation(t) \/ Receive(t)
  PROVE  IInv'
<1>1. UNCHANGED <<now, identity, challenges, screen, rights, budget>> /\ BudgetFits'
  BY BudgetStays DEF Work, ReadAssignment, FindElevation, Receive, KeepAll, identity, IInv
<1>2. PICK old : old = request[t] /\ RequestFits(old)
  BY DEF IInv, Requests
<1>3. CASE Refuse(t)
  BY <1>1, <1>3, IdleFits, RequestOnly DEF Refuse
<1>4. CASE Answer(t) /\ Work(t) /\ ElevationIsActive(t)
  <2>1. old.at = "ready" /\ ElevationIsActive(t)
    BY <1>2, <1>4 DEF Work, Does, At
  <2>2. old.wants.op = "work" /\ Elevation(old.wants) # 0 /\ old.user \notin Members => now < elevations[Elevation(old.wants)].expires
    BY <1>2, <2>1, RequestIs DEF ElevationIsActive
  <2>3. RequestFits(Reply(old))
    BY <1>2, <2>1, <2>2, ReplyFits
  <2> QED BY <1>1, <1>2, <1>4, <2>3, AnswerGoes, RequestStepKeeps
<1>5. CASE Answer(t) /\ ReadAssignment(t)
  <2>1. old.at = "ready" /\ old.wants.op # "work"
    BY <1>2, <1>5 DEF ReadAssignment, Does, At
  <2>2. RequestFits(Reply(old))
    BY <1>2, <2>1, ReplyFits
  <2> QED BY <1>1, <1>2, <1>5, <2>2, AnswerGoes, RequestStepKeeps
<1>6. CASE Proceed(t, "writing") /\ old.at = "ready"
  BY <1>1, <1>2, <1>6, WritingFits, ProceedIs, RequestStepKeeps
<1> QED BY <1>2, <1>3, <1>4, <1>5, <1>6 DEF Work, ReadAssignment, FindElevation, Receive, Does, At

LEMMA CreateAssignmentKeeps == ASSUME IInv, NEW t \in Tabs, CreateAssignment(t) PROVE IInv'
<1>1. UNCHANGED <<now, challenges, elevations, screen, budget>> /\ BudgetFits' /\ NewestIsLive'
  BY BudgetStays DEF CreateAssignment, KeepAll, identity, IInv, NewestIsLive, Live
<1>2. PICK old : old = request[t] /\ RequestFits(old)
  BY DEF IInv, Requests
<1>3. old.at = "ready" /\ old.wants.op = "create" /\ WantsFit(old.wants)
  BY <1>2 DEF CreateAssignment, Does, At, RequestFits
<1>4. CASE UNCHANGED assignments /\ Refuse(t)
  BY <1>1, <1>4, IdleFits, RequestStepKeeps DEF Refuse, Goto, rights
<1>5. CASE assignments' = Append(assignments, old.wants.assignment) /\ Answer(t)
  <2>1. PICK new \in AssignmentRows : new = old.wants.assignment
    BY <1>3 DEF WantsFit
  <2>2. PICK rows \in Seq(AssignmentRows), n \in Nat : rows = assignments /\ DOMAIN rows = 1 .. n
    BY DEF IInv, RowShapes
  <2>3. /\ assignments' \in Seq(AssignmentRows) /\ DOMAIN assignments' = 1 .. n + 1
        /\ \A a \in 1 .. n : assignments'[a] = assignments[a]
    BY <1>5, <2>1, <2>2
  <2>4. RowShapes' /\ Advances
    BY <1>1, <2>2, <2>3 DEF IInv, RowShapes, Advances
  <2>5. Screens'
    BY <1>1, <2>4, ListStays DEF IInv, Screens
  <2>6. RequestFits(Reply(old))
    BY <1>2, <1>3, ReplyFits
  <2>7. PICK r : r = Reply(old)
    OBVIOUS
  <2>8. RequestFits(r)'
    BY <2>4, <2>6, <2>7, RequestStays DEF IInv
  <2> QED BY <1>1, <1>2, <1>5, <2>4, <2>5, <2>7, <2>8, AnswerGoes, StepKeeps
<1> QED BY <1>2, <1>4, <1>5 DEF CreateAssignment

(* A write that goes through was asked for from the assignment as it is. *)
LEMMA ListedIsCurrent ==
  ASSUME IInv, NEW t \in Tabs, At(t, "writing"), request[t].wants.op \in {"update", "revoke"}, AsListed(t)
  PROVE  /\ request[t].wants.id \in DOMAIN assignments
         /\ request[t].wants.shown = assignments[request[t].wants.id]
         /\ request[t].wants.shown.status # "REVOKED"
<1>1. PICK wants : wants = request[t].wants /\ WantsFit(wants)
  BY DEF IInv, Requests, RequestFits, At
<1>2. PICK row \in AssignmentRows : row = assignments[wants.id]
  BY <1>1 DEF IInv, RowShapes, WantsFit
<1>3. wants.shown.version \in Nat /\ row.version \in Nat /\ row.version = wants.shown.version
  BY <1>1, <1>2 DEF WantsFit, AssignmentRows, AsListed
<1> QED BY <1>1, <1>2, <1>3 DEF WantsFit, SeenBefore

LEMMA WriteAssignmentKeeps == ASSUME IInv, NEW t \in Tabs, WriteAssignment(t) PROVE IInv'
<1>1. UNCHANGED <<now, challenges, elevations, screen, budget>> /\ BudgetFits' /\ NewestIsLive'
  BY BudgetStays DEF WriteAssignment, KeepAll, identity, IInv, NewestIsLive, Live
<1>2. PICK old : old = request[t] /\ RequestFits(old)
  BY DEF IInv, Requests
<1>3. old.at = "writing" /\ old.wants.op \in {"update", "revoke"} /\ WantsFit(old.wants)
  BY <1>2 DEF WriteAssignment, At, RequestFits
<1>4. CASE UNCHANGED assignments /\ Refuse(t)
  BY <1>1, <1>4, IdleFits, RequestStepKeeps DEF Refuse, Goto, rights
<1>5. PICK id, to : id = old.wants.id /\ to = IF old.wants.op = "revoke" THEN "REVOKED" ELSE old.wants.status
  OBVIOUS
<1>6. CASE assignments' = [assignments EXCEPT ![id].status = to, ![id].version = @ + 1] /\ Answer(t)
  <2>1. id \in DOMAIN assignments /\ to \in {"ACTIVE", "SUSPENDED", "REVOKED"}
    BY <1>3, <1>5 DEF WantsFit
  <2>2. PICK rows \in Seq(AssignmentRows), n \in Nat : rows = assignments /\ DOMAIN rows = 1 .. n
    BY DEF IInv, RowShapes
  <2>3. PICK row \in AssignmentRows : row = rows[id]
    BY <2>1, <2>2
  <2>4. PICK member \in Users, permissions \in SUBSET {"manage", "work"}, scopes \in SUBSET {"s", "*"},
             before \in {"ACTIVE", "SUSPENDED", "REVOKED"}, version \in Nat :
          row = [member |-> member, permissions |-> permissions, scopes |-> scopes, status |-> before, version |-> version]
    BY DEF AssignmentRows
  <2>5. PICK new : new = [member |-> member, permissions |-> permissions, scopes |-> scopes, status |-> to, version |-> version + 1]
    OBVIOUS
  <2>6. /\ new \in AssignmentRows /\ new.member = row.member /\ row.version < new.version
        /\ assignments' = [rows EXCEPT ![id] = new]
    <3>0. PICK next : next = version + 1
      OBVIOUS
    <3>1. PICK left : left = [row EXCEPT !.status = to, !.version = next]
      OBVIOUS
    <3>2. row.version = version
      BY <2>4
    <3>3. left = new
      <4>1. left = [member |-> member, permissions |-> permissions, scopes |-> scopes, status |-> to, version |-> next]
        BY <2>4, <3>1
      <4> QED BY <2>5, <3>0, <4>1
    <3>4. assignments' = [rows EXCEPT ![id] = [row EXCEPT !.status = to, !.version = next]]
      BY <1>6, <2>1, <2>2, <2>3, <3>0, <3>2
    <3>5. assignments' = [rows EXCEPT ![id] = new]
      BY <3>1, <3>3, <3>4
    <3>6. new \in AssignmentRows /\ new.member = row.member /\ version < new.version
      BY <2>1, <2>4, <2>5 DEF AssignmentRows
    <3> QED BY <3>2, <3>5, <3>6
  <2>7. assignments' \in Seq(AssignmentRows)
    BY <2>6, SeqUpdate
  <2>8. DOMAIN assignments' = 1 .. n /\ \A a \in 1 .. n : assignments'[a] = IF a = id THEN new ELSE rows[a]
    BY <2>2, <2>6
  <2>9. RowShapes' /\ Advances
    BY <1>1, <2>2, <2>3, <2>6, <2>7, <2>8 DEF IInv, RowShapes, Advances
  <2>10. Screens'
    BY <1>1, <2>9, ListStays DEF IInv, Screens
  <2>11. RequestFits(Reply(old))
    BY <1>2, <1>3, ReplyFits
  <2>12. PICK r : r = Reply(old)
    OBVIOUS
  <2>13. RequestFits(r)'
    BY <2>9, <2>11, <2>12, RequestStays DEF IInv
  <2> QED BY <1>1, <1>2, <1>6, <2>9, <2>10, <2>12, <2>13, AnswerGoes, StepKeeps
<1> QED BY <1>2, <1>4, <1>5, <1>6 DEF WriteAssignment

(* The two operations on elevations. *)
LEMMA ElevationStepKeeps ==
  ASSUME IInv, NEW t \in Tabs, request[t].at \in {"ready", "writing"}, request[t].wants.op # "work", Answer(t),
         UNCHANGED <<now, identity, screen, budget, assignments>>,
         IsSeq(elevations'), DOMAIN elevations \subseteq DOMAIN elevations',
         \A e \in DOMAIN elevations : elevations'[e].expires = elevations[e].expires,
         \A e \in DOMAIN elevations' :
           elevations'[e] = [actor |-> elevations'[e].actor, scopes |-> elevations'[e].scopes,
                             expires |-> elevations'[e].expires, closed |-> elevations'[e].closed]
  PROVE  IInv'
<1>1. UNCHANGED <<now, challenges, assignments, screen, budget>>
  BY DEF identity
<1>2. RowShapes' /\ Advances /\ NewestIsLive' /\ BudgetFits'
  BY <1>1 DEF IInv, RowShapes, Advances, NewestIsLive, Live, BudgetFits
<1>3. Screens'
  BY <1>1, <1>2, ListStays DEF IInv, Screens
<1>4. PICK r : r = Reply(request[t])
  OBVIOUS
<1>5. RequestFits(r)
  BY <1>4, ReplyFits DEF IInv, Requests
<1>6. RequestFits(r)'
  BY <1>2, <1>5, RequestStays DEF IInv
<1> QED BY <1>2, <1>3, <1>4, <1>6, AnswerGoes, StepKeeps

LEMMA StartElevationKeeps == ASSUME IInv, NEW t \in Tabs, StartSupportElevation(t) PROVE IInv'
<1>1. UNCHANGED <<now, identity, screen, budget, assignments>> /\ BudgetFits' /\ request[t].at = "ready" /\ request[t].wants.op # "work"
  BY BudgetStays DEF StartSupportElevation, KeepAll, Does, At, IInv
<1>2. CASE UNCHANGED elevations /\ Refuse(t)
  BY <1>1, <1>2, IdleFits, RequestOnly DEF Refuse, rights
<1>3. ASSUME NEW new, new = [actor |-> new.actor, scopes |-> new.scopes, expires |-> new.expires, closed |-> new.closed],
             elevations' = Append(elevations, new), Answer(t)
      PROVE  IInv'
  <2>1. /\ IsSeq(elevations') /\ DOMAIN elevations \subseteq DOMAIN elevations'
        /\ \A e \in DOMAIN elevations : elevations'[e] = elevations[e]
        /\ \A e \in DOMAIN elevations' : e \in DOMAIN elevations \/ elevations'[e] = new
    BY <1>3, Appended DEF IInv, RowShapes
  <2>2. \A e \in DOMAIN elevations' :
          elevations'[e] = [actor |-> elevations'[e].actor, scopes |-> elevations'[e].scopes,
                            expires |-> elevations'[e].expires, closed |-> elevations'[e].closed]
    BY <1>3, <2>1 DEF IInv, RowShapes
  <2> QED BY <1>1, <1>3, <2>1, <2>2, ElevationStepKeeps
<1>4. PICK new : new = [actor |-> request[t].user, scopes |-> {"s"}, expires |-> request[t].wants.expires, closed |-> FALSE]
  OBVIOUS
<1>5. new = [actor |-> new.actor, scopes |-> new.scopes, expires |-> new.expires, closed |-> new.closed]
  BY <1>4
<1> QED BY <1>2, <1>3, <1>4, <1>5 DEF StartSupportElevation

LEMMA CloseElevationKeeps == ASSUME IInv, NEW t \in Tabs, CloseElevation(t) PROVE IInv'
<1>1. UNCHANGED <<now, identity, screen, budget, assignments>> /\ BudgetFits' /\ request[t].at = "writing" /\ request[t].wants.op # "work"
  BY BudgetStays DEF CloseElevation, KeepAll, At, IInv
<1>2. CASE UNCHANGED elevations /\ Refuse(t)
  BY <1>1, <1>2, IdleFits, RequestOnly DEF Refuse, rights
<1>3. ASSUME NEW n, elevations' = [elevations EXCEPT ![n].closed = TRUE], Answer(t)
      PROVE  IInv'
  <2>1. CASE n \notin DOMAIN elevations
    <3>1. PICK S : elevations \in Seq(S)
      BY DEF IInv, RowShapes, IsSeq
    <3>2. elevations' = elevations
      BY <1>3, <2>1, <3>1
    <3> QED BY <1>1, <1>3, <3>2, ElevationStepKeeps DEF IInv, RowShapes
  <2>2. CASE n \in DOMAIN elevations
    <3>1. PICK S : elevations \in Seq(S)
      BY DEF IInv, RowShapes, IsSeq
    <3>2. PICK actor, scopes, expires, closed : elevations[n] = [actor |-> actor, scopes |-> scopes, expires |-> expires, closed |-> closed]
      BY <2>2 DEF IInv, RowShapes
    <3>3. PICK new : new = [actor |-> actor, scopes |-> scopes, expires |-> expires, closed |-> TRUE]
      OBVIOUS
    <3>4. elevations' = [elevations EXCEPT ![n] = new]
      <4>1. PICK old : old = elevations[n]
        OBVIOUS
      <4>2. [old EXCEPT !.closed = TRUE] = new
        <5>1. PICK left : left = [old EXCEPT !.closed = TRUE]
          OBVIOUS
        <5>2. left = [actor |-> actor, scopes |-> scopes, expires |-> expires, closed |-> TRUE]
          <6>1. old = [actor |-> actor, scopes |-> scopes, expires |-> expires, closed |-> closed]
            BY <3>2, <4>1
          <6> QED BY <5>1, <6>1
        <5> QED BY <3>3, <5>1, <5>2
      <4>3. elevations' = [elevations EXCEPT ![n] = [old EXCEPT !.closed = TRUE]]
        BY <1>3, <4>1
      <4> QED BY <4>2, <4>3
    <3>5. PICK T : T = S \cup {new}
      OBVIOUS
    <3>6. elevations' \in Seq(T)
      <4>1. elevations \in Seq(T) /\ new \in T
        BY <3>1, <3>5
      <4> QED BY <3>4, <4>1, SeqUpdate
    <3>7. DOMAIN elevations' = DOMAIN elevations /\ \A e \in DOMAIN elevations : elevations'[e] = IF e = n THEN new ELSE elevations[e]
      BY <3>1, <3>4
    <3>8. new.expires = elevations[n].expires /\ new = [actor |-> new.actor, scopes |-> new.scopes, expires |-> new.expires, closed |-> new.closed]
      BY <3>2, <3>3
    <3>9. \A e \in DOMAIN elevations' :
            elevations'[e] = [actor |-> elevations'[e].actor, scopes |-> elevations'[e].scopes,
                              expires |-> elevations'[e].expires, closed |-> elevations'[e].closed]
      BY <3>7, <3>8 DEF IInv, RowShapes
    <3> QED BY <1>1, <1>3, <3>6, <3>7, <3>8, <3>9, ElevationStepKeeps DEF IsSeq
  <2> QED BY <2>1, <2>2
<1> QED BY <1>2, <1>3 DEF CloseElevation

LEMMA ListAccessKeeps == ASSUME IInv, NEW t \in Tabs, ListMembershipAccess(t) PROVE IInv'
<1>1. /\ UNCHANGED <<now, challenges, assignments, elevations, request, budget>>
      /\ screen' = [screen EXCEPT ![t].lists = assignments]
  BY DEF ListMembershipAccess, identity, rights
<1>2. PICK r : r = request[t] /\ RequestFits(r) /\ request' = [request EXCEPT ![t] = r]
  BY <1>1 DEF IInv, Requests
<1>3. RowShapes' /\ BudgetFits' /\ NewestIsLive' /\ Advances /\ RequestFits(r)'
  BY <1>1, <1>2 DEF IInv, RowShapes, BudgetFits, NewestIsLive, Live, Advances, RequestFits, WantsFit, Members
<1>4. Screens'
  <2>1. ListFits(assignments)'
    BY <1>1 DEF IInv, RowShapes, ListFits, IsSeq, SeenBefore
  <2>2. \A list : ListFits(list) => ListFits(list)'
    BY <1>1 DEF ListFits
  <2> QED BY <1>1, <2>1, <2>2 DEF IInv, Screens
<1> QED BY <1>2, <1>3, <1>4, StepKeeps

LEMMA TickKeeps == ASSUME IInv, Tick PROVE IInv'
<1>1. UNCHANGED <<challenges, screen, request, assignments, elevations, budget>> /\ now' = now + 1
  BY DEF Tick, identity, rights
<1> QED BY <1>1 DEF IInv, RowShapes, BudgetFits, NewestIsLive, Live, Screens, ListFits, Requests, RequestFits, WantsFit, Members

LEMMA Inductive == IInv /\ [Next]_vars => IInv'
<1> SUFFICES ASSUME IInv, [Next]_vars PROVE IInv'
  OBVIOUS
<1>1. CASE UNCHANGED vars
  BY <1>1 DEF vars, identity, rights, IInv, RowShapes, BudgetFits, NewestIsLive, Live, Screens, ListFits, Requests, RequestFits, WantsFit, Members
<1>2. CASE Tick
  BY <1>2, TickKeeps
<1>3. ASSUME NEW t \in Tabs,
             \/ \E u \in Users : Register(t, u)
             \/ \E c \in mail : Verify(t, c)
             \/ SendVerification(t) \/ DeadlockVictim(t)
             \/ CreateChallenge(t) \/ ConsumeChallenge(t) \/ IssueSession(t)
      PROVE  IInv'
  BY <1>3, RegistrationStepKeeps, CreateChallengeKeeps, ConsumeChallengeKeeps, IssueSessionKeeps
<1>4. ASSUME NEW t \in Tabs,
             \/ RefreshSession(t) \/ ShowSession(t) \/ LogOut(t) \/ \E wants \in Forms(t) : Mutate(t, wants)
             \/ Send(t) \/ AssertMutationSafe(t) \/ RevokeCurrentSession(t) \/ ResolveContext(t)
      PROVE  IInv'
  BY <1>4, RefreshKeeps, ShowSessionKeeps, LogOutOrMutateKeeps, SendKeeps, AssertKeeps, RevokeSessionKeeps, ResolveContextKeeps
<1>5. ASSUME NEW t \in Tabs,
             \/ Work(t) \/ ReadAssignment(t) \/ FindElevation(t) \/ Receive(t)
             \/ CreateAssignment(t) \/ WriteAssignment(t)
             \/ StartSupportElevation(t) \/ CloseElevation(t) \/ ListMembershipAccess(t)
      PROVE  IInv'
  BY <1>5, ReadingKeeps, CreateAssignmentKeeps, WriteAssignmentKeeps, StartElevationKeeps, CloseElevationKeeps, ListAccessKeeps
<1> QED BY <1>1, <1>2, <1>3, <1>4, <1>5 DEF Next

LEMMA Invariance == Spec => []IInv
<1>1. Init => IInv
  BY InitHolds
<1> QED BY <1>1, Inductive, PTL DEF Spec

-----------------------------------------------------------------------------
(* The theorems *)

(* What is done from a portal's form is done under the session its token    *)
(* was signed for, over every route of the API.                             *)
THEOREM OneSession == Spec => []MutationIsOfOneSession
<1>1. IInv => MutationIsOfOneSession
  BY DEF IInv, Requests, RequestFits, MutationIsOfOneSession, At
<1> QED BY <1>1, Invariance, PTL

(* Work under an elevation is done before the elevation runs out, whenever  *)
(* its context was resolved.                                                *)
THEOREM WorkEndsOnTime == Spec => []ElevatedWorkEndsOnTime
<1>1. IInv => ElevatedWorkEndsOnTime
  BY RequestIs DEF IInv, Requests, RequestFits, ElevatedWorkEndsOnTime, At
<1> QED BY <1>1, Invariance, PTL

(* The link that works is the newest of its account. *)
THEOREM NewestLink == Spec => OnlyTheNewestLinkWorks
<1> DEFINE Newest == \A c \in DOMAIN challenges :
                       challenges'[c].consumed /\ ~challenges[c].consumed
                         => /\ ~challenges[c].superseded
                            /\ \A d \in DOMAIN challenges : challenges[d].user = challenges[c].user => d <= c
<1>1. ASSUME IInv, [Next]_vars PROVE Newest
  <2>1. CASE UNCHANGED challenges
    BY <2>1
  <2>2. ASSUME NEW t \in Tabs, CreateChallenge(t), NEW c \in DOMAIN challenges, challenges'[c].consumed PROVE challenges[c].consumed
    <3>1. CASE challenges' = challenges
      BY <2>2, <3>1
    <3>2. ASSUME NEW next, NEW dead, dead = Superseded(request[t].user), challenges' = Append(dead, next) PROVE challenges[c].consumed
      <4>1. PICK n \in Nat : DOMAIN challenges = 1 .. n
        BY <1>1 DEF IInv, RowShapes
      <4>2. dead = [k \in 1 .. n |-> [challenges[k] EXCEPT !.superseded = @ \/ k \in LiveOf(request[t].user)]]
        BY <3>2, <4>1 DEF Superseded
      <4>3. dead = [k \in 1 .. n |-> dead[k]] /\ dead[c].consumed = challenges[c].consumed
        <5>1. PICK row \in ChallengeRows : row = challenges[c]
          BY <1>1, <2>2 DEF IInv, RowShapes
        <5>2. PICK flag : flag = (row.superseded \/ c \in LiveOf(request[t].user))
          OBVIOUS
        <5>3. dead[c] = [row EXCEPT !.superseded = flag]
          BY <2>2, <4>1, <4>2, <5>1, <5>2
        <5>4. dead[c].consumed = row.consumed
          BY <5>3 DEF ChallengeRows
        <5>5. dead = [k \in 1 .. n |-> dead[k]]
          BY <4>2
        <5> QED BY <5>1, <5>4, <5>5
      <4>4. PICK T : \A k \in 1 .. n : dead[k] \in T
        <5>1. PICK T : T = {dead[k] : k \in 1 .. n}
          OBVIOUS
        <5> QED BY <5>1
      <4>5. dead \in Seq(T)
        BY <4>3, <4>4
      <4>6. challenges'[c] = dead[c]
        <5>1. IsSeq(dead) /\ DOMAIN dead = 1 .. n
          BY <4>3, <4>5 DEF IsSeq
        <5> QED BY <2>2, <3>2, <4>1, <5>1, Appended
      <4> QED BY <2>2, <4>3, <4>6
    <3> QED BY <2>2, <3>1, <3>2 DEF CreateChallenge
  <2>3. ASSUME NEW t \in Tabs, ConsumeChallenge(t), NEW c \in DOMAIN challenges, challenges'[c].consumed, ~challenges[c].consumed
        PROVE  Live(c)
    <3>1. request[t].challenge = c /\ Usable(request[t].challenge)
      BY <1>1, <2>3 DEF ConsumeChallenge, IInv, RowShapes
    <3> QED BY <3>1 DEF Usable
  <2>4. \/ UNCHANGED challenges
        \/ \E t \in Tabs : CreateChallenge(t) \/ ConsumeChallenge(t)
    <3>1. CASE UNCHANGED vars \/ Tick
      BY <3>1 DEF vars, Tick, identity
    <3>2. ASSUME NEW t \in Tabs,
                 \/ \E u \in Users : Register(t, u)
                 \/ \E c \in mail : Verify(t, c)
                 \/ SendVerification(t) \/ DeadlockVictim(t) \/ IssueSession(t)
                 \/ RefreshSession(t) \/ ShowSession(t) \/ LogOut(t) \/ \E wants \in Forms(t) : Mutate(t, wants)
          PROVE  UNCHANGED challenges
      BY <3>2 DEF Register, Verify, SendVerification, DeadlockVictim, IssueSession, RefreshSession, ShowSession, LogOut, Mutate, IssueCsrfToken, identity
    <3>3. ASSUME NEW t \in Tabs,
                 \/ Send(t) \/ AssertMutationSafe(t) \/ RevokeCurrentSession(t) \/ ResolveContext(t)
                 \/ Work(t) \/ ReadAssignment(t) \/ FindElevation(t) \/ Receive(t)
                 \/ CreateAssignment(t) \/ WriteAssignment(t)
                 \/ StartSupportElevation(t) \/ CloseElevation(t) \/ ListMembershipAccess(t)
          PROVE  UNCHANGED challenges
      BY <3>3 DEF Send, AssertMutationSafe, RevokeCurrentSession, ResolveContext, Work, ReadAssignment, FindElevation, Receive,
           CreateAssignment, WriteAssignment, StartSupportElevation, CloseElevation, ListMembershipAccess, KeepAll, identity
    <3> QED BY <1>1, <3>1, <3>2, <3>3 DEF Next
  <2> QED BY <1>1, <2>1, <2>2, <2>3, <2>4 DEF IInv, NewestIsLive, Live
<1>2. IInv /\ [Next]_vars => [Newest]_vars
  BY <1>1
<1> QED BY <1>2, Invariance, PTL DEF Spec, OnlyTheNewestLinkWorks

(* Nobody revives a revoked assignment or lifts a suspension unseen. *)
THEOREM RevocationsStay == Spec => RevokedStays
<1> DEFINE Stays == \A a \in DOMAIN assignments :
                      assignments'[a].status # assignments[a].status
                        => /\ assignments[a].status # "REVOKED"
                           /\ \E t \in Tabs : At(t, "writing") /\ request[t].wants.id = a /\ request[t].wants.shown = assignments[a]
<1>1. ASSUME IInv, [Next]_vars PROVE Stays
  <2>1. CASE UNCHANGED assignments
    BY <2>1
  <2>2. ASSUME NEW t \in Tabs, CreateAssignment(t), NEW a \in DOMAIN assignments PROVE assignments'[a] = assignments[a]
    <3>1. IsSeq(assignments)
      BY <1>1 DEF IInv, RowShapes, IsSeq
    <3> QED BY <2>2, <3>1, Appended DEF CreateAssignment
  <2>3. ASSUME NEW t \in Tabs, WriteAssignment(t), NEW a \in DOMAIN assignments, assignments'[a].status # assignments[a].status
        PROVE  assignments[a].status # "REVOKED" /\ At(t, "writing") /\ request[t].wants.id = a /\ request[t].wants.shown = assignments[a]
    <3>1. AsListed(t) /\ At(t, "writing") /\ request[t].wants.op \in {"update", "revoke"}
      BY <2>3 DEF WriteAssignment
    <3>2. request[t].wants.id = a
      BY <1>1, <2>3 DEF WriteAssignment, IInv, RowShapes
    <3> QED BY <1>1, <3>1, <3>2, ListedIsCurrent
  <2>4. \/ UNCHANGED assignments
        \/ \E t \in Tabs : CreateAssignment(t) \/ WriteAssignment(t)
    <3>1. CASE UNCHANGED vars \/ Tick
      BY <3>1 DEF vars, Tick, rights
    <3>2. ASSUME NEW t \in Tabs,
                 \/ \E u \in Users : Register(t, u)
                 \/ \E c \in mail : Verify(t, c)
                 \/ CreateChallenge(t) \/ ConsumeChallenge(t)
                 \/ SendVerification(t) \/ DeadlockVictim(t) \/ IssueSession(t)
                 \/ RefreshSession(t) \/ ShowSession(t) \/ LogOut(t) \/ \E wants \in Forms(t) : Mutate(t, wants)
          PROVE  UNCHANGED assignments
      BY <3>2 DEF Register, Verify, CreateChallenge, ConsumeChallenge, SendVerification, DeadlockVictim, IssueSession,
           RefreshSession, ShowSession, LogOut, Mutate, IssueCsrfToken, rights
    <3>3. ASSUME NEW t \in Tabs,
                 \/ Send(t) \/ AssertMutationSafe(t) \/ RevokeCurrentSession(t) \/ ResolveContext(t)
                 \/ Work(t) \/ ReadAssignment(t) \/ FindElevation(t) \/ Receive(t)
                 \/ StartSupportElevation(t) \/ CloseElevation(t) \/ ListMembershipAccess(t)
          PROVE  UNCHANGED assignments
      BY <3>3 DEF Send, AssertMutationSafe, RevokeCurrentSession, ResolveContext, Work, ReadAssignment, FindElevation, Receive,
           StartSupportElevation, CloseElevation, ListMembershipAccess, rights
    <3> QED BY <1>1, <3>1, <3>2, <3>3 DEF Next
  <2> QED BY <2>1, <2>2, <2>3, <2>4
<1>2. IInv /\ [Next]_vars => [Stays]_vars
  BY <1>1
<1> QED BY <1>2, Invariance, PTL DEF Spec, RevokedStays

-----------------------------------------------------------------------------
(* The recommendation and the decision of a case *)

(* Only the version created last can still be a draft. *)
DraftIsLast == \A v \in DOMAIN versions :
                 versions[v].lifecycle = "DRAFT" => v = Len(versions)

(* Decisions are about submitted versions, in their order. *)
DecisionsInOrder ==
  /\ \A i \in DOMAIN decisions :
       /\ decisions[i].recommendation \in 1 .. current
       /\ versions[decisions[i].recommendation].lifecycle = "SUBMITTED"
  /\ \A i, j \in DOMAIN decisions :
       i < j => decisions[i].recommendation < decisions[j].recommendation

(* CurrentIsNewestSubmitted without its sets. *)
CurrentNewest ==
  /\ current # 0 => versions[current].lifecycle = "SUBMITTED"
  /\ \A v \in DOMAIN versions : versions[v].lifecycle = "SUBMITTED" => v <= current
  /\ \A v \in DOMAIN versions : versions[v].lifecycle = "DRAFT" => v > current

CaseInv ==
  /\ TypeOK
  /\ CurrentNewest
  /\ DraftIsLast
  /\ DecisionsInOrder
  /\ OnlyTheLastIsFinal
  /\ DecidedTextStands
  /\ NobodyDecidesTheirOwn

(* What the types say of one row. *)
LEMMA RowsTyped ==
  TypeOK =>
    /\ Len(versions) \in Nat
    /\ DOMAIN versions = 1 .. Len(versions)
    /\ \A v \in DOMAIN versions : versions[v] \in Version
    /\ Len(decisions) \in Nat
    /\ DOMAIN decisions = 1 .. Len(decisions)
    /\ \A i \in DOMAIN decisions : decisions[i] \in Decision
    /\ current \in Nat
  BY DEF TypeOK

(* An update of one row keeps the shape and the other rows. *)
LEMMA RowUpdated ==
  ASSUME TypeOK, NEW w \in DOMAIN versions, NEW row \in Version,
         versions' = [versions EXCEPT ![w] = row]
  PROVE  /\ versions' \in Seq(Version)
         /\ Len(versions') = Len(versions)
         /\ DOMAIN versions' = DOMAIN versions
         /\ versions'[w] = row
         /\ \A v \in DOMAIN versions : v # w => versions'[v] = versions[v]
  BY DEF TypeOK

LEMMA CaseInitHolds == CaseInit => CaseInv
  BY DEF CaseInit, CaseInv, TypeOK, CurrentNewest, DraftIsLast, DecisionsInOrder,
         OnlyTheLastIsFinal, DecidedTextStands, NobodyDecidesTheirOwn, Version, Decision

(* createDraft appends a draft behind every row that exists. *)
LEMMA CreateDraftKeeps == CaseInv /\ CreateDraft => CaseInv'
<1> SUFFICES ASSUME CaseInv, CreateDraft PROVE CaseInv'
  OBVIOUS
<1> USE DEF CaseInv
<1> DEFINE row == [lifecycle |-> "DRAFT", previous |-> current, edits |-> 0,
                   submittedBy |-> {}]
<1>1. /\ versions' = Append(versions, row)
      /\ UNCHANGED <<status, current, decisions>>
      /\ \A v \in DOMAIN versions : versions[v].lifecycle # "DRAFT"
  BY DEF CreateDraft, NoOpenDraft, Drafts
<1>2. row \in Version
  BY DEF TypeOK, Version
<1>3. /\ versions' \in Seq(Version)
      /\ Len(versions') = Len(versions) + 1
      /\ DOMAIN versions' = 1 .. Len(versions')
      /\ \A v \in 1 .. Len(versions) : versions'[v] = versions[v]
      /\ versions'[Len(versions) + 1] = row
  BY <1>1, <1>2 DEF TypeOK
<1>4. TypeOK'
  BY <1>1, <1>3 DEF TypeOK
<1>5. CurrentNewest' /\ DraftIsLast'
  <2>1. Len(versions) \in Nat /\ DOMAIN versions = 1 .. Len(versions)
    BY DEF TypeOK
  <2>2. \A v \in DOMAIN versions' : \/ v \in DOMAIN versions /\ versions'[v] = versions[v]
                                    \/ v = Len(versions') /\ versions'[v].lifecycle = "DRAFT"
    BY <1>3, <2>1
  <2>3. DraftIsLast'
    BY <1>1, <2>2 DEF DraftIsLast
  <2>4. current \in 0 .. Len(versions) /\ current' = current
    BY <1>1 DEF TypeOK
  <2>5. CurrentNewest'
    BY <1>1, <1>3, <2>1, <2>2, <2>4 DEF CurrentNewest
  <2> QED
    BY <2>3, <2>5
<1>6. \A i \in DOMAIN decisions : /\ decisions[i].recommendation \in 1 .. Len(versions)
                                  /\ versions'[decisions[i].recommendation]
                                       = versions[decisions[i].recommendation]
  BY <1>3 DEF TypeOK, DecisionsInOrder
<1>7. DecisionsInOrder' /\ OnlyTheLastIsFinal' /\ DecidedTextStands' /\ NobodyDecidesTheirOwn'
  BY <1>1, <1>6 DEF DecisionsInOrder, OnlyTheLastIsFinal, DecidedTextStands, NobodyDecidesTheirOwn
<1> QED
  BY <1>4, <1>5, <1>7

(* updateDraft touches a draft, and no decision is about a draft. *)
LEMMA UpdateDraftKeeps == ASSUME NEW w \in DOMAIN versions PROVE CaseInv /\ UpdateDraft(w) => CaseInv'
<1> SUFFICES ASSUME CaseInv, UpdateDraft(w) PROVE CaseInv'
  OBVIOUS
<1> USE DEF CaseInv
<1>1. /\ versions[w].lifecycle = "DRAFT"
      /\ versions' = [versions EXCEPT ![w].edits = @ + 1]
      /\ UNCHANGED <<status, current, decisions>>
  BY DEF UpdateDraft
<1> DEFINE row == [versions[w] EXCEPT !.edits = @ + 1]
<1>a. row \in Version /\ row.lifecycle = versions[w].lifecycle
  BY RowsTyped DEF Version
<1>b. versions' = [versions EXCEPT ![w] = row]
  BY <1>1
<1>2. /\ versions' \in Seq(Version)
      /\ Len(versions') = Len(versions)
      /\ DOMAIN versions' = DOMAIN versions
      /\ \A v \in DOMAIN versions : /\ versions'[v].lifecycle = versions[v].lifecycle
                                    /\ v # w => versions'[v] = versions[v]
  <2> HIDE DEF row
  <2> QED
    BY <1>a, <1>b, RowUpdated
<1>3. TypeOK' /\ CurrentNewest' /\ DraftIsLast'
  BY <1>1, <1>2 DEF TypeOK, CurrentNewest, DraftIsLast
<1>4. \A i \in DOMAIN decisions : versions'[decisions[i].recommendation]
                                    = versions[decisions[i].recommendation]
  BY <1>1, <1>2 DEF TypeOK, DecisionsInOrder
<1>5. DecisionsInOrder' /\ OnlyTheLastIsFinal' /\ DecidedTextStands' /\ NobodyDecidesTheirOwn'
  BY <1>1, <1>4 DEF DecisionsInOrder, OnlyTheLastIsFinal, DecidedTextStands, NobodyDecidesTheirOwn
<1> QED
  BY <1>3, <1>5

(* submitRecommendation moves the pointer to the only draft, the last row. *)
LEMMA SubmitKeeps ==
  ASSUME NEW w \in DOMAIN versions, NEW s \in Recommenders
  PROVE  CaseInv /\ SubmitRecommendation(s, w) => CaseInv'
<1> SUFFICES ASSUME CaseInv, SubmitRecommendation(s, w) PROVE CaseInv'
  OBVIOUS
<1> USE DEF CaseInv
<1>1. /\ versions[w].lifecycle = "DRAFT"
      /\ versions' = [versions EXCEPT ![w].lifecycle = "SUBMITTED", ![w].submittedBy = {s}]
      /\ current' = w
      /\ UNCHANGED <<status, decisions>>
  BY DEF SubmitRecommendation
<1> DEFINE row == [versions[w] EXCEPT !.lifecycle = "SUBMITTED", !.submittedBy = {s}]
<1>a. row \in Version /\ row.lifecycle = "SUBMITTED"
  BY RowsTyped DEF Version
<1>b. versions' = [versions EXCEPT ![w] = row]
  BY <1>1
<1>2. /\ versions' \in Seq(Version)
      /\ Len(versions') = Len(versions)
      /\ DOMAIN versions' = DOMAIN versions
      /\ versions'[w].lifecycle = "SUBMITTED"
      /\ \A v \in DOMAIN versions : v # w => versions'[v] = versions[v]
  <2> HIDE DEF row
  <2> QED
    BY <1>a, <1>b, RowUpdated
<1>3. w = Len(versions) /\ w > current /\ w \in 1 .. Len(versions)
  BY <1>1 DEF TypeOK, DraftIsLast, CurrentNewest
<1>4. TypeOK' /\ CurrentNewest' /\ DraftIsLast'
  BY <1>1, <1>2, <1>3 DEF TypeOK, CurrentNewest, DraftIsLast
<1>5. \A i \in DOMAIN decisions : /\ decisions[i].recommendation \in 1 .. w
                                  /\ versions'[decisions[i].recommendation]
                                       = versions[decisions[i].recommendation]
  BY <1>1, <1>2, <1>3 DEF TypeOK, DecisionsInOrder
<1>6. DecisionsInOrder' /\ OnlyTheLastIsFinal' /\ DecidedTextStands' /\ NobodyDecidesTheirOwn'
  BY <1>1, <1>5 DEF DecisionsInOrder, OnlyTheLastIsFinal, DecidedTextStands, NobodyDecidesTheirOwn
<1> QED
  BY <1>4, <1>6

(* recordDirectionDecision appends a decision about a version later than all
   the decided ones, because the last decision returned an earlier one. *)
LEMMA DecisionKeeps ==
  ASSUME NEW d \in Deciders, NEW v \in DOMAIN versions, NEW disposition \in Disposition
  PROVE  CaseInv /\ RecordDirectionDecision(d, v, disposition) => CaseInv'
<1> SUFFICES ASSUME CaseInv, RecordDirectionDecision(d, v, disposition) PROVE CaseInv'
  OBVIOUS
<1> USE DEF CaseInv
<1> DEFINE row == [disposition |-> disposition, decidedBy |-> d,
                   recommendation |-> current, edits |-> versions[current].edits]
           n == Len(decisions)
<1>1. /\ current # 0 /\ current = v
      /\ d \notin versions[current].submittedBy
      /\ MayDecide
      /\ decisions' = Append(decisions, row)
      /\ UNCHANGED <<status, versions, current>>
  BY DEF RecordDirectionDecision, Separated
<1>2. row \in Decision
  BY <1>1, RowsTyped DEF Decision, Version
<1>3. /\ decisions' \in Seq(Decision)
      /\ n \in Nat
      /\ DOMAIN decisions = 1 .. n
      /\ DOMAIN decisions' = 1 .. (n + 1)
      /\ Len(decisions') = n + 1
      /\ \A i \in 1 .. n : decisions'[i] = decisions[i]
      /\ decisions'[n + 1] = row
  BY <1>1, <1>2 DEF TypeOK
<1>4. TypeOK' /\ CurrentNewest' /\ DraftIsLast'
  BY <1>1, <1>3 DEF TypeOK, CurrentNewest, DraftIsLast
<1>5. n # 0 => /\ decisions[n].disposition = Returned
               /\ decisions[n].recommendation < current
  <2> SUFFICES ASSUME n # 0
               PROVE  decisions[n].disposition = Returned /\ decisions[n].recommendation < current
    OBVIOUS
  <2>1. decisions # <<>> /\ n \in DOMAIN decisions
    BY <1>3 DEF TypeOK
  <2>2. LastDisposition = decisions[n].disposition
    BY <2>1 DEF LastDisposition
  <2>3. decisions[n].disposition \in Disposition
    BY <2>1, RowsTyped DEF Decision
  <2>4. decisions[n].disposition = Returned /\ decisions[n].recommendation # current
    BY <1>1, <2>2, <2>3 DEF MayDecide, Disposition
  <2>5. decisions[n].recommendation \in 1 .. current /\ current \in Nat
    BY <2>1 DEF DecisionsInOrder, TypeOK
  <2> QED
    BY <2>4, <2>5
<1>6. \A i \in 1 .. n : decisions[i].recommendation < current
  <2> SUFFICES ASSUME NEW i \in 1 .. n PROVE decisions[i].recommendation < current
    OBVIOUS
  <2>1. n # 0 /\ n \in DOMAIN decisions /\ i \in DOMAIN decisions
    BY <1>3
  <2>2. i = n \/ i < n
    <3>1. n \in Nat
      BY <1>3
    <3> HIDE DEF n
    <3> QED
      BY <3>1
  <2>3. i < n => decisions[i].recommendation < decisions[n].recommendation
    BY <2>1 DEF DecisionsInOrder
  <2>4. decisions[i].recommendation \in Nat /\ decisions[n].recommendation \in Nat
    BY <2>1, RowsTyped DEF Decision
  <2> QED
    BY <1>5, <2>1, <2>2, <2>3, <2>4, RowsTyped
<1>7. DecisionsInOrder'
  BY <1>1, <1>3, <1>6 DEF DecisionsInOrder, CurrentNewest, TypeOK
<1>8. OnlyTheLastIsFinal'
  BY <1>3, <1>5 DEF OnlyTheLastIsFinal
<1>9. DecidedTextStands' /\ NobodyDecidesTheirOwn'
  BY <1>1, <1>3 DEF DecidedTextStands, NobodyDecidesTheirOwn
<1> QED
  BY <1>4, <1>7, <1>8, <1>9

LEMMA CaseStepHolds == CaseInv /\ [CaseNext]_caseVars => CaseInv'
<1> SUFFICES ASSUME CaseInv, [CaseNext]_caseVars PROVE CaseInv'
  OBVIOUS
<1>1. CASE CreateDraft
  BY <1>1, CreateDraftKeeps
<1>2. ASSUME NEW v \in DOMAIN versions, UpdateDraft(v) PROVE CaseInv'
  BY <1>2, UpdateDraftKeeps
<1>3. ASSUME NEW v \in DOMAIN versions, NEW s \in Recommenders, SubmitRecommendation(s, v)
      PROVE  CaseInv'
  BY <1>3, SubmitKeeps
<1>4. ASSUME NEW v \in DOMAIN versions, NEW d \in Deciders, NEW disposition \in Disposition,
             RecordDirectionDecision(d, v, disposition)
      PROVE  CaseInv'
  BY <1>4, DecisionKeeps
<1>5. CASE Withdraw
  BY <1>5 DEF Withdraw, CaseInv, TypeOK, CurrentNewest, DraftIsLast, DecisionsInOrder,
              OnlyTheLastIsFinal, DecidedTextStands, NobodyDecidesTheirOwn
<1>6. CASE UNCHANGED caseVars
  BY <1>6 DEF caseVars, CaseInv, TypeOK, CurrentNewest, DraftIsLast, DecisionsInOrder,
              OnlyTheLastIsFinal, DecidedTextStands, NobodyDecidesTheirOwn
<1> QED
  BY <1>1, <1>2, <1>3, <1>4, <1>5, <1>6 DEF CaseNext

LEMMA CaseInvariance == CaseSpec => []CaseInv
  BY CaseInitHolds, CaseStepHolds, PTL DEF CaseSpec

(* Every row keeps its shape, for every staff and every bound. *)
THEOREM RecommendationTypes == CaseSpec => []TypeOK
<1>1. CaseInv => TypeOK
  BY DEF CaseInv
<1> QED
  BY <1>1, CaseInvariance, PTL

(* currentVersionId always is the newest recommendation that was sent. *)
THEOREM PointerIsNewest == CaseSpec => []CurrentIsNewestSubmitted
<1>1. CaseInv => CurrentIsNewestSubmitted
  BY DEF CaseInv, TypeOK, CurrentNewest, CurrentIsNewestSubmitted, Submitted, Drafts
<1> QED
  BY <1>1, CaseInvariance, PTL

(* What was decided stands: no second decision of a recommendation, and of  *)
(* a case none after a final one, by somebody else than who sent it, on a   *)
(* text that stays.                                                         *)
THEOREM DecisionsAreKept == CaseSpec => []DecisionsStand
<1>1. ASSUME CaseInv PROVE EachVersionDecidedOnce
  <2> SUFFICES ASSUME NEW i \in DOMAIN decisions, NEW j \in DOMAIN decisions,
                      decisions[i].recommendation = decisions[j].recommendation
               PROVE  i = j
    BY DEF EachVersionDecidedOnce
  <2>1. i \in Nat /\ j \in Nat
    BY <1>1 DEF CaseInv, TypeOK
  <2>2. ~(i < j) /\ ~(j < i)
    BY <1>1, <2>1 DEF CaseInv, DecisionsInOrder, TypeOK
  <2> QED
    BY <2>1, <2>2
<1>2. CaseInv => DecisionsStand
  BY <1>1 DEF CaseInv, DecisionsStand
<1> QED
  BY <1>2, CaseInvariance, PTL
=============================================================================
