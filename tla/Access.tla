-------------------------------- MODULE Access --------------------------------
(***************************************************************************)
(* Who acts, and with what rights: accounts and verification links         *)
(* (packages/database/src/account-registration.ts), sessions               *)
(* (session-service.ts), the CSRF tokens of production (csrf.ts), the way  *)
(* of a request through the API (apps/api/src/request-context.service.ts   *)
(* and the controllers), memberships' role assignments (access-admin.ts,   *)
(* tenant-resolution.ts) and support elevations (support-elevation.ts),    *)
(* driven by the tabs of the portal's page.tsx, register/ pages and        *)
(* reporting-admin-workflows.tsx.                                          *)
(*                                                                         *)
(* A request is a chain of short transactions: each resolves the session   *)
(* anew, and the operation runs with the context the last one returned.    *)
(* The cookie belongs to a browser (a jar) and its tabs share it.          *)
(***************************************************************************)
EXTENDS Integers, Sequences, FiniteSets, ApiRoutes

CONSTANTS
  Users, Supporters,   \* Supporters: ADMISSION_PLATFORM_SUPPORT_USER_IDS
  Tabs,
  IdleTtl, AbsoluteTtl, ChallengeTtl, Cooldown, CsrfTtl,
  Budgets              \* the instances: see Init

(* role_assignments, with the permissions and scopes told apart here. *)
AssignmentRows ==
  [member : Users, permissions : SUBSET {"manage", "work"}, scopes : SUBSET {"s", "*"},
   status : {"ACTIVE", "SUSPENDED", "REVOKED"}, version : Nat]

(* A story starts with at most one link in the mailbox of a user. *)
ASSUME AccessBounds ==
  /\ {IdleTtl, AbsoluteTtl, ChallengeTtl, Cooldown, CsrfTtl} \subseteq Nat \ {0}
  /\ IdleTtl <= AbsoluteTtl
  /\ Supporters \subseteq Users
  /\ \A b \in Budgets :
       /\ DOMAIN b = {"logged", "mailed", "granted", "jar", "forms", "until",
                      "registers", "verifies", "refreshes", "logouts", "mutations"}
       /\ b.mailed \in Seq(Users) /\ b.granted \in Seq(AssignmentRows)
       /\ b.forms \in {"other", "access", "support"}
       /\ \A i, j \in DOMAIN b.mailed : b.mailed[i] = b.mailed[j] => i = j

VARIABLES
  now,
  users,        \* platform_users.status
  challenges,   \* account_verification_challenges
  mail,         \* challenges whose link reached the address
  sessions,     \* platform_sessions
  cookie,       \* the session cookie of each jar, 0: none
  screen,       \* per tab: the user the portal shows and the assignments it lists
  request,      \* the request each tab waits for
  assignments,  \* role_assignments of the tenant
  elevations,   \* support_elevations
  budget        \* what is left of the bounds, and the instance

identity == <<users, challenges, mail>>
rights == <<assignments, elevations>>
vars == <<now, identity, sessions, cookie, screen, request, rights, budget>>

Nobody == "nobody"
Idle == [at |-> "idle"]
Jars == {1, 2}
Jar(t) == budget.jar[t]
Spend(what) == budget[what] > 0 /\ budget' = [budget EXCEPT ![what] = @ - 1]
Least(a, b) == IF a < b THEN a ELSE b

NewSession(u, from, at) ==
  [user |-> u, idle |-> at + IdleTtl, absolute |-> at + AbsoluteTtl, revoked |-> FALSE, from |-> from]

(* budget.logged: the users logged in, one per jar; budget.mailed: users    *)
(* with a link in their mailbox; budget.granted: the assignments there are;   *)
(* budget.until: bound on the clock.                                         *)
Init ==
  /\ budget \in Budgets
  /\ now = 0
  /\ users = [u \in Users |-> IF budget.logged = <<>> THEN "none" ELSE "ACTIVE"]
  /\ challenges = [n \in DOMAIN budget.mailed |-> [user |-> budget.mailed[n], created |-> 0, consumed |-> FALSE, superseded |-> FALSE]]
  /\ mail = DOMAIN budget.mailed
  /\ sessions = [j \in DOMAIN budget.logged |-> NewSession(budget.logged[j], 0, 0)]
  /\ cookie = [j \in Jars |-> IF j \in DOMAIN budget.logged THEN j ELSE 0]
  /\ screen = [t \in Tabs |-> [user |-> IF Jar(t) \in DOMAIN budget.logged THEN budget.logged[Jar(t)] ELSE Nobody,
                               lists |-> <<>>]]
  /\ request = [t \in Tabs |-> Idle]
  /\ assignments = budget.granted
  /\ elevations = <<>>

At(t, phase) == request[t].at = phase
Goto(t, next) == request' = [request EXCEPT ![t] = next]
Proceed(t, phase) == request' = [request EXCEPT ![t].at = phase]
Refuse(t) == Goto(t, Idle)

Tick == /\ now < budget.until
        /\ now' = now + 1
        /\ UNCHANGED <<identity, sessions, cookie, screen, request, rights, budget>>

-----------------------------------------------------------------------------
(* Accounts. Registration locks the user and then its live challenge; a     *)
(* verification locks the challenge and then its user.                      *)

Live(c) == ~challenges[c].consumed /\ ~challenges[c].superseded
LiveOf(u) == {c \in DOMAIN challenges : challenges[c].user = u /\ Live(c)}
UserLocked(u) == \E t \in Tabs : At(t, "registering") /\ request[t].user = u
ChallengeLocked(c) == \E t \in Tabs : At(t, "verifying") /\ request[t].challenge = c

(* Only a tab that shows a user has a portal; the others offer access. *)
Portal(t) == screen[t].user # Nobody
AuthGate(t) == At(t, "idle") /\ ~Portal(t)

(* The pages a form of is sent again while it waits for nothing. A resend   *)
(* from the verification page is a registration.                             *)
RegisterPage(t) == AuthGate(t)
VerifyPage(t, c) == At(t, "idle") /\ c \in mail

Register(t, u) ==
  /\ RegisterPage(t)
  /\ ~UserLocked(u)
  /\ Spend("registers")
  /\ users' = [users EXCEPT ![u] = IF @ = "none" THEN "PENDING_VERIFICATION" ELSE @]
  /\ Goto(t, [at |-> "registering", user |-> u])
  /\ UNCHANGED <<now, challenges, mail, sessions, cookie, screen, rights>>

InCooldown(c) == now - challenges[c].created < Cooldown

Superseded_NotYet(u) == challenges
Superseded(u) == [c \in DOMAIN challenges |-> [challenges[c] EXCEPT !.superseded = @ \/ c \in LiveOf(u)]]

CreateChallenge(t) ==
  /\ At(t, "registering")
  /\ LET u == request[t].user IN
     /\ \A c \in LiveOf(u) : ~ChallengeLocked(c)
     /\ IF \E c \in LiveOf(u) : InCooldown(c) THEN Goto(t, Idle) /\ UNCHANGED challenges
        ELSE /\ challenges' = Append(Superseded(u), [user |-> u, created |-> now, consumed |-> FALSE, superseded |-> FALSE])
             /\ Goto(t, [at |-> "sending", challenge |-> Len(challenges) + 1])
  /\ UNCHANGED <<now, users, mail, sessions, cookie, screen, rights, budget>>

(* After the commit; the adapter may fail, and the API may die before it. *)
SendVerification(t) ==
  /\ At(t, "sending")
  /\ mail' \in {mail, mail \cup {request[t].challenge}}
  /\ Goto(t, Idle)
  /\ UNCHANGED <<now, users, challenges, sessions, cookie, screen, rights, budget>>

Verify(t, c) ==
  /\ VerifyPage(t, c) /\ ~ChallengeLocked(c)
  /\ Spend("verifies")
  /\ Goto(t, [at |-> "verifying", challenge |-> c])
  /\ UNCHANGED <<now, identity, sessions, cookie, screen, rights>>

(* attempts grows only with the consumption: TOO_MANY_ATTEMPTS is REPLAYED. *)
Usable(c) == Live(c) /\ challenges[c].created + ChallengeTtl > now

ConsumeChallenge(t) ==
  /\ At(t, "verifying")
  /\ LET c == request[t].challenge
         u == challenges[c].user
     IN /\ ~UserLocked(u)
        /\ IF Usable(c)
           THEN /\ challenges' = [challenges EXCEPT ![c].consumed = TRUE]
                /\ users' = [users EXCEPT ![u] = "ACTIVE"]
                /\ Goto(t, [at |-> "issuing", challenge |-> c])
           ELSE Refuse(t) /\ UNCHANGED <<users, challenges>>
  /\ UNCHANGED <<now, mail, sessions, cookie, screen, rights, budget>>

(* A second transaction issues the session; the page then opens the portal, *)
(* which reads the session when it mounts.                                   *)
IssueSession(t) ==
  /\ At(t, "issuing")
  /\ LET u == challenges[request[t].challenge].user IN
     /\ users[u] = "ACTIVE"
     /\ sessions' = Append(sessions, NewSession(u, request[t].challenge, now))
     /\ screen' = [screen EXCEPT ![t].user = u]
  /\ cookie' = [cookie EXCEPT ![Jar(t)] = Len(sessions) + 1]
  /\ Goto(t, Idle)
  /\ UNCHANGED <<now, identity, rights, budget>>

(* Each waits for the row the other holds: the database aborts one. *)
Deadlocked(t, o) ==
  /\ At(t, "registering") /\ At(o, "verifying")
  /\ request[o].challenge \in LiveOf(request[t].user)

DeadlockVictim(t) ==
  /\ \E o \in Tabs : Deadlocked(t, o) \/ Deadlocked(o, t)
  /\ Refuse(t)
  /\ UNCHANGED <<now, identity, sessions, cookie, screen, rights, budget>>

-----------------------------------------------------------------------------
(* Sessions and the portal's view of them *)

(* rowIsValid *)
Valid(s) ==
  /\ s # 0
  /\ ~sessions[s].revoked /\ sessions[s].idle > now /\ sessions[s].absolute > now
  /\ users[sessions[s].user] = "ACTIVE"

(* resolveSession extends the idle expiry, up to the absolute one. *)
ResolveSession(s) ==
  /\ Valid(s)
  /\ sessions' = [sessions EXCEPT ![s].idle = Least(now + IdleTtl, sessions[s].absolute)]
Unresolved(s) == ~Valid(s) /\ UNCHANGED sessions

(* refreshSession, on mount and on focus: no error for an anonymous visit. *)
RefreshSession(t) ==
  /\ At(t, "idle")
  /\ Spend("refreshes")
  /\ LET s == cookie[Jar(t)] IN
     \/ ResolveSession(s) /\ Goto(t, [at |-> "refreshed", user |-> sessions[s].user])
     \/ Unresolved(s) /\ Goto(t, [at |-> "refreshed", user |-> Nobody])
  /\ UNCHANGED <<now, identity, cookie, screen, rights>>

ShowSession(t) ==
  /\ At(t, "refreshed")
  /\ screen' = [screen EXCEPT ![t].user = request[t].user]
  /\ Goto(t, Idle)
  /\ UNCHANGED <<now, identity, sessions, cookie, rights, budget>>

(* issueCsrfToken: signed for the session of the cookie. logout goes on     *)
(* without a token when there is no session.                                 *)
IssueCsrfToken(t, wants) ==
  LET s == cookie[Jar(t)]
      token(n) == [at |-> "token", wants |-> wants, session |-> n, issued |-> now, cookie |-> 0]
  IN
  /\ \/ ResolveSession(s) /\ Goto(t, token(s))
     \/ Unresolved(s) /\ Goto(t, IF wants.op = "logout" THEN token(0) ELSE Idle)
  /\ UNCHANGED <<now, identity, cookie, screen, rights>>

(* logout and mutate start with the token. *)
LogOut(t) == At(t, "idle") /\ Portal(t) /\ Spend("logouts") /\ IssueCsrfToken(t, [op |-> "logout"])
Mutate(t, wants) == At(t, "idle") /\ Portal(t) /\ Spend("mutations") /\ IssueCsrfToken(t, wants)

(* The request takes the cookie of the moment it leaves. *)
Send(t) ==
  /\ At(t, "token")
  /\ request' = [request EXCEPT ![t].at = "sent", ![t].cookie = cookie[Jar(t)]]
  /\ UNCHANGED <<now, identity, sessions, cookie, screen, rights, budget>>

(* StatelessCsrfService.validate *)
CsrfValid_AnySession(t) == request[t].issued + CsrfTtl > now
CsrfValid(t) == request[t].session = request[t].cookie /\ request[t].issued + CsrfTtl > now

AssertMutationSafe(t) ==
  /\ At(t, "sent") /\ request[t].wants.op # "logout" /\ request[t].wants.route.asserts
  /\ LET s == request[t].cookie IN
     \/ CsrfValid(t) /\ ResolveSession(s) /\ Proceed(t, "safe")
     \/ ~CsrfValid(t) /\ ResolveSession(s) /\ Refuse(t)
     \/ Unresolved(s) /\ Refuse(t)
  /\ UNCHANGED <<now, identity, cookie, screen, rights, budget>>

(* A cookie that is no session any more is cleared without a check. *)
RevokeCurrentSession(t) ==
  /\ At(t, "sent") /\ request[t].wants.op = "logout"
  /\ LET s == request[t].cookie IN
     IF Valid(s) /\ ~CsrfValid(t) THEN Refuse(t) /\ UNCHANGED <<sessions, cookie, screen>>
     ELSE /\ sessions' = IF Valid(s) THEN [sessions EXCEPT ![s].revoked = TRUE] ELSE sessions
          /\ cookie' = [cookie EXCEPT ![Jar(t)] = 0]
          /\ screen' = [screen EXCEPT ![t] = [user |-> Nobody, lists |-> <<>>]]
          /\ Refuse(t)
  /\ UNCHANGED <<now, identity, rights, budget>>

-----------------------------------------------------------------------------
(* The context of a request, and the operation that runs in it *)

InForce(a) == assignments[a].status = "ACTIVE"
Held(u) == {a \in DOMAIN assignments : assignments[a].member = u /\ InForce(a)}
Members == {assignments[a].member : a \in DOMAIN assignments}

(* resolveEffectiveTenantContext: permissions and scopes are joined apart. *)
TenantContext(u) ==
  [permissions |-> UNION {assignments[a].permissions : a \in Held(u)}, scopes |-> UNION {assignments[a].scopes : a \in Held(u)}]

FamilyContext == [permissions |-> {"family"}, scopes |-> {}]
PlatformContext == [permissions |-> {"platform.support"}, scopes |-> {}]
SupportContext(e) == [permissions |-> {"work"}, scopes |-> elevations[e].scopes]

Active(e, u) == e \in DOMAIN elevations /\ elevations[e].actor = u /\ ~elevations[e].closed /\ elevations[e].expires > now

(* x-support-elevation-id *)
Header(t) == IF "elevation" \in DOMAIN request[t].wants THEN request[t].wants.elevation ELSE 0

Contexts(t, u) ==
  CASE request[t].wants.route.audience = "family" -> {FamilyContext}
    [] request[t].wants.route.audience = "platform" -> IF u \in Supporters THEN {PlatformContext} ELSE {}
    [] OTHER -> IF u \in Members THEN {TenantContext(u)}
                ELSE IF u \in Supporters /\ Active(Header(t), u) THEN {SupportContext(Header(t))} ELSE {}

ResolveContext(t) ==
  /\ At(t, "safe") \/ (At(t, "sent") /\ request[t].wants.op # "logout" /\ ~request[t].wants.route.asserts)
  /\ LET s == request[t].cookie IN
     \/ /\ ResolveSession(s)
        /\ IF Contexts(t, sessions[s].user) = {} THEN Refuse(t)
           ELSE \E context \in Contexts(t, sessions[s].user) :
                  Goto(t, [at |-> "ready", wants |-> request[t].wants, user |-> sessions[s].user, context |-> context,
                           cookie |-> s, session |-> request[t].session])
     \/ Unresolved(s) /\ Refuse(t)
  /\ UNCHANGED <<now, identity, cookie, screen, rights, budget>>

(* What is done is done by the user and under the session of the context. *)
Answer(t) ==
  Goto(t, [at |-> "done", wants |-> request[t].wants, user |-> request[t].user, cookie |-> request[t].cookie,
           session |-> request[t].session, when |-> now])
KeepAll == UNCHANGED <<now, identity, sessions, cookie, screen, budget>>
Does(t, op) == At(t, "ready") /\ request[t].wants.op = op

(* authorize looks at the expiry of the elevation again. *)
ElevationIsActive_Resolved(t) == TRUE
ElevationIsActive(t) == Header(t) # 0 /\ request[t].user \notin Members => elevations[Header(t)].expires > now

(* Any other operation: its effects are those of the component's module. *)
Work(t) ==
  /\ Does(t, "work")
  /\ IF request[t].context.permissions \cap {"family", "work"} # {} /\ ElevationIsActive(t) THEN Answer(t) ELSE Refuse(t)
  /\ UNCHANGED rights /\ KeepAll

Manages(t) == "manage" \in request[t].context.permissions

(* assertDelegable *)
Delegable(t, permissions, scopes) ==
  /\ permissions \subseteq request[t].context.permissions
  /\ "*" \in request[t].context.scopes \/ scopes \subseteq request[t].context.scopes

CreateAssignment(t) ==
  /\ Does(t, "create")
  /\ LET new == request[t].wants.assignment IN
     IF Manages(t) /\ Delegable(t, new.permissions, new.scopes) /\ new.member \in Members
     THEN assignments' = Append(assignments, new) /\ Answer(t)
     ELSE UNCHANGED assignments /\ Refuse(t)
  /\ UNCHANGED elevations /\ KeepAll

(* updateAssignment and revokeAssignment read the row and then write it. *)
ReadAssignment(t) ==
  /\ Does(t, "update") \/ Does(t, "revoke")
  /\ LET wants == request[t].wants IN
     IF ~Manages(t) \/ (wants.op = "update" /\ ~Delegable(t, wants.shown.permissions, wants.shown.scopes)) THEN Refuse(t)
     ELSE IF assignments[wants.id].status # "REVOKED" THEN Proceed(t, "writing")
     ELSE IF wants.op = "update" THEN Refuse(t) ELSE Answer(t)
  /\ UNCHANGED rights /\ KeepAll

(* expectedUpdatedAt *)
AsListed_Never(t) == TRUE
AsListed(t) == assignments[request[t].wants.id].version = request[t].wants.shown.version

WriteAssignment(t) ==
  /\ At(t, "writing") /\ request[t].wants.op \in {"update", "revoke"}
  /\ LET wants == request[t].wants
         status == IF wants.op = "revoke" THEN "REVOKED" ELSE wants.status
     IN IF AsListed(t)
        THEN /\ assignments' = [assignments EXCEPT ![wants.id].status = status, ![wants.id].version = @ + 1]
             /\ Answer(t)
        ELSE UNCHANGED assignments /\ Refuse(t)
  /\ UNCHANGED elevations /\ KeepAll

Supports(t) == "platform.support" \in request[t].context.permissions

StartSupportElevation(t) ==
  /\ Does(t, "start")
  /\ IF Supports(t) /\ request[t].wants.expires > now
     THEN /\ elevations' = Append(elevations, [actor |-> request[t].user, scopes |-> {"s"}, expires |-> request[t].wants.expires, closed |-> FALSE])
          /\ Answer(t)
     ELSE UNCHANGED elevations /\ Refuse(t)
  /\ UNCHANGED assignments /\ KeepAll

(* changeElevationState finds the active elevation and then closes it. *)
FindElevation(t) ==
  /\ Does(t, "close")
  /\ IF Supports(t) /\ Active(Header(t), request[t].user) THEN Proceed(t, "writing") ELSE Refuse(t)
  /\ UNCHANGED rights /\ KeepAll

StillOpen(e) == ~elevations[e].closed

CloseElevation(t) ==
  /\ At(t, "writing") /\ request[t].wants.op = "close"
  /\ IF StillOpen(Header(t))
     THEN elevations' = [elevations EXCEPT ![Header(t)].closed = TRUE] /\ Answer(t)
     ELSE UNCHANGED elevations /\ Refuse(t)
  /\ UNCHANGED assignments /\ KeepAll

Receive(t) == At(t, "done") /\ Refuse(t) /\ UNCHANGED rights /\ KeepAll

-----------------------------------------------------------------------------
(* The workspaces the requests come from *)

(* AdminAccessWorkspace lists the assignments of the members. *)
ListMembershipAccess(t) ==
  /\ At(t, "idle") /\ Portal(t) /\ screen[t].lists # assignments
  /\ LET s == cookie[Jar(t)] IN
     /\ ResolveSession(s)
     /\ "manage" \in TenantContext(sessions[s].user).permissions
  /\ screen' = [screen EXCEPT ![t].lists = assignments]
  /\ UNCHANGED <<now, identity, cookie, request, rights, budget>>

RouteOf(name) == LET r == CHOOSE x \in AllRoutes : x.name = name IN [audience |-> r.audience, asserts |-> r.asserts]

(* Each assignment that is not revoked can be suspended, reactivated and    *)
(* revoked; the form creates one for a listed membership.                    *)
AccessForms(t) ==
  LET lists == screen[t].lists
      shown == {a \in DOMAIN lists : lists[a].status # "REVOKED"}
  IN {[op |-> "update", route |-> RouteOf("updateAssignment"), id |-> a, shown |-> lists[a],
       status |-> IF lists[a].status = "ACTIVE" THEN "SUSPENDED" ELSE "ACTIVE"] : a \in shown}
     \cup {[op |-> "revoke", route |-> RouteOf("revokeAssignment"), id |-> a, shown |-> lists[a]] : a \in shown}
     \cup {[op |-> "create", route |-> RouteOf("createAssignment"),
            assignment |-> [member |-> lists[a].member, permissions |-> {"work"}, scopes |-> {"s"}, status |-> "ACTIVE", version |-> 1]] :
             a \in DOMAIN lists}

(* PlatformSupportWorkspace keeps the elevation it started; its id is then  *)
(* a header of requests to the tenant.                                       *)
SupportForms(t) ==
  LET own == {e \in DOMAIN elevations : elevations[e].actor = screen[t].user}
  IN {[op |-> "start", route |-> RouteOf("startElevation"), expires |-> now + 1]}
     \cup {[op |-> "close", route |-> RouteOf("closeElevation"), elevation |-> e] : e \in own}
     \cup {[op |-> "work", route |-> RouteOf("requestFunctionalHandoff"), elevation |-> e] : e \in own}

(* Every other form of the portal. *)
OtherForms == {[op |-> "work", route |-> [audience |-> r.audience, asserts |-> r.asserts]] : r \in {x \in AllRoutes : x.mutates /\ x.audience # "none"}}

Forms(t) ==
  CASE budget.forms = "other" -> OtherForms
    [] budget.forms = "access" -> AccessForms(t)
    [] budget.forms = "support" -> SupportForms(t)

-----------------------------------------------------------------------------
Next ==
  \/ Tick
  \/ \E t \in Tabs :
       \/ \E u \in Users : Register(t, u)
       \/ CreateChallenge(t) \/ SendVerification(t)
       \/ \E c \in mail : Verify(t, c)
       \/ ConsumeChallenge(t) \/ IssueSession(t) \/ DeadlockVictim(t)
       \/ RefreshSession(t) \/ ShowSession(t)
       \/ LogOut(t) \/ Send(t) \/ AssertMutationSafe(t) \/ RevokeCurrentSession(t) \/ ResolveContext(t)
       \/ \E wants \in Forms(t) : Mutate(t, wants)
       \/ Work(t) \/ CreateAssignment(t) \/ ReadAssignment(t) \/ WriteAssignment(t)
       \/ StartSupportElevation(t) \/ FindElevation(t) \/ CloseElevation(t)
       \/ Receive(t) \/ ListMembershipAccess(t)

Spec == Init /\ [][Next]_vars

-----------------------------------------------------------------------------
(* Properties *)

(* A link works once and, if it works, it is the newest of its account,     *)
(* however registrations, resends and verifications of the same address     *)
(* interleave and whichever the database aborts.                             *)
OnlyTheNewestLinkWorks ==
  [][\A c \in DOMAIN challenges :
       challenges'[c].consumed /\ ~challenges[c].consumed
         => /\ ~challenges[c].superseded
            /\ \A d \in DOMAIN challenges : challenges[d].user = challenges[c].user => d <= c]_vars

(* What is done from a portal's form is done under the session its token    *)
(* was signed for: when another tab of the browser changes the cookie        *)
(* between the token and the request, nothing is done. Over every mutating   *)
(* route of the API.                                                         *)
MutationIsOfOneSession ==
  \A t \in Tabs : At(t, "done") => request[t].cookie = request[t].session

(* No reactivation revives a revoked assignment, and a suspension stays      *)
(* until somebody who saw it lifts it: whatever two administrators do from   *)
(* lists of any age.                                                         *)
RevokedStays ==
  [][\A a \in DOMAIN assignments :
       assignments'[a].status # assignments[a].status
         => /\ assignments[a].status # "REVOKED"
            /\ \E t \in Tabs : At(t, "writing") /\ request[t].wants.id = a /\ request[t].wants.shown = assignments[a]]_vars

(* Work under an elevation is done before the elevation runs out, though    *)
(* its context was resolved earlier, by the request's first transactions.   *)
(* A member of the tenant works by its assignments, whatever the header.    *)
ElevatedWorkEndsOnTime ==
  \A t \in Tabs :
    At(t, "done") /\ request[t].wants.op = "work" /\ Header(t) # 0 /\ request[t].user \notin Members
      => request[t].when < elevations[Header(t)].expires

-----------------------------------------------------------------------------
(* What the code does not keep (README, known deviations) *)

(* What is done is done in the name the portal shows.                        *)
MutationIsOfTheShownUser ==
  \A t \in Tabs : At(t, "done") => request[t].user = screen[t].user

(* The tenant always has an assignment that manages the others.              *)
SomebodyManages ==
  (\E a \in DOMAIN assignments : "manage" \in assignments[a].permissions)
    => \E a \in DOMAIN assignments : InForce(a) /\ "manage" \in assignments[a].permissions

(* Work is not done under an elevation that was closed.                      *)
ClosedElevationIsUnused ==
  [][\A t \in Tabs : At(t, "ready") /\ At(t, "done")' /\ Header(t) # 0 => ~elevations[Header(t)].closed]_vars

===============================================================================
