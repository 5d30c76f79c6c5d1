# TLA+ specifications of the admissions platform

This directory holds the formal model of the admissions portal: what its
services, its database transactions, its background worker and its screens do
when they run at the same time, fail half way, or come too late. The code is a
TypeScript monorepo: `packages/database` holds one service class per area over
PostgreSQL (Prisma, READ COMMITTED, row-level security per tenant), `apps/api`
exposes the services over HTTP, `apps/worker` runs four polling loops over an
outbox table, `apps/web` is the portal. All the state that matters is in
PostgreSQL, in an object store, and in what a browser still shows. The models are
about transactions: what a request reads before it owns a lock, which rows it
locks and in which order, what it writes, what other requests can do between
those moments, and how old the screen was that started it.

## 1. Inventory

### The parts, their state and their operations

| Part (source under `src/packages/database/src`) | State | Operations that change it | Hard because |
|---|---|---|---|
| Capacity, waiting list, offers (`capacity-offer.ts`) | `admission_capacities`, `seat_reservations`, `admission_offers` and their versions, `offer_acceptances`, `waitlist_entries` | configure and adjust capacity, effects of a decision, promote, respond, reopen, withdraw, expire | several kinds of requests take the same last seat; three lock orders; deadlines and an expiry job |
| Recommendation and decision (`recommendation.ts`) | `recommendation_cases`, versions, decisions | create, edit and send a draft, decide | correction cycles; drafts left open; separation of duties |
| Documents (`documents.ts`, storage adapters) | requirement versions and their pins, submissions, versions, reviews, objects in two storage areas, a job per version | create, update, publish, archive a requirement version; upload (two transactions and a storage call), process (transaction, read, scan, promote, transaction), review, exempt | two resources without a common transaction; redelivered jobs; replaced files; a catalogue edited on stale reads |
| Forms and submission (`forms.ts`, `assistance.ts`) | form versions and fields, assignment, applications, draft answers, snapshots, assistance sessions | edit, publish, archive, assign, create draft, save answers, submit, close session | statuses checked on unlocked reads; triggers that read unlocked as well |
| Communications (`communications.ts`, `email-delivery.ts`) | communications, attempts, provider events, tasks, suppressions | prepare, confirm, send, evidence, retry, provider webhook | an enqueue that commits by itself; an e-mail sent inside a transaction |
| Job queue and worker (`outbox.ts`, `apps/worker/src`) | `outbox_messages`: status, attempts, `available_at`, `claimed_at`; the position of each loop | enqueue, claim, mark sent, mark failed, requeue; poll, stop, restart | leases, clocks of several processes, `claimed_at` as a fencing token, rotation over tenants |
| Activities and their policy (`activities.ts`, `activity-policy.ts`) | definition versions, policy, activities, appointments, attempts, requests of the family | create, update, publish, archive a version; put the policy; pin; schedule, reprogram, record, repeat, close; request a change | screens of any age; limits counted over a history |
| Application authority (`application-authority.ts`) | declaration, evidence and review per application | declare, link evidence, review | redeclared while it is reviewed; checked by submission, acceptance and hand-off |
| Sensitive processing (`sensitive-processing.ts`) | policy per category | update | gate on submissions and publications |
| Intake (`intake.ts`) | years, processes, offerings, the family's profile and student, drafts | create, update, publish, close; create and save a draft | checks in one transaction, writes in another; corrections of a date of birth |
| Business calendar (`business-calendar.ts`) | zone, excluded dates, a version | configure, add and remove a date; deadlines and reminders | dates of a zone against instants; clocks that change |
| Functional hand-off (`functional-handoff.ts`) | one row per acceptance | hand off | authority, repetition |
| Identity and access (`account-registration.ts`, `session-service.ts`, `csrf.ts`, `access-admin.ts`, `support-elevation.ts`, `authorization.ts`) | accounts, challenges, sessions, assignments, elevations | register, verify, log in and out, refresh, mutate, grant, update, revoke, elevate, close | single-use links, opposite lock orders, one cookie for all tabs, expiry while a request runs |
| HTTP API (`apps/api/src`) | none of its own | resolves the session and the context anew for each transaction of a request | what was resolved may be over when it is used |
| Web portal (`apps/web/app`) | what each tab shows | starts every operation from it | stale when used |
| Tenancy, audit, signals; reporting, dashboard, family projection; scripts | tenant context, audit rows; none | bootstrap, append; none | static policies, append-only, read-only |

### How the parts interact

* A direction decision of `recommendation.ts` calls into `capacity-offer.ts` in
  the same transaction: APROBADO reserves a seat and issues an offer,
  LISTA_DE_ESPERA adds a waiting-list entry.
* Offers, documents and confirmed communications put a message into the outbox
  and the worker calls back into the service that wrote it. Nothing else runs in
  the background. Offers and documents enqueue in their own transaction;
  `confirmCommunication` enqueues through a nested call that commits first.
* Creating a draft pins the requirement versions in force; submitting pins the
  activities, evaluates the documents and looks at authority and sensitive
  processing; an assisted submission depends on the session of `assistance.ts`.
* Accepting an offer and handing an admitted student over look at the authority
  again. Offers, reminders and corrections take their dates from the calendar.
* The e-mail provider answers a send synchronously and reports deliveries and
  bounces later through a webhook that competes with the worker.
* Every request of the portal goes through a CSRF token, the session of the
  browser's cookie and a tenant context before it reaches a service.

### What makes each part correct

Capacity: no overbooking, one outcome per offer version, offers and seats in
step, an overdue offer gives its seat back. Recommendation: Direction always
decides on the newest text that was sent, and the text it decided on stands.
Documents: only clean files reach the approved area, no verdict stands over a file
nobody saw, every file gets an outcome, a family is held to rules that were
published and that its form can answer. Forms: submitted answers no longer grow, a
session outlives what is submitted in it. Communications: no e-mail beyond the
recorded attempts and the one in progress, failures become tasks. Queue: two owners
of a message are a lease apart, only the last one settles it, and every message is
settled. Activities: status, attempts and limits follow the newest appointment.
Authority: gated actions commit under the authority they checked, reviews are of
what the reviewer read, a submitted declaration stands. Access: requests are of the
session they were signed for, links work once, revoked rights stay revoked,
elevated work ends on time. Catalogue: publishing overrides no edit that its
administrator's readiness did not know. Calendar: a deadline ends its last working
day. The 40 places of the code where these are most easily lost are the `hazards` of
`PROJECT.json`, each with its line.

## 2. Modules

| Module | Models | How its state and actions correspond to the code |
|---|---|---|
| `SeatLedger` | what the capacity component promises | Sets of held, committed and released seats and a version that advances with every change. Its actions are the entries of a ledger: resize, grant, release, commit. |
| `CapacityOffer` | `capacity-offer.ts`, the effects of `recordDirectionDecision`, the expiry worker | One row per variable function; `tx[p]` is the transaction of a session or a worker with what it read unlocked. A step goes from one possible wait for a row lock to the next; `Owns`, `Wants` and `BlockedBy` are the row locks, `Abort` the roll-back of a request, which includes PostgreSQL's deadlock detection. |
| `Recommendation` | `recommendation.ts` | Every operation locks the application row first, so each is one action; the sequence `versions`, the pointer `current`, the sequence `decisions`. Its specification is called `CaseSpec`, so that `Rights_proofs` can extend it beside `Access`. |
| `DocumentStatus` | what a submission's status promises its readers | One file at a time is processed, a file is current only after it, a verdict is about the current file. |
| `Documents` | `documents.ts` (one submission), object storage, the document worker | Each action is one transaction or one storage call of `uploadDocument` and `processDocument`; crashes and failed calls fall between them. |
| `Forms` | `forms.ts`, `assistance.ts`, triggers of migration e5b | A writing request is a statement (with its trigger) and a commit; the row locks of PostgreSQL are `RowFree`, `SessionFree` and `ApplicationFree`. |
| `Submission` | the catalogue of requirements, pinning and readiness of `documents.ts` | Extends `Forms` with the document an application must bring, whose status is an instance of `DocumentStatus`; catalogue operations are a read and a write by id. |
| `FamilyFlow` | `FamilyApplicationFlow` of `form-workflows.tsx`, `FamilyDocumentWorkspace` of `document-workflows.tsx` | Extends `Submission` with the page of a family: the stage it is in, each request for the documents (which the server answers in two reads), the other answers it waits for, and the readiness it computed when an answer came and keeps until the next one. With `DOCUMENTS_ENABLED=false` it is ready without a request. |
| `Communications` | `communications.ts`, `email-delivery.ts`, its worker | Requests, deliveries and webhooks as read, update, enqueue and commit steps; the provider is an action that accepts, refuses or loses its answer. |
| `Outbox` | `outbox.ts` and what `worker.ts` does with one message | One row per message; a worker's hand holds the token it claimed with; each worker has its own clock. |
| `WorkerLoops` | `run`, `pollOnce` of `worker.ts`, `main.ts` | Extends `Outbox` with the place of each loop in its round over the tenants, signals, processes that end and start again. |
| `Activities` | `activities.ts`, `activity-policy.ts`, `activity-workflows.tsx` | Versions and policy in a read and a write of an administrator; operations on an activity are one action each, started from `staffScreen` and `familyScreen`. |
| `Admission` | `intake.ts`, `application-authority.ts`, `sensitive-processing.ts`, `functional-handoff.ts`, `page.tsx`, `authority-workflows.tsx`, `capacity-offer-workflows.tsx`, `sensitive-processing-workflows.tsx` | One catalogue, one family with up to two applications; drafts and gated actions in two steps (`task`), everything else in one. `adminScreen` has what the administrator fetched at three different moments: the list, the option chosen, the readiness (lifecycle, version, capacity version) of that option or, when its answer came late, of another. |
| `ApiRoutes` | the controllers of `apps/api/src` | Sets of handlers by context, method and assertion. |
| `Access` | accounts, sessions, CSRF, request context, assignments, elevations, `page.tsx`, the registration pages | A tab's request goes `token`, `sent`, resolved, `ready`, `done`, each step a transaction of the API; the cookie belongs to a browser that tabs share. |
| `Calendar` | `business-calendar.ts`, its screen, the dates of offers, corrections and notices | Time in hours; zones with one change of their clock; the algorithms are operators and recursive functions, issuing a deadline is two reads of the calendar. Its specification is called `CalendarSpec`, so that `Communications_proofs` can extend it beside `Communications`. |
| `CapacityOffer_proofs`, `Documents_proofs`, `Submission_proofs`, `Communications_proofs`, `JobQueue_proofs`, `Activities_proofs`, `Admission_proofs`, `Rights_proofs` | | theorems: about the module of that name (`Submission_proofs` also about `Forms` and `FamilyFlow`, `Communications_proofs` also about `Calendar`, `JobQueue_proofs` about `Outbox` and `WorkerLoops`, `Rights_proofs` about `Access` and `Recommendation`) |
| `MC*` | | symmetry sets and instances for TLC |

Refinements and compositions: `CapacityOffer` implements `SeatLedger` (seats in the
states ACTIVE, COMMITTED and RELEASED, the configured number, the version);
`Documents` implements `DocumentStatus`, and `Submission` composes `Forms` with
that same `DocumentStatus`, so that the submission is checked against every file
history the pipeline can produce without carrying its storages; `WorkerLoops`
implements `Outbox`. `CapacityOffer`, `Documents` and `Communications` contain the
outbox as their own job sees it (status, attempts, owner, and a lease that may end
early as a fault); `Outbox` has the queue's own detail, tokens, clocks and backoff.

Names with an underscore (`Accept_NextVersion`) are alternatives of the
definition before the underscore with one plausible mistake, used to see that a
property notices it. No specification refers to them.

## 3. Runs

| Run | Module, cfg | Checks | Bounds and why they are enough |
|---|---|---|---|
| `seats` | MCCapacityOffer, Seats | `SeatMatchesOffer`, `WaitlistMatchesApplication`, `OnlyPromotionAndWithdrawalDeadlock`, `ImplementsLedger` | Two applications, one seat, two concurrent sessions and an expiry worker, two versions per offer: one waits while the other holds, reopens, declines or withdraws, and every pair of operations meets at every lock. |
| `offer_life` | MCCapacityOffer, OfferLife | `NoOverbooking`, `OneOutcomePerOffer`, `ChecksHoldUntilCommit`, `OverdueOfferEnds` | One application, two versions of its offer, capacity 0 or 2 with two adjustments (two, so that a second seat of one application would show), a deadline inside the clock's range, one fault (crash, failed delivery or early lease). |
| `document_pipeline` | MCDocuments, DocumentPipeline | `OnlyCleanIsApproved`, `ReviewMatchesCurrent`, `OnlyFaultsStopAFile`, `UploadedFileIsSettled`, `ImplementsDocumentStatus` | Two uploads of one requirement, two workers (a late one and its successor), a reviewer, one fault anywhere, two attempts. |
| `form_submission` | MCSubmission, FormSubmission | `SessionOutlivesSubmission`, `NewAnswersWait`, `PinnedRuleIsAnswerable`, `SubmittedMeetsItsRule`, `StaleScreenHasACause` | Two requests on one form and one application; four starts: a form nobody has built, a published form whose requirement two administrators replace, one an operator fills in with the family, and a draft with its page open. A rule asks for an age, depends on an answer of this form or of another form. The file expires within the clock of three half days, and reviews, other tabs and a second upload fall between any two steps of the page. |
| `message_delivery` | MCCommunications, MessageDelivery | `EmailsAreAccounted`, `ShownStatusHasItsCause` | Two workers, a webhook, a crash and a lost answer, retries up to three versions. |
| `decision` | Recommendation, Decision | `CurrentIsNewestSubmitted`, `DecisionsStand` | Three recommenders and two deciders, one of them both, three versions: a return, a correction and a draft left over. |
| `job_queue` | MCWorkerLoops, JobQueue | `OwnersAreALeaseApart`, `RetriesAreUsed`, `OnlyTheLastOwnerSettles`, `EveryMessageIsSettled` | Two loops over two tenants whose clocks may differ by a tick, a message for each (one invalid), a lease of two ticks within seven, one crash or lost answer, one signal. |
| `activities` | MCActivities, Activities | `StatusFollowsAppointment`, `AttemptsExplainAppointments`, `ReschedulesWithinLimit`, `PublishedIsFrozen` | Two administrators, two executors, two versions with limits of one and two in two scopes; four instances: a first policy and version, concurrent editors, a changing executor, three appointments with two requests. |
| `admission` | MCAdmission, Admission | `CommandsOverrideNoWrite`, `AuthorityHoldsAtCommit`, `ReviewSeesTheDeclaration`, `SubmittedDeclarationStands` | Two years, a process, two offerings, two forms; a student born on 29 February who comes of age between the two days of the clock; seven instances from an empty catalogue, over two drafts that an administrator looks at three times (`looks`) between two edits, to one application with two declarations, three reviews and a corrected date of birth. Only one screen is needed: the edits of everybody else need none. |
| `access` | MCAccess, Access | `MutationIsOfOneSession`, `ElevatedWorkEndsOnTime`, `OnlyTheNewestLinkWorks`, `RevokedStays` | Two users, two tabs in one browser or in two, every mutating route; four instances: one address from two pages, two accounts in one browser, two administrators, a supporter in two browsers. Sessions end within the clock's range. |
| `calendar` | MCCalendar, Calendar | `IssuedIsRight`, `LaterIssueEndsNoEarlier` | Every hour class of a whole week, six zones (four change their clock in that week, forwards and backwards, two of them at midnight; UTC+14 and UTC-10), every set of two holidays, one or two deadlines of one and three days: the second at most an hour after the first (`MaxApart`), across a midnight, ten o'clock or a change of the clock, and at most four edits and deadlines together (`MaxTogether`), so that a holiday comes and goes between the two. |
| `withdrawn_seat` | MCCapacityOffer, WithdrawnSeat | `WithdrawnHoldsNoSeat`, violated | see section 5 |

Deadlock checking is off where a system really comes to rest: an application is
decided, a communication delivered, the bounds on versions, edits and time used up.
Symmetry is only used in runs without liveness, over processes whose names the
specification never compares by order.

The bounds are the constants `MaxVersions`, `MaxVersion`, `MaxTime`, `MaxCapVersion`,
`MaxFaults`, `MaxCrashes`, `MaxStops`, `MaxEdits`, `MaxIssued`, `MaxTogether`,
`MaxApart`, `MaxAtOnce`, `SlowUntil`, the set `Loads` and the records of `Budgets`; they appear in guards only. A budget belongs to an instance:
the sum of small instances reaches what one instance with all budgets cannot.
`MaxAttempts`, `Lease`, `BaseBackoff`, `MaxBackoff`, `IdleTtl`, `AbsoluteTtl`,
`ChallengeTtl`, `Cooldown`, `CsrfTtl` and `MaxAge` are parameters of the program
(5 attempts, 60 s, a backoff that doubles up to a limit, and so on), made small so
that giving up, late owners and every expiry are reached. Documents have at most one
fault because a second one of another kind only meets the states the first one made.
In `FamilyFlow` one request for the documents is under way (the theorem covers any
number) and, while the page is open, one request of `Submission` is in progress
(`AtOnce`): races of two requests are what the starts without the page are for. A
submission that has evaluated its documents steps next (`Undecided`), and the page is
not opened a second time. The clock of the browser is the clock of the server.

### Fairness

* `CapacityOffer`: time passes (weak); a request that can take its next lock
  again and again does (strong, PostgreSQL queues lock requests); a deadlock is
  broken (weak, `deadlock_timeout`); the worker claims and goes on (strong for
  the steps that need a lock). Requests of people are never fair: nobody has to
  answer an offer.
* `Documents`: an upload that is not interrupted goes on to its second
  transaction, and a worker polls and goes on (weak). Crashes and failures are
  never fair and at most `MaxFaults` happen.
* `WorkerLoops`: time passes and each loop goes on, a stopped or failed process is
  started again (weak). Messages, signals and crashes are not fair; until
  `SlowUntil` the clock may run ahead of the loops, so that owners are late, and
  after it a tick waits for what is in hand or due.

The liveness properties assume fewer faults than attempts. With as many, the
message becomes FAILED and nothing in the code takes it up again: that is what the
code does, and why `EveryMessageIsSettled` counts FAILED as settled.

## 4. Theorems

All proofs are checked by TLAPS without assumptions other than the named
assumptions on the constants, which TLC evaluates on every run. They hold for every
set of applications, sessions, workers, tabs, tenants, messages, files and staff,
every capacity, lease, time-to-live and bound. Every invariant and every action
property that a passing run checks is also a theorem; liveness is only
model-checked.

Each proof module has the same plan: an invariant `IInv` (or two of them) that adds
to the properties what a request, a job or a screen carries from one step to the
next; `InitHolds`; one lemma per action or group of actions that it keeps the
invariant; and the properties from it. The invariants were checked with TLC on
the instances of the runs before they were proved; where a first version failed,
the counterexample or the open obligation said what was missing.

**`CapacityOffer_proofs`** (`TypeCorrect`, `OffersMatchSeats`, `ChecksHold`,
`LedgerImplemented`, `LedgerNeverOverbooks`, `NeverOverbooked`, `OneOutcome`,
`WaitlistFollows`, `OnlyOneDeadlock`). `SeatMatchesOffer` and `NoOverbooking`
are not inductive: an acceptance writes COMMITTED because a check made at an
earlier step said ACTIVE. The invariant `IInv` therefore adds who may hold which
lock at which step (`Roles`), that two transactions never hold the same
application row or the capacity row across a wait (`AppExclusive`,
`CapExclusive`), that what was checked under a lock still holds
(`ChecksHoldUntilCommit`), and that versions not issued yet have no reservation
(`FreshSlots`, `EmptyLedger`). Each action either writes a row whose lock excludes
every transaction with such knowledge, or leaves the row alone.
`LedgerImplemented` maps each action to a ledger entry or a stutter; the ledger
never overbooks, and `NeverOverbooked` follows from both. A second invariant,
`StoryInv`, relative to the first, says which combinations of application, offer
and waiting-list entry exist (`Stories`) and what the holder of an application or
an entry keeps of what it checked (`Holders`). From it follow the single outcome of an
application, the agreement of entry and application, and, from the order in which
each operation waits, that a cycle of two is a promotion and a withdrawal.

**`Documents_proofs`** (`DocumentTypes`, `FailsClosed`, `VerdictIsOnCurrent`,
`FilesStopOnFaultsOnly`, `StatusImplemented`). `OneAtATime`: a version is begun only when all earlier ones
are finished; `UploadsHold`: an upload in progress owns the pending version;
`WorkHolds`: what a worker knows of its file between two of its steps, however
often the job is delivered again. From this every step of uploads, storages, jobs and
workers is a step of `DocumentStatus` or a stutter, which is what `Submission`
relies on. A second invariant, `FaultInv`, is about what a fault costs.
`OnlyFaultsStopAFile` says that a file which waits for its outcome has an open job, or
one given up after `MaxAttempts` faults; a number of deliveries has to be weighed against
a number of faults. `StagesMatch` ties the stages of version, job, worker
and upload together; `DeliveriesArePaid` is the account: every delivery of a waiting
file but the one in progress was lost to a fault of its own, and a file whose object was
deleted because the answer to its upload was lost has one failing
delivery paid in advance; `NothingLostYet` says what holds before the first fault: the
object is there, each delivery owns its job, and what the worker found is what the file is.

**`Submission_proofs`** (`FormTypes`, `SessionOutlives`, `AnswersWait`,
`RuleStaysAnswerable`, `SubmittedMeets`, `FlowUsesSubmission`, `PageIsOnlyBehind`).
Four parts: what
a request in progress knows of its session and of the answers, because the
triggers looked (`FormInv`); a requirement version that was ever in force keeps its
rule and only one is in force (`CatalogueInv`), which is what makes a pin worth
something; what a submission evaluated is kept with it and meets the rules it
found (`EvidenceInv`); and a page that says ready still has the answer it said so from,
judged on the day it names. From the last follows `PageIsOnlyBehind`: a page that offers
what the server refuses shows an answer that is out of date or counted on a day
that is over, because on the same answer and the same day the page demands at least what
the server demands (`ReadyIsAccepted`). `FlowUsesSubmission` says that the page takes no
step `Submission` does not have, so that the other theorems hold with it.

**`Communications_proofs`** (`CommunicationTypes`, `OneMailPerAttempt`,
`FailureIsFollowedUp`, `DeliveryIsEvidenced`, `StatusesHaveCauses`). `EmailsAreAccounted` counts e-mails;
the invariant says where each one comes from (`MailsByAttempt`), keeps the attempt
a late delivery works on within one of the recorded attempts
(`CallsFollowAttempts`), and gives the row to one request at a time (`RowLock`).
`StatusesHaveCauses` follows from a second invariant, `CauseInv`: before a first
confirmation commits, and while nothing was rolled back, nothing is recorded and only a
confirmation about to commit has queued a message (`QuietUntilConfirmed`); a retry was
asked for after a recorded failure, and a confirmation that holds the row found it
without attempts or after one (`RequestsHaveCauses`). Recorded failures never go
away (`FailuresStay`), so that what a request read unlocked still justifies what it
writes.

**`Communications_proofs`**, on `Calendar` (`WorkingTimesResolve`,
`AddBusinessDaysIs`, `DeadlinesAndRemindersAreRight`,
`LaterIssuesEndNoEarlier`). The algorithms of `business-calendar.ts` are proved
right for every zone, every finite set of holidays, every number of days and every
instant, in three steps.
*Conversion*: `civilDateTimeToInstant` guesses an instant and corrects it four times by
what the clock of the zone shows; it ends at the instant whose local date and hour are
those asked for, if the zone has one (`WorkingTimesResolve`). Each guess is the
target minus the offset in force at the guess before, so that it moves at most once
across the change of the clock. *Counting*: from any date there is a working date
within `Reach` in both directions, because more Mondays lie in that stretch than
there are holidays (`FreeMonday`, a pigeonhole argument over cardinalities); hence the
recursive walks of `addBusinessDaysAfter` and of the reminder, which are functions with a
bounded argument, return the date that the properties define by counting
(`AddBusinessDaysIs`; by induction over the number of days, written as the least
member of a set of counterexamples, and `FS_AddElement`).
*State*: `CalendarInv` says that the zones a request or a deadline in progress has read
are zones, that the excluded dates are finitely many, and that every deadline
issued, with its reminder, is right for the zone and the dates it was counted on.
`LaterIssueEndsNoEarlier` follows from the counting: of two sets of working days of
which the one begins later, the later one is not exhausted earlier.

The assumption is `ZonesAssumption`: a clock changes by one hour, and either on a
weekend, as in nearly every zone of the timezone database, or on a working day
in a zone at least two hours east of UTC (Egypt, Israel) without skipping
ten or twenty-three o'clock. The proof needs it, and looking for the
reason shows what the code does outside it: in a zone west of UTC that goes forward at
midnight of a working day the correction can stop at an hour that does not
exist, and the request fails with `BusinessCalendarValidationError`; where a western
clock goes back over the last hour of a working day, the deadline is the
first of the two 23 o'clocks. No zone in use today is known to do
either.

**`JobQueue_proofs`** (`QueueTypes`, `TokensAreUnique`, `OutcomesAreEarned`,
`SettledIsFinal`, `LastOwnerSettles`, `LoopsImplementQueue`, `LoopOwners`). Without
global time, the argument is about tokens: a worker claims a PROCESSING row only
when its own clock is a lease past the token in the row, so every claim writes a
token a lease later than the last one, whatever the difference of the clocks. A
requeue forgets the token but moves `available_at` a backoff past the settling
worker's token; the invariant `LateOwners` says that every owner who is late has a
token a lease before the current one or before `available_at`, which is what keeps
tokens unique after requeues too. Assumptions: `Lease >= 1` and a backoff of at
least 1. Every step of the loops is a step of the queue or leaves it alone, so what
is proved of the queue holds whatever the rotation over the tenants, the signals
and the restarts do.

**`Activities_proofs`** (`StatusIsTheNewest`, `AttemptsAreEvidence`,
`ReschedulesAreBounded`, `PublishedVersionsAreFrozen`). A screen of any age only
chooses the identifiers of a request, so the invariant is about rows: their shapes, an
administrator's edit names a version that exists, the pinned version was published
before anything was booked, attempts are about appointments that exist. That a
policy's preferred version exists uses that a set of numbers with a member has a
least one.

**`Admission_proofs`** (`AuthorityHolds`, `DeclarationStands`,
`NoWriteIsOverridden`, `ReviewsSeeTheDeclaration`). `CatalogueInv`: a readiness on a
screen is not newer than its offering, and while the version is the same nothing but the
capacity was written since, whose own version only grows. `NoWriteIsOverridden` is
about the readiness of the offering the command goes to; it says nothing of the list, of
the number of places shown and of a readiness of another offering (section 5). `AuthorityInv`: what a task that holds the lock of its
application checked still is so, what a reviewer's screen shows is an earlier state
of the declaration or the present one (`StaffScreens`), and nothing is submitted without a
declaration (`DeclaredFirst`). Assumption: no offering is numbered 0, which stands for
"none" on a screen.

**`Rights_proofs`**, on `Access` (`OneSession`, `WorkEndsOnTime`, `NewestLink`,
`RevocationsStay`). A request carries along what its last transaction saw
(`RequestFits`): once it was asserted safe, its session is the one of its token; an
assignment it names is as it shows it, or has a later version (`SeenBefore`); its
elevation keeps its expiry. `RoutesAssert` goes through every route of
`ApiRoutes`, so that no form reaches a handler that skips the assertion.
`NewestIsLive`: of the challenges of an account only the newest can be live; it needs
the assumption that a story starts with at most one link per account. The first form of
`ElevatedWorkEndsOnTime` could not be proved and was wrong: it also spoke of
a supporter who is a member of the tenant and still sends the header of an
elevation. Such a person works by the assignments of the member, and the code
does not look at the elevation. The property now excludes members.

**`Rights_proofs`**, on `Recommendation` (`RecommendationTypes`,
`PointerIsNewest`, `DecisionsAreKept`). The invariant `CaseInv` adds `DraftIsLast` (an open draft is
always the newest version, because a new one is not created beside it) and
`DecisionsInOrder` (the sequence of decisions follows the order of versions); that a
version is decided at most once follows from the second one. `DecisionsStand` joins
four statements: `OnlyTheLastIsFinal`, `EachVersionDecidedOnce`, `DecidedTextStands`
and `NobodyDecidesTheirOwn`.

States of the instances on which TLC checked what the proofs add to the properties:
`CapacityOffer` 582 429 and 79 859, `Documents` 198 384, `FamilyFlow` 1 689 114,
`Communications` 414 788, `WorkerLoops` 834 346, `Activities` 586 146, `Admission`
1 547 692, `Access` 668 736, `Recommendation` 21 218, `Calendar` 1 607 622.

**Only model-checked**: the liveness properties `OverdueOfferEnds`,
`UploadedFileIsSettled` and `EveryMessageIsSettled`, because TLAPS does not handle
ENABLED and fairness.

## 5. Known deviations

One run ends in a violation on purpose, on a statement of the repository's
documents that the code does not meet (`findings` of `PROJECT.json`):
`WithdrawnHoldsNoSeat`. `reopenOffer` reads the application's status before it
locks the row; a withdrawal that commits in between leaves a withdrawn
application with a new open offer and a held seat.

The modules state more such expectations at their end. They do not hold either: a
cfg like that of the passing run of the same module, with one of them as its only
INVARIANT or PROPERTY, ends in a counterexample (some need a larger bound, named
here):

| Property | Module | What happens in the code |
|---|---|---|
| `NobodyIsOvertaken` | CapacityOffer | the first waiting entry is looked up without a lock; an entry dated earlier may commit after the look |
| `IncompleteUploadIsCleaned` | Documents | an upload whose process dies stays UPLOAD_PENDING and blocks the requirement |
| `StorageErrorIsRetried` | Documents | any read error of the quarantine is a final BLOCKED_INVALID |
| `PublishedContentIsFrozen` | Forms | an edit whose trigger ran before the publication commits after it |
| `SubmittedAnswersAreFrozen` | Forms | the same for an answer and the submission |
| `AssistedAnswersNeedSession` | Forms | the session is checked in one transaction and used in another |
| `ScreenIsNotAheadOfServer` | FamilyFlow | the page computes the readiness when an answer comes and keeps it: after a review in another place, an answer changed in another tab or midnight it offers what the server refuses |
| `DisabledDocumentsAreNotAsked` | FamilyFlow | with `DOCUMENTS_ENABLED=false` the page is ready at once; the server asks for the documents all the same |
| `OperatorCanSend` | FamilyFlow | the operator's listing shows the technical status READY where `submissionReady` waits for READY_FOR_REVIEW: with a required document that is not exempt, the button never enables |
| `LastDayCounts` | FamilyFlow | the portal counts the age of a file to the moment, the server to the day: on its last day a valid file is shown as expired |
| `DocumentsFitTheAnswers` | Submission | the answers are read for the snapshot and again for the readiness; a change may commit in between |
| `ReadyAtCommit` | Submission | the submission holds the application and not its documents: one may be observed before the commit |
| `PublishedIsLawful` | Submission (with the rule "sensitive") | publication validates the draft it read; an update of the draft in between publishes a category that is not enabled |
| `SentWasConfirmed` | Communications | the send message is committed by a transaction of its own before the confirmation commits; if that rolls back, the worker sends what nobody confirmed |
| `SentIsNotReopened` | Communications | `retryCommunication` checks FAILED unlocked and updates by id |
| `RecommenderNeverDecides` | Recommendation | only the sender of the current version is compared with the decider |
| `CorrectionFollowsReturn` | Recommendation | the last return is looked up by case, not by version |
| `AttemptsAreBounded` | Outbox (with two crashes) | an expired lease is claimed again without looking at `maxAttempts` |
| `EveryTenantHasItsTurn` | WorkerLoops | after every message the loop starts again at the first tenant, whatever waits in the others |
| `FamilyMayAskForChange` | Activities | a request is fulfilled only by a caller that names it, which the portal never does: the card then never offers another |
| `ReviewIsOfTheShownApplication` | Admission | the id on the review screen may be typed over after the load |
| `StudentHoldsAtCommit` | Admission | the date of birth is corrected outside the lock of the application |
| `CommandIsOfTheShownOffering` | Admission | the answer for an option that was left is shown beside the one chosen since; publish and close go to the one chosen, with the other's version |
| `PublishedAsListed` | Admission | the list is not loaded again with the readiness: the title beside the button may be older than the version the command names |
| `PublishedWithShownCapacity` | Admission | `publishOffering` locks the capacity and compares no version of it, although the screen's message for a refusal says that the offering or its capacity changed |
| `OfferingYearIsItsProcess` | Admission | a process may move to another year after its offerings were created |
| `MutationIsOfTheShownUser` | Access | another tab logs in; this tab still shows the user before and takes a token of the new session |
| `SomebodyManages` | Access | the last assignment that manages the others may be revoked |
| `ClosedElevationIsUnused` | Access | an elevation that was closed after the context was resolved is used until it expires |
| `ConfigurationSawTheLast` | Calendar (with two administrators) | `configureCalendar` compares the version on an unlocked read and updates by id |
| `NoticeNamesTheDeadline` | Calendar | the notice writes the deadline in the zone of the moment, not in the one it was counted in |
| `DeadlineIsOfOneCalendar` | Calendar | zone and excluded dates are read by two statements |

The models also follow the code where it does something a reader may not expect.
None of this is stated as a property:

* A published requirement whose condition is on a field of another form makes the
  creation of every draft fail, because pinning refuses it.
* The family's screen polls while a current version is being processed, but a
  version becomes current only when it is ready: it never polls for a first file.
* The readiness of the documents is not cleared when the stage or the answers change:
  until the next answer the page goes on with the one before.
* Evidence linked to an earlier declaration counts for a later one with another
  basis; `draftData` can still be written after the submission, when the save read
  the draft before it; `handleToggle` of the sensitive policies writes the value
  opposite to the one on its screen; a declaration that is rejected after the
  submission cannot be made again.
* A verification that commits and dies before the session is issued leaves a
  verified account without a session, and a mail that fails is not sent again
  during the cooldown; `TOO_MANY_ATTEMPTS` cannot be reached, because attempts grow
  only with the consumption.
* A registration locks the user and then its challenge, a verification the
  challenge and then its user: the database aborts one of two that meet
  (`DeadlockVictim`).
* The permissions and the scopes of several assignments are joined separately.
  Logging in over a session does not revoke the earlier one.
* Four handlers resolve the context before they assert that the mutation is safe;
  no row changes in either step.

## 6. What is not modelled

* **Tenancy and row-level security.** One tenant is modelled (two in
  `WorkerLoops`). Isolation is a static property of the policies; what the tables
  add by triggers, unique keys and checks is in the modules that rely on it.
* **Audit, signals, reporting, dashboard, family projection.** Append-only rows and
  read-only projections: nothing reads them back into a decision.
* **Scripts, synthetic bootstrap, infrastructure.** Set-up and smoke checks.
* **API and portal.** The validation of bodies, the shape of answers and all
  rendering. The form builder and the screens of offers (but for the publication of
  offerings), recommendations and communications send
  what they show with an expected version that the services compare; their
  staleness is the free choice of the version in `CapacityOffer`, `Recommendation`
  and `Communications`.
* **Forms.** The order of sections and fields, the creation of definitions and
  further draft versions, the preview.
* **Documents.** The creation of the requirement itself, the audit of a download,
  several requirements of one application (each is evaluated by itself).
  BLOCKED_UNSCANNABLE is not told apart from SCAN_ERROR, and the promotion within the
  storage for local development, which is not atomic after a crash, is that of the
  object store.
* **Communications.** Operations that render a text and insert it, and the log of
  manual contacts, which nothing reads. A complaint is treated as a bounce.
* **Intake.** Campuses and course levels, which nothing gates.
* **Assistance.** The session check of `uploadAssistedDocument`.
* **Activities.** The creation of a definition, the tolerance before a no-show.
* **Identity.** Hashing, cookies' attributes; `rotateSession`,
  `revokeAllUserSessions` and `revokeSupportElevation`, which no application calls.
* Texts, templates, the evidence manifest of a recommendation, connection pools and
  transaction time-outs (a time-out is an `Abort`).

Composition stops where the product of two modules is out of TLC's reach: the
authority check of an acceptance is in `Admission` and external to `CapacityOffer`;
`Submission` sees documents through `DocumentStatus`, which `Documents` implements.

## 7. Plan

Done: all the modules of section 2; liveness of offers, documents and the queue; the
theorems of section 4, which state every safety property of the runs.

Next, theorems: `CorrectionFollowsReturn` under a lookup by version, as a proof of
the repair, and the same for the other deviations of section 5 that one line of
code would end (`SentIsNotReopened`, `IncompleteUploadIsCleaned`).

Next, models: the order of sections and fields (`moveSection`, `moveField`), the
assisted upload, and the queue of `CapacityOffer` as a refinement of `Outbox`.
