------------------------- MODULE CapacityOffer_proofs -------------------------
(***************************************************************************)
(* Proofs about CapacityOffer for every set of applications, sessions and  *)
(* workers and every bound.  The inductive invariant says who may own a    *)
(* row lock at which step (Roles, AppExclusive, CapExclusive), that what   *)
(* was checked under a lock holds until the commit (ChecksHoldUntilCommit),*)
(* and that reservations follow offers (SeatMatchesOffer, FreshSlots,      *)
(* EmptyLedger).  From it, every step is an entry of the SeatLedger, whose *)
(* own theorem gives NoOverbooking.  A second invariant, relative to the   *)
(* first, says that the rows of one application tell one story and that    *)
(* who holds its application or its waiting-list entry keeps what it       *)
(* checked there (StoryInv): it gives the outcome of an offer, the waiting *)
(* list and the one possible deadlock.                                     *)
(***************************************************************************)
EXTENDS CapacityOffer, FiniteSetTheorems, TLAPS

(* The operation of a transaction fits its process and its step. *)
Roles ==
  \A p \in Procs :
    /\ tx[p].step = "appLocked" => tx[p].op \in AppOps
    /\ tx[p].step \in {"entryLocked", "capLocked"} => tx[p].op = "promote"
    /\ tx[p].op \notin {"none", "adjust"} => tx[p].app \in Apps

(* Row locks exclude: one transaction per application row and one on the   *)
(* capacity row across a wait.                                             *)
AppExclusive ==
  \A p, q \in Procs :
    /\ tx[p].step = "appLocked" /\ tx[q].step = "appLocked"
    /\ tx[p].app = tx[q].app
    => p = q

CapExclusive ==
  \A p, q \in Procs : tx[p].step = "capLocked" /\ tx[q].step = "capLocked" => p = q

(* A version number not yet issued has no offer version and no reservation.*)
FreshSlots == \A s \in Slots : s[2] > current[s[1]] => seat[s] = "NONE"

EmptyLedger == capacity.version = 0 => \A s \in Slots : seat[s] = "NONE"

IInv ==
  /\ TypeOK /\ Roles
  /\ AppExclusive /\ CapExclusive
  /\ ChecksHoldUntilCommit
  /\ SeatMatchesOffer /\ FreshSlots /\ EmptyLedger

-----------------------------------------------------------------------------
(* Row locks *)

(* An unblocked transaction wants no row that another one owns. *)
LEMMA NotOwned ==
  ASSUME NEW p \in Procs, NEW q \in Procs, p # q, Unblocked(p), NEW r \in Wants(p)
  PROVE  r \notin Owns(q)
BY DEF Unblocked, BlockedBy

(* Who may write the capacity row knows that no promotion has locked it. *)
LEMMA CapacityIsFree ==
  ASSUME NEW p \in Procs, Unblocked(p), CapRow \in Wants(p), tx[p].step # "capLocked"
  PROVE  \A q \in Procs : tx[q].step # "capLocked"
<1>1. ASSUME NEW q \in Procs, tx[q].step = "capLocked" PROVE FALSE
  <2>1. p # q BY <1>1
  <2>2. CapRow \notin Owns(q) BY <2>1, NotOwned
  <2>3. CapRow \in Owns(q) BY <1>1 DEF Owns
  <2> QED BY <2>2, <2>3
<1> QED BY <1>1

(* The writers of the capacity row wait for it. *)
LEMMA WritersWantCapacity ==
  ASSUME NEW p \in Procs,
         \/ At(p, {"APROBADO", "accept", "decline", "reopen", "expire"}, "appLocked")
         \/ At(p, {"withdraw"}, "appLocked") /\ CurrentIs(tx[p].app, {"ACTIVE"})
         \/ At(p, {"promote"}, "entryLocked")
         \/ At(p, {"adjust"}, "begun")
  PROVE  CapRow \in Wants(p) /\ tx[p].step # "capLocked"
BY DEF At, Wants, RowsToWrite

(* Who may write the application row knows that nobody else has it. *)
LEMMA ApplicationIsFree ==
  ASSUME NEW p \in Procs, Unblocked(p), AppRow(tx[p].app) \in Wants(p)
  PROVE  \A q \in Procs : q # p /\ tx[q].step = "appLocked" => tx[q].app # tx[p].app
<1>1. ASSUME NEW q \in Procs, q # p, tx[q].step = "appLocked", tx[q].app = tx[p].app
      PROVE  FALSE
  <2>1. AppRow(tx[p].app) \notin Owns(q) BY <1>1, NotOwned
  <2>2. AppRow(tx[p].app) \in Owns(q) BY <1>1 DEF Owns
  <2> QED BY <2>1, <2>2
<1> QED BY <1>1

LEMMA AppOpsWantApplication ==
  ASSUME NEW p \in Procs,
         At(p, AppOps, "begun") \/ At(p, {"promote"}, "capLocked")
  PROVE  AppRow(tx[p].app) \in Wants(p)
BY DEF At, Wants, AppOps, Decisions, FinalDispositions

-----------------------------------------------------------------------------
LEMMA IdleType == Idle \in Tx /\ NoJob \in Job
BY DEF Idle, Tx, Ops, Steps, Statuses, NoJob, Job

(* The empty tables satisfy the invariant. *)
LEMMA InitInv == Init => IInv
<1> SUFFICES ASSUME Init PROVE IInv
  OBVIOUS
<1> USE BoundsAssumption DEF Init
<1>1. TypeOK
  BY IdleType DEF TypeOK, Statuses
<1>2. Roles /\ AppExclusive /\ CapExclusive /\ ChecksHoldUntilCommit
  BY DEF Roles, AppExclusive, CapExclusive, ChecksHoldUntilCommit, Idle, At
<1>3. SeatMatchesOffer /\ FreshSlots /\ EmptyLedger
  BY DEF SeatMatchesOffer, FreshSlots, EmptyLedger
<1> QED BY <1>1, <1>2, <1>3 DEF IInv

-----------------------------------------------------------------------------
(* What a step does to the transactions *)

(* A step of p that takes no lock, while the offers and the capacity stay  *)
(* as they are.                                                            *)
LEMMA NoNewLock ==
  ASSUME IInv, NEW p \in Procs, NEW t \in Tx,
         tx' = [tx EXCEPT ![p] = t],
         t.step \in {"idle", "begun", "done"},
         t.op \notin {"none", "adjust"} => t.app \in Apps,
         UNCHANGED <<offerVars, capacity>>
  PROVE  /\ Roles' /\ AppExclusive' /\ CapExclusive' /\ ChecksHoldUntilCommit'
         /\ SeatMatchesOffer' /\ FreshSlots' /\ EmptyLedger'
<1> USE DEF IInv
<1>1. tx \in [Procs -> Tx]
  BY DEF TypeOK
<1>2. \A q \in Procs : tx'[q] = IF q = p THEN t ELSE tx[q]
  BY <1>1
<1>3. Roles' /\ AppExclusive' /\ CapExclusive'
  BY <1>2 DEF Roles, AppExclusive, CapExclusive
<1>4. ChecksHoldUntilCommit'
  BY <1>2 DEF ChecksHoldUntilCommit, At, CurrentIs, HasOffer, Cur, SeatAvailable,
              Consumed, offerVars
<1>5. SeatMatchesOffer' /\ FreshSlots' /\ EmptyLedger'
  BY DEF SeatMatchesOffer, FreshSlots, EmptyLedger, offerVars
<1> QED BY <1>3, <1>4, <1>5

(* A commit of p leaves the other transactions their locks and their       *)
(* checks, if it writes the offer of its own application only.             *)
LEMMA CommitLeavesOthers ==
  ASSUME IInv, NEW p \in Procs, NEW t \in Tx,
         tx' = [tx EXCEPT ![p] = t],
         t.step \in {"idle", "done"},
         t.op \notin {"none", "adjust"} => t.app \in Apps,
         \A q \in Procs \ {p} :
           /\ tx[q].step # "capLocked"
           /\ tx[q].step = "appLocked" => tx[q].app # tx[p].app,
         \A a \in Apps \ {tx[p].app} :
           current'[a] = current[a] /\ lifecycle'[Cur(a)] = lifecycle[Cur(a)]
  PROVE  Roles' /\ AppExclusive' /\ CapExclusive' /\ ChecksHoldUntilCommit'
<1> USE DEF IInv
<1>1. tx \in [Procs -> Tx]
  BY DEF TypeOK
<1>2. \A q \in Procs : tx'[q] = IF q = p THEN t ELSE tx[q]
  BY <1>1
<1>3. Roles' /\ AppExclusive' /\ CapExclusive'
  BY <1>2 DEF Roles, AppExclusive, CapExclusive
<1>4. ASSUME NEW q \in Procs, At(q, {"accept", "decline", "expire"}, "appLocked")'
      PROVE  CurrentIs(tx[q].app, {"ACTIVE"})'
  <2>1. q # p /\ tx'[q] = tx[q] BY <1>2, <1>4 DEF At
  <2>2. tx[q].app \in Apps \ {tx[p].app} BY <2>1, <1>4 DEF Roles, At
  <2>3. CurrentIs(tx[q].app, {"ACTIVE"}) BY <2>1, <1>4 DEF ChecksHoldUntilCommit, At
  <2> QED BY <2>1, <2>2, <2>3 DEF CurrentIs, HasOffer, Cur
<1>5. \A q \in Procs : tx'[q].step # "capLocked"
  BY <1>2
<1>6. ChecksHoldUntilCommit'
  BY <1>4, <1>5 DEF ChecksHoldUntilCommit
<1> QED BY <1>3, <1>6

-----------------------------------------------------------------------------
(* What a commit does to the offer of an application *)

OfferTypes ==
  /\ capacity \in [configured : Nat, validity : Nat, version : Nat]
  /\ seat \in [Slots -> {"NONE", "ACTIVE", "COMMITTED", "RELEASED"}]
  /\ lifecycle \in [Slots -> {"NONE", "ACTIVE", "ACCEPTED", "DECLINED", "EXPIRED"}]
  /\ expiresAt \in [Slots -> Nat]
  /\ current \in [Apps -> 0..MaxVersions]
  /\ acceptance \in [Apps -> 0..MaxVersions]

OfferRows == OfferTypes /\ SeatMatchesOffer /\ FreshSlots /\ EmptyLedger

Elsewhere(a) ==
  \A b \in Apps \ {a} : current'[b] = current[b] /\ lifecycle'[Cur(b)] = lifecycle[Cur(b)]

LEMMA CurrentSlot ==
  ASSUME OfferTypes, NEW a \in Apps, HasOffer(a)
  PROVE  Cur(a) \in Slots /\ Cur(a)[1] = a /\ Cur(a)[2] = current[a]
BY BoundsAssumption DEF OfferTypes, HasOffer, Cur, Slots

LEMMA IssueKeepsRows ==
  ASSUME OfferRows, NEW a \in Apps, NEW now \in Nat, IssueVersion(a, now)
  PROVE  OfferRows' /\ Elsewhere(a)
<1> DEFINE s == <<a, current[a] + 1>>
<1> USE BoundsAssumption DEF OfferRows, OfferTypes
<1>1. s \in Slots /\ s[1] = a /\ s[2] = current[a] + 1
  BY DEF IssueVersion, Slots
<1>2. /\ seat' = [seat EXCEPT ![s] = "ACTIVE"]
      /\ lifecycle' = [lifecycle EXCEPT ![s] = "ACTIVE"]
      /\ expiresAt' = [expiresAt EXCEPT ![s] = now + capacity.validity]
      /\ current' = [current EXCEPT ![a] = @ + 1]
      /\ capacity' = [capacity EXCEPT !.version = @ + 1]
      /\ acceptance' = acceptance
      /\ current[a] < MaxVersions
  BY DEF IssueVersion
<1> HIDE DEF s
<1>3. OfferTypes'
  BY <1>1, <1>2
<1>4. SeatMatchesOffer'
  BY <1>1, <1>2 DEF SeatMatchesOffer
<1>5. FreshSlots'
  <2> SUFFICES ASSUME NEW r \in Slots, r[2] > current'[r[1]] PROVE seat'[r] = "NONE"
    BY DEF FreshSlots
  <2>1. r[1] \in Apps /\ r[2] \in Nat BY DEF Slots
  <2>2. r # s /\ r[2] > current[r[1]] BY <1>1, <1>2, <2>1
  <2> QED BY <1>1, <1>2, <2>2 DEF FreshSlots
<1>6. EmptyLedger'
  BY <1>2 DEF EmptyLedger
<1>7. Elsewhere(a)
  <2> SUFFICES ASSUME NEW b \in Apps \ {a}
               PROVE  current'[b] = current[b] /\ lifecycle'[Cur(b)] = lifecycle[Cur(b)]
    BY DEF Elsewhere
  <2>1. Cur(b) # s BY <1>1 DEF Cur, s
  <2> QED BY <1>2, <2>1
<1> QED BY <1>3, <1>4, <1>5, <1>6, <1>7

LEMMA EndKeepsRows ==
  ASSUME OfferRows, NEW a \in Apps, CurrentIs(a, {"ACTIVE"}),
         NEW outcome \in {"DECLINED", "EXPIRED"}, EndVersion(a, outcome)
  PROVE  OfferRows' /\ Elsewhere(a)
<1> USE DEF OfferRows, OfferTypes
<1>1. Cur(a) \in Slots /\ Cur(a)[1] = a /\ Cur(a)[2] = current[a]
  BY CurrentSlot DEF CurrentIs
<1>2. seat[Cur(a)] = "ACTIVE"
  BY <1>1 DEF CurrentIs, SeatMatchesOffer
<1>3. /\ seat' = [seat EXCEPT ![Cur(a)] = "RELEASED"]
      /\ lifecycle' = [lifecycle EXCEPT ![Cur(a)] = outcome]
      /\ capacity' = [capacity EXCEPT !.version = @ + 1]
      /\ UNCHANGED <<expiresAt, current, acceptance>>
  BY <1>2 DEF EndVersion
<1>4. OfferTypes'
  BY <1>1, <1>3
<1>5. SeatMatchesOffer'
  BY <1>1, <1>3 DEF SeatMatchesOffer
<1>6. FreshSlots'
  BY <1>1, <1>2, <1>3 DEF FreshSlots, Slots
<1>7. EmptyLedger'
  BY <1>3 DEF EmptyLedger
<1>8. Elsewhere(a)
  BY <1>3 DEF Elsewhere, Cur
<1> QED BY <1>4, <1>5, <1>6, <1>7, <1>8

(* The offer of a is accepted and its seat committed. *)
LEMMA AcceptKeepsRows ==
  ASSUME OfferRows, NEW p \in Procs, Accept(p), tx[p].app \in Apps,
         CurrentIs(tx[p].app, {"ACTIVE"})
  PROVE  OfferRows' /\ Elsewhere(tx[p].app)
<1> DEFINE a == tx[p].app
<1> USE DEF OfferRows, OfferTypes
<1>1. Cur(a) \in Slots /\ Cur(a)[1] = a /\ Cur(a)[2] = current[a]
  BY CurrentSlot DEF CurrentIs
<1>2. seat[Cur(a)] = "ACTIVE"
  BY <1>1 DEF CurrentIs, SeatMatchesOffer
<1>3. /\ seat' = [seat EXCEPT ![Cur(a)] = "COMMITTED"]
      /\ lifecycle' = [lifecycle EXCEPT ![Cur(a)] = "ACCEPTED"]
      /\ acceptance' = [acceptance EXCEPT ![a] = current[a]]
      /\ capacity' = [capacity EXCEPT !.version = @ + 1]
      /\ UNCHANGED <<expiresAt, current>>
  BY DEF Accept
<1>4. OfferTypes'
  BY <1>1, <1>3
<1>5. SeatMatchesOffer'
  BY <1>1, <1>3 DEF SeatMatchesOffer
<1>6. FreshSlots'
  BY <1>1, <1>2, <1>3 DEF FreshSlots, Slots
<1>7. EmptyLedger'
  BY <1>3 DEF EmptyLedger
<1>8. Elsewhere(a)
  BY <1>3 DEF Elsewhere, Cur
<1> QED BY <1>4, <1>5, <1>6, <1>7, <1>8

-----------------------------------------------------------------------------
(* Steps of a request or a delivery that leave the offers alone *)

(* A request starts: the record it starts with is well typed and its role  *)
(* is an operation on an application, or an adjustment.                    *)
LEMMA BeginInv ==
  ASSUME IInv, NEW p \in Sessions, Request(p)
  PROVE  IInv'
<1> USE AppsAssumption, CapacityAssumption, BoundsAssumption DEF IInv, TypeOK, Procs
<1>1. CASE CreateCapacity(p)
  <2>1. /\ capacity' \in [configured : Nat, validity : Nat, version : Nat]
        /\ capacity'.version = 1 /\ capacity.version = 0
    BY <1>1 DEF CreateCapacity
  <2>2. UNCHANGED <<appStatus, decision, waitVars, offerVars, job, clock, faults, tx>>
    BY <1>1 DEF CreateCapacity
  <2>3. TypeOK' BY <2>1, <2>2 DEF waitVars, offerVars
  <2>4. Roles' /\ AppExclusive' /\ CapExclusive'
    BY <2>2 DEF Roles, AppExclusive, CapExclusive
  <2>5. ChecksHoldUntilCommit'
    BY <2>1, <2>2 DEF ChecksHoldUntilCommit, At, CurrentIs, HasOffer, Cur, offerVars
  <2>6. SeatMatchesOffer' /\ FreshSlots' /\ EmptyLedger'
    BY <2>1, <2>2 DEF SeatMatchesOffer, FreshSlots, EmptyLedger, offerVars
  <2> QED BY <2>3, <2>4, <2>5, <2>6
<1>2. ASSUME NEW t \in Tx, StaffOrFamily(p, t), t.step = "begun",
             t.op \notin {"none", "adjust"} => t.app \in Apps
      PROVE  IInv'
  <2>1. tx' = [tx EXCEPT ![p] = t]
    BY <1>2 DEF StaffOrFamily, Begin
  <2>2. UNCHANGED <<appStatus, decision, waitVars, capacity, offerVars, job, clock, faults>>
    BY <1>2 DEF StaffOrFamily
  <2>3. TypeOK' BY <2>1, <2>2 DEF waitVars, offerVars
  <2>4. UNCHANGED <<offerVars, capacity>> BY <2>2
  <2> QED BY <1>2, <2>1, <2>3, <2>4, NoNewLock
<1>9. \A a \in Apps : current[a] \in Nat /\ appStatus[a] \in Statuses
  OBVIOUS
<1>10. capacity.version \in Nat /\ clock \in Nat
  OBVIOUS
<1> USE DEF Tx, Idle, Ops, AppOps, Decisions, FinalDispositions, Steps, Statuses
<1>3. CASE BeginAdjustment(p)
  <2> DEFINE t == [Idle EXCEPT !.op = "adjust", !.step = "begun",
                     !.capVersion = capacity.version]
  <2>1. t \in Tx /\ t.step = "begun" /\ t.op = "adjust" OBVIOUS
  <2>2. StaffOrFamily(p, t) BY <1>3 DEF BeginAdjustment
  <2> HIDE DEF t
  <2> QED BY <1>2, <2>1, <2>2
<1>4. ASSUME NEW a \in Apps, BeginDecision(p, a) PROVE IInv'
  <2>1. PICK d \in FinalDispositions :
          StaffOrFamily(p, [Idle EXCEPT !.op = d, !.step = "begun", !.app = a])
    BY <1>4 DEF BeginDecision
  <2> DEFINE t == [Idle EXCEPT !.op = d, !.step = "begun", !.app = a]
  <2>2. t \in Tx /\ t.step = "begun" /\ t.app \in Apps BY <1>9, <1>10
  <2> HIDE DEF t
  <2> QED BY <1>2, <2>1, <2>2 DEF t
<1>5. ASSUME NEW a \in Apps, BeginPromotion(p, a) PROVE IInv'
  <2> DEFINE t == [Idle EXCEPT !.op = "promote", !.step = "begun", !.app = a,
                     !.now = clock, !.capVersion = capacity.version]
  <2>1. t \in Tx /\ t.step = "begun" /\ t.app \in Apps BY <1>9, <1>10
  <2>2. StaffOrFamily(p, t) BY <1>5 DEF BeginPromotion
  <2> HIDE DEF t
  <2> QED BY <1>2, <2>1, <2>2
<1>6. ASSUME NEW a \in Apps, BeginResponse(p, a) PROVE IInv'
  <2>1. PICK r \in {"accept", "decline"} :
          StaffOrFamily(p, [Idle EXCEPT !.op = r, !.step = "begun", !.app = a,
                              !.now = clock, !.version = current[a]])
    BY <1>6 DEF BeginResponse
  <2> DEFINE t == [Idle EXCEPT !.op = r, !.step = "begun", !.app = a,
                     !.now = clock, !.version = current[a]]
  <2>2. t \in Tx /\ t.step = "begun" /\ t.app \in Apps BY <1>9, <1>10
  <2> HIDE DEF t
  <2> QED BY <1>2, <2>1, <2>2 DEF t
<1>7. ASSUME NEW a \in Apps, BeginReopening(p, a) PROVE IInv'
  <2> DEFINE t == [Idle EXCEPT !.op = "reopen", !.step = "begun", !.app = a,
                     !.now = clock, !.status = appStatus[a],
                     !.capVersion = capacity.version, !.version = current[a]]
  <2>1. t \in Tx /\ t.step = "begun" /\ t.app \in Apps BY <1>9, <1>10
  <2>2. StaffOrFamily(p, t) BY <1>7 DEF BeginReopening
  <2> HIDE DEF t
  <2> QED BY <1>2, <2>1, <2>2
<1>8. ASSUME NEW a \in Apps, BeginWithdrawal(p, a) PROVE IInv'
  <2> DEFINE t == [Idle EXCEPT !.op = "withdraw", !.step = "begun", !.app = a,
                     !.now = clock]
  <2>1. t \in Tx /\ t.step = "begun" /\ t.app \in Apps BY <1>9, <1>10
  <2>2. StaffOrFamily(p, t) BY <1>8 DEF BeginWithdrawal
  <2> HIDE DEF t
  <2> QED BY <1>2, <2>1, <2>2
<1> QED BY <1>1, <1>3, <1>4, <1>5, <1>6, <1>7, <1>8 DEF Request

(* A transaction ends without having written anything about offers. *)
LEMMA LeaveInv ==
  ASSUME IInv, NEW p \in Procs, Leave(p), TypeOK', UNCHANGED <<offerVars, capacity>>
  PROVE  IInv'
<1>1. Idle.step = "idle" /\ Idle.op = "none" BY DEF Idle
<1> QED BY <1>1, IdleType, NoNewLock DEF IInv, Leave

LEMMA QuietInv ==
  ASSUME IInv, NEW p \in Procs,
         \/ PutOnWaitlist(p) \/ Reject(p) \/ Refused(p) \/ Abort(p)
         \/ MarkSent(p) \/ DeliveryFails(p) \/ Crash(p)
  PROVE  IInv'
<1> USE DEF IInv, waitVars, offerVars
<1>1. Leave(p) /\ UNCHANGED <<offerVars, capacity>>
  BY DEF PutOnWaitlist, Reject, Refused, Abort, MarkSent, DeliveryFails, Crash
<1>2. tx' \in [Procs -> Tx]
  BY <1>1, IdleType DEF Leave, TypeOK
<1>3. TypeOK'
  <2> USE DEF TypeOK
  <2>1. CASE PutOnWaitlist(p)
    <3>1. tx[p].app \in Apps BY <2>1 DEF PutOnWaitlist, At, Roles
    <3>2. tx[p].now \in Nat BY DEF Tx
    <3> QED BY <1>2, <2>1, <3>1, <3>2 DEF PutOnWaitlist, FinalDispositions
  <2>2. CASE Reject(p)
    BY <1>2, <2>2 DEF Reject, FinalDispositions
  <2>3. CASE Refused(p) \/ Abort(p) \/ Crash(p)
    BY <1>2, <2>3 DEF Refused, Abort, Crash
  <2>4. CASE MarkSent(p)
    <3>1. job' \in [Slots -> Job] BY <2>4 DEF MarkSent, Job
    <3> QED BY <1>2, <2>4, <3>1 DEF MarkSent
  <2>5. CASE DeliveryFails(p)
    <3> DEFINE next == IF job[OwnJob(p)].attempts >= MaxAttempts THEN "FAILED" ELSE "PENDING"
    <3>1. job' = IF StillOwner(p) THEN [job EXCEPT ![OwnJob(p)].status = next] ELSE job
      BY <2>5 DEF DeliveryFails
    <3>4. next \in {"FAILED", "PENDING"} OBVIOUS
    <3> HIDE DEF next
    <3>3. job' \in [Slots -> Job]
      <4>1. CASE StillOwner(p)
        <5>1. job' = [job EXCEPT ![OwnJob(p)].status = next] BY <3>1, <4>1
        <5>2. \A j \in Job : [j EXCEPT !.status = next] \in Job BY <3>4 DEF Job
        <5> QED BY <5>1, <5>2
      <4>2. CASE ~StillOwner(p)
        BY <3>1, <4>2
      <4> QED BY <4>1, <4>2
    <3>2. faults' \in Nat BY <2>5 DEF DeliveryFails
    <3> QED BY <1>2, <2>5, <3>3, <3>2 DEF DeliveryFails
  <2> QED BY <2>1, <2>2, <2>3, <2>4, <2>5
<1> QED BY <1>1, <1>3, LeaveInv

(* A worker claims a due job. *)
LEMMA ClaimInv ==
  ASSUME IInv, NEW w \in Workers, NEW s \in Slots, BeginExpiry(w, s)
  PROVE  IInv'
<1> DEFINE t == [Idle EXCEPT !.op = "expire", !.step = "begun", !.app = s[1],
                   !.version = s[2], !.now = clock]
<1> USE DEF IInv, TypeOK
<1>1. s[1] \in Apps /\ s[2] \in Nat BY DEF Slots
<1>2. t \in Tx /\ t.step = "begun" /\ t.app \in Apps
  BY <1>1 DEF Idle, Tx, Ops, AppOps, Steps, Statuses
<1>3. tx' = [tx EXCEPT ![w] = t] /\ w \in Procs
  BY DEF BeginExpiry, Begin, Procs
<1>4. UNCHANGED <<appStatus, decision, waitVars, capacity, offerVars, clock>>
  BY DEF BeginExpiry
<1>5. job' \in [Slots -> Job] /\ faults' \in Nat
  BY DEF BeginExpiry, Job
<1> HIDE DEF t
<1>6. TypeOK' BY <1>2, <1>3, <1>4, <1>5 DEF waitVars, offerVars
<1>7. UNCHANGED <<offerVars, capacity>> BY <1>4
<1> QED BY <1>2, <1>3, <1>6, <1>7, NoNewLock

-----------------------------------------------------------------------------
(* Steps that take a lock *)

(* A request gets its application row, and its checks hold. *)
LEMMA LockApplicationInv ==
  ASSUME IInv, NEW p \in Procs, LockApplication(p)
  PROVE  IInv'
<1> DEFINE t == [tx[p] EXCEPT !.step = "appLocked",
                   !.now = IF tx[p].op \in FinalDispositions THEN clock ELSE @]
<1> USE DEF IInv, TypeOK
<1>1. tx \in [Procs -> Tx] /\ tx[p] \in Tx
  OBVIOUS
<1>2. t \in Tx /\ t.step = "appLocked" /\ t.op = tx[p].op /\ t.app = tx[p].app
  BY <1>1 DEF Tx, Steps
<1>3. tx' = [tx EXCEPT ![p] = t]
  BY <1>1 DEF LockApplication, Tx
<1>4. UNCHANGED <<appStatus, decision, waitVars, capacity, offerVars, job, clock, faults>>
  BY DEF LockApplication
<1>5. At(p, AppOps, "begun") /\ Unblocked(p) /\ Allowed(p)
  BY DEF LockApplication
<1> HIDE DEF t
<1>6. \A q \in Procs : tx'[q] = IF q = p THEN t ELSE tx[q]
  BY <1>1, <1>3
<1>7. TypeOK' BY <1>1, <1>2, <1>3, <1>4 DEF waitVars, offerVars
<1>8. Roles'
  BY <1>2, <1>5, <1>6 DEF Roles, At
<1>9. \A q \in Procs : q # p /\ tx[q].step = "appLocked" => tx[q].app # tx[p].app
  BY <1>5, ApplicationIsFree, AppOpsWantApplication
<1>10. AppExclusive'
  BY <1>2, <1>6, <1>9 DEF AppExclusive
<1>11. CapExclusive'
  BY <1>2, <1>6 DEF CapExclusive
<1>12. At(p, {"accept", "decline", "expire"}, "begun") => CurrentIs(tx[p].app, {"ACTIVE"})
  BY <1>5 DEF Allowed, ResponseAllowed, ExpiryDue, At, FinalDispositions
<1>13. ChecksHoldUntilCommit'
  <2>1. \A a : CurrentIs(a, {"ACTIVE"})' <=> CurrentIs(a, {"ACTIVE"})
    BY <1>4 DEF CurrentIs, HasOffer, Cur, offerVars
  <2>2. (SeatAvailable /\ capacity.version # 0)' <=> SeatAvailable /\ capacity.version # 0
    BY <1>4 DEF SeatAvailable, Consumed, offerVars
  <2>3. ASSUME NEW q \in Procs \ {p}
        PROVE  /\ At(q, {"accept", "decline", "expire"}, "appLocked")' =>
                    CurrentIs(tx[q].app, {"ACTIVE"})'
               /\ tx'[q].step = "capLocked" => (SeatAvailable /\ capacity.version # 0)'
    BY <1>6, <2>1, <2>2, <2>3 DEF ChecksHoldUntilCommit, At
  <2>4. At(p, {"accept", "decline", "expire"}, "appLocked")' =>
           CurrentIs(tx[p].app, {"ACTIVE"})'
    BY <1>2, <1>5, <1>6, <1>12, <2>1 DEF At
  <2>5. tx'[p].step # "capLocked" BY <1>2, <1>6
  <2> QED BY <2>3, <2>4, <2>5 DEF ChecksHoldUntilCommit
<1>14. SeatMatchesOffer' /\ FreshSlots' /\ EmptyLedger'
  BY <1>4 DEF SeatMatchesOffer, FreshSlots, EmptyLedger, offerVars
<1> QED BY <1>7, <1>8, <1>10, <1>11, <1>13, <1>14

(* A promotion gets the waiting-list entry, then the capacity row. *)
LEMMA LockForPromotionInv ==
  ASSUME IInv, NEW p \in Procs, LockWaitlistEntry(p) \/ LockCapacity(p)
  PROVE  IInv'
<1> USE DEF IInv, TypeOK
<1>1. PICK step \in {"entryLocked", "capLocked"} :
        /\ tx' = [tx EXCEPT ![p].step = step]
        /\ step = "capLocked" => At(p, {"promote"}, "entryLocked") /\ Unblocked(p)
                                 /\ Reservable(p, tx[p].app)
  BY DEF LockWaitlistEntry, LockCapacity, MoveTo
<1>2. UNCHANGED <<appStatus, decision, waitVars, capacity, offerVars, job, clock, faults>>
  BY DEF LockWaitlistEntry, LockCapacity
<1>3. tx[p].op = "promote"
  BY DEF LockWaitlistEntry, LockCapacity, At
<1>4. \A q \in Procs : tx'[q] = IF q = p THEN [tx[p] EXCEPT !.step = step] ELSE tx[q]
  BY <1>1
<1>5. tx' \in [Procs -> Tx] BY <1>1 DEF Tx, Steps
<1>6. TypeOK' BY <1>2, <1>5 DEF waitVars, offerVars
<1>7. /\ tx'[p].step = step /\ tx'[p].op = "promote" /\ tx'[p].app = tx[p].app
      /\ \A q \in Procs \ {p} : tx'[q] = tx[q]
  BY <1>3, <1>4 DEF Tx
<1>8. Roles'
  BY <1>3, <1>7 DEF Roles
<1>9. AppExclusive'
  BY <1>7 DEF AppExclusive
<1>10. step = "capLocked" => \A q \in Procs : tx[q].step # "capLocked"
  BY <1>1, CapacityIsFree, WritersWantCapacity
<1>11. CapExclusive'
  BY <1>7, <1>10 DEF CapExclusive
<1>12. step = "capLocked" => SeatAvailable /\ capacity.version # 0
  BY <1>1 DEF Reservable
<1>13. ChecksHoldUntilCommit'
  BY <1>2, <1>7, <1>12
     DEF ChecksHoldUntilCommit, At, CurrentIs, HasOffer, Cur, SeatAvailable, Consumed, offerVars
<1>14. SeatMatchesOffer' /\ FreshSlots' /\ EmptyLedger'
  BY <1>2 DEF SeatMatchesOffer, FreshSlots, EmptyLedger, offerVars
<1> QED BY <1>6, <1>8, <1>9, <1>11, <1>13, <1>14

(* An expiry has nothing to do. *)
LEMMA SkipExpiryInv ==
  ASSUME IInv, NEW w \in Procs, SkipExpiry(w)
  PROVE  IInv'
<1> DEFINE t == [tx[w] EXCEPT !.step = "done"]
<1> USE DEF IInv, TypeOK
<1>1. t \in Tx /\ t.step = "done" /\ t.op = tx[w].op /\ t.app = tx[w].app
  BY DEF Tx, Steps
<1>2. tx' = [tx EXCEPT ![w] = t]
  BY DEF SkipExpiry, MoveTo
<1>3. UNCHANGED <<appStatus, decision, waitVars, capacity, offerVars, job, clock, faults>>
  BY DEF SkipExpiry
<1>4. t.op \notin {"none", "adjust"} => t.app \in Apps
  BY <1>1 DEF Roles
<1> HIDE DEF t
<1>5. TypeOK' BY <1>1, <1>2, <1>3 DEF waitVars, offerVars
<1>6. UNCHANGED <<offerVars, capacity>> BY <1>3
<1> QED BY <1>1, <1>2, <1>4, <1>5, <1>6, NoNewLock

-----------------------------------------------------------------------------
(* Commits *)

LEMMA RowsOfInv == IInv <=> /\ TypeOK /\ Roles /\ AppExclusive /\ CapExclusive
                           /\ ChecksHoldUntilCommit /\ OfferRows
BY DEF IInv, OfferRows, OfferTypes, TypeOK

(* The part of the state a commit of p may write besides offers. *)
OtherTypes ==
  /\ appStatus \in [Apps -> Statuses]
  /\ decision \in [Apps -> FinalDispositions \cup {"NONE"}]
  /\ entry \in [Apps -> {"NONE", "ACTIVE", "PROMOTED", "WITHDRAWN"}]
  /\ enteredAt \in [Apps -> Nat]
  /\ job \in [Slots -> Job]
  /\ clock \in Nat
  /\ faults \in Nat

LEMMA TypeParts == TypeOK <=> OtherTypes /\ OfferTypes /\ tx \in [Procs -> Tx]
BY DEF TypeOK, OtherTypes, OfferTypes

(* The new expiry job is well typed. *)
LEMMA IssueKeepsJobs ==
  ASSUME OtherTypes, NEW a \in Apps, NEW now \in Nat, IssueVersion(a, now)
  PROVE  job' \in [Slots -> Job]
<1>1. [NoJob EXCEPT !.status = "PENDING"] \in Job BY DEF NoJob, Job
<1>2. job' = [job EXCEPT ![<<a, current[a] + 1>>] = [NoJob EXCEPT !.status = "PENDING"]]
  BY DEF IssueVersion
<1> QED BY <1>1, <1>2 DEF OtherTypes

(* A commit, given what it does to the offers: no promotion is past the    *)
(* capacity lock, and nobody else holds the application.                   *)
LEMMA CommitInv ==
  ASSUME IInv, NEW p \in Procs, tx[p].app \in Apps,
         Leave(p) \/ (MoveTo(p, "done") /\ At(p, {"expire"}, "appLocked")),
         \A q \in Procs \ {p} :
           /\ tx[q].step # "capLocked"
           /\ tx[q].step = "appLocked" => tx[q].app # tx[p].app,
         OtherTypes', OfferRows', Elsewhere(tx[p].app)
  PROVE  IInv'
<1>1. PICK t \in Tx : /\ tx' = [tx EXCEPT ![p] = t]
                      /\ t.step \in {"idle", "done"}
                      /\ t.op \notin {"none", "adjust"} => t.app \in Apps
  <2>1. CASE Leave(p)
    BY <2>1, IdleType DEF Leave, Idle
  <2>2. CASE MoveTo(p, "done") /\ At(p, {"expire"}, "appLocked")
    <3> DEFINE t == [tx[p] EXCEPT !.step = "done"]
    <3>1. tx[p] \in Tx BY DEF IInv, TypeOK
    <3>2. t \in Tx /\ t.step = "done" /\ t.app = tx[p].app BY <3>1 DEF Tx, Steps
    <3>3. tx' = [tx EXCEPT ![p] = t] BY <2>2 DEF MoveTo
    <3> QED BY <3>2, <3>3
  <2> QED BY <2>1, <2>2
<1>2. Roles' /\ AppExclusive' /\ CapExclusive' /\ ChecksHoldUntilCommit'
  BY <1>1, CommitLeavesOthers DEF Elsewhere
<1>3. tx' \in [Procs -> Tx]
  BY <1>1 DEF IInv, TypeOK
<1>4. TypeOK'
  BY <1>3, TypeParts DEF OfferRows, OtherTypes, OfferTypes, TypeOK
<1> QED BY <1>2, <1>4 DEF IInv, OfferRows

(* The holder of an application row is alone with it. *)
LEMMA AloneWithApplication ==
  ASSUME IInv, NEW p \in Procs, tx[p].step = "appLocked",
         Unblocked(p), CapRow \in Wants(p)
  PROVE  /\ tx[p].app \in Apps
         /\ \A q \in Procs \ {p} :
              /\ tx[q].step # "capLocked"
              /\ tx[q].step = "appLocked" => tx[q].app # tx[p].app
<1>1. tx[p].app \in Apps
  BY DEF IInv, Roles, AppOps, Decisions, FinalDispositions
<1>2. \A q \in Procs : tx[q].step # "capLocked"
  BY CapacityIsFree
<1>3. \A q \in Procs \ {p} : tx[q].step = "appLocked" => tx[q].app # tx[p].app
  BY DEF IInv, AppExclusive
<1> QED BY <1>1, <1>2, <1>3

(* Every write of an offer by the holder of its application. *)
LEMMA AnswerInv ==
  ASSUME IInv, NEW p \in Procs,
         Approve(p) \/ Accept(p) \/ Decline(p) \/ Reopen(p) \/ Expire(p)
  PROVE  IInv'
<1> DEFINE a == tx[p].app
<1>1. At(p, {"APROBADO", "accept", "decline", "reopen", "expire"}, "appLocked") /\ Unblocked(p)
  BY DEF Approve, Accept, Decline, Reopen, Expire, At
<1>2. CapRow \in Wants(p) /\ tx[p].step = "appLocked"
  BY <1>1, WritersWantCapacity DEF At
<1>3. /\ a \in Apps
      /\ \A q \in Procs \ {p} :
           /\ tx[q].step # "capLocked"
           /\ tx[q].step = "appLocked" => tx[q].app # a
  BY <1>1, <1>2, AloneWithApplication
<1>4. OfferRows /\ OtherTypes /\ tx[p].now \in Nat
  BY RowsOfInv, TypeParts DEF TypeOK, Tx
<1>5. At(p, {"accept", "decline", "expire"}, "appLocked") => CurrentIs(a, {"ACTIVE"})
  BY DEF IInv, ChecksHoldUntilCommit
<1>6. Leave(p) \/ (MoveTo(p, "done") /\ At(p, {"expire"}, "appLocked"))
  BY DEF Approve, Accept, Decline, Reopen, Expire
<1>7. OfferRows' /\ Elsewhere(a)
  <2>1. CASE Approve(p) \/ Reopen(p)
    <3>1. IssueVersion(a, tx[p].now) BY <2>1 DEF Approve, Reopen
    <3> QED BY <1>3, <1>4, <3>1, IssueKeepsRows
  <2>2. CASE Accept(p)
    BY <2>2, <1>3, <1>4, <1>5, AcceptKeepsRows DEF Accept, At
  <2>3. CASE Decline(p) \/ Expire(p)
    <3>1. CurrentIs(a, {"ACTIVE"}) BY <2>3, <1>5 DEF Decline, Expire, At
    <3>2. PICK outcome \in {"DECLINED", "EXPIRED"} : EndVersion(a, outcome)
      BY <2>3 DEF Decline, Expire
    <3> QED BY <1>3, <1>4, <3>1, <3>2, EndKeepsRows
  <2> QED BY <2>1, <2>2, <2>3
<1>8. OtherTypes'
  <2>1. CASE Approve(p)
    <3>1. job' \in [Slots -> Job]
      BY <2>1, <1>3, <1>4, IssueKeepsJobs DEF Approve
    <3> QED BY <2>1, <1>3, <1>4, <3>1 DEF Approve, OtherTypes, waitVars, FinalDispositions
  <2>2. CASE Reopen(p)
    <3>1. job' \in [Slots -> Job]
      BY <2>2, <1>3, <1>4, IssueKeepsJobs DEF Reopen
    <3> QED BY <2>2, <1>4, <3>1 DEF Reopen, OtherTypes, waitVars
  <2>3. CASE Accept(p) \/ Decline(p) \/ Expire(p)
    BY <2>3, <1>4 DEF Accept, Decline, Expire, OtherTypes, waitVars
  <2> QED BY <2>1, <2>2, <2>3
<1> QED BY <1>3, <1>6, <1>7, <1>8, CommitInv

LEMMA PromoteInv ==
  ASSUME IInv, NEW p \in Procs, Promote(p)
  PROVE  IInv'
<1> DEFINE a == tx[p].app
<1>1. At(p, {"promote"}, "capLocked") /\ Unblocked(p)
  BY DEF Promote
<1>2. a \in Apps BY <1>1 DEF IInv, Roles, At
<1>3. \A q \in Procs \ {p} :
        /\ tx[q].step # "capLocked"
        /\ tx[q].step = "appLocked" => tx[q].app # a
  BY <1>1, ApplicationIsFree, AppOpsWantApplication DEF IInv, CapExclusive, At
<1>4. OfferRows /\ OtherTypes /\ tx[p].now \in Nat
  BY RowsOfInv, TypeParts DEF TypeOK, Tx
<1>5. IssueVersion(a, tx[p].now) /\ Leave(p)
  BY DEF Promote
<1>6. OfferRows' /\ Elsewhere(a)
  BY <1>2, <1>4, <1>5, IssueKeepsRows
<1>7. job' \in [Slots -> Job]
  BY <1>2, <1>4, <1>5, IssueKeepsJobs
<1>8. OtherTypes'
  BY <1>4, <1>7 DEF Promote, OtherTypes
<1> QED BY <1>2, <1>3, <1>5, <1>6, <1>8, CommitInv

LEMMA WithdrawInv ==
  ASSUME IInv, NEW p \in Procs, Withdraw(p)
  PROVE  IInv'
<1> DEFINE a == tx[p].app
<1>1. At(p, {"withdraw"}, "appLocked") /\ Unblocked(p) /\ Leave(p)
  BY DEF Withdraw
<1>2. OfferRows /\ OtherTypes
  BY RowsOfInv, TypeParts
<1>3. OtherTypes'
  BY <1>2 DEF Withdraw, OtherTypes, Statuses
<1>4. CASE CurrentIs(a, {"ACTIVE"})
  <2>1. CapRow \in Wants(p) BY <1>1, <1>4, WritersWantCapacity
  <2>2. /\ a \in Apps
        /\ \A q \in Procs \ {p} :
             /\ tx[q].step # "capLocked"
             /\ tx[q].step = "appLocked" => tx[q].app # a
    BY <1>1, <2>1, AloneWithApplication DEF At
  <2>3. OfferRows' /\ Elsewhere(a)
    BY <1>2, <1>4, <2>2, EndKeepsRows DEF Withdraw
  <2> QED BY <1>1, <1>3, <2>2, <2>3, CommitInv
<1>5. CASE ~CurrentIs(a, {"ACTIVE"})
  <2>1. UNCHANGED <<offerVars, capacity>> BY <1>5 DEF Withdraw
  <2>2. tx' \in [Procs -> Tx] BY <1>1, IdleType DEF Leave, IInv, TypeOK
  <2>3. TypeOK'
    BY <1>2, <1>3, <2>1, <2>2, TypeParts DEF OfferRows, OtherTypes, OfferTypes, TypeOK, offerVars
  <2> QED BY <1>1, <2>1, <2>3, LeaveInv
<1> QED BY <1>4, <1>5

LEMMA AdjustInv ==
  ASSUME IInv, NEW p \in Procs, AdjustCapacity(p)
  PROVE  IInv'
<1> USE CapacityAssumption DEF IInv, TypeOK
<1>1. At(p, {"adjust"}, "begun") /\ Unblocked(p) /\ Leave(p)
  BY DEF AdjustCapacity
<1>2. \A q \in Procs : tx[q].step # "capLocked"
  BY <1>1, CapacityIsFree, WritersWantCapacity
<1>3. /\ capacity' \in [configured : Nat, validity : Nat, version : Nat]
      /\ capacity'.version = 0 => capacity.version = 0
  BY DEF AdjustCapacity
<1>4. UNCHANGED <<appStatus, decision, waitVars, offerVars, job, clock, faults>>
  BY DEF AdjustCapacity
<1>5. \A q \in Procs : tx'[q] = IF q = p THEN Idle ELSE tx[q]
  BY <1>1 DEF Leave
<1>6. tx' \in [Procs -> Tx] BY <1>1, IdleType DEF Leave
<1>7. TypeOK' BY <1>3, <1>4, <1>6 DEF waitVars, offerVars
<1>8. Roles' /\ AppExclusive' /\ CapExclusive'
  BY <1>5 DEF Roles, AppExclusive, CapExclusive, Idle
<1>9. ChecksHoldUntilCommit'
  <2>1. \A q \in Procs : tx'[q].step # "capLocked" BY <1>2, <1>5 DEF Idle
  <2>2. \A b : CurrentIs(b, {"ACTIVE"})' <=> CurrentIs(b, {"ACTIVE"})
    BY <1>4 DEF CurrentIs, HasOffer, Cur, offerVars
  <2> QED BY <1>5, <2>1, <2>2 DEF ChecksHoldUntilCommit, At, Idle
<1>10. SeatMatchesOffer' /\ FreshSlots' /\ EmptyLedger'
  BY <1>3, <1>4 DEF SeatMatchesOffer, FreshSlots, EmptyLedger, offerVars
<1> QED BY <1>7, <1>8, <1>9, <1>10

(* The invariant is inductive. *)
LEMMA StepInv == IInv /\ [Next]_vars => IInv'
<1> SUFFICES ASSUME IInv, [Next]_vars PROVE IInv'
  OBVIOUS
<1>1. ASSUME NEW p \in Sessions, Request(p) PROVE IInv'
  BY <1>1, BeginInv
<1>2. ASSUME NEW p \in Sessions, Advance(p) PROVE IInv'
  <2>1. p \in Procs BY DEF Procs
  <2> QED BY <1>2, <2>1, LockApplicationInv, LockForPromotionInv, AnswerInv, PromoteInv,
             WithdrawInv, AdjustInv, QuietInv DEF Advance
<1>3. ASSUME NEW p \in Sessions, Abort(p) PROVE IInv'
  BY <1>3, QuietInv DEF Procs
<1>4. ASSUME NEW w \in Workers, NEW s \in Slots, BeginExpiry(w, s) PROVE IInv'
  BY <1>4, ClaimInv
<1>5. ASSUME NEW w \in Workers, AdvanceExpiry(w) \/ DeliveryFails(w) \/ Crash(w) PROVE IInv'
  <2>1. w \in Procs BY DEF Procs
  <2> QED BY <1>5, <2>1, LockApplicationInv, SkipExpiryInv, AnswerInv, QuietInv
          DEF AdvanceExpiry
<1>6. CASE Tick
  <2>1. UNCHANGED <<appStatus, decision, waitVars, capacity, offerVars, job, faults, tx>>
    BY <1>6 DEF Tick
  <2>2. clock' \in Nat BY <1>6 DEF Tick, IInv, TypeOK
  <2>3. TypeOK' BY <2>1, <2>2 DEF IInv, TypeOK, waitVars, offerVars
  <2>4. Roles' /\ AppExclusive' /\ CapExclusive'
    BY <2>1 DEF IInv, Roles, AppExclusive, CapExclusive
  <2>5. ChecksHoldUntilCommit'
    BY <2>1 DEF IInv, ChecksHoldUntilCommit, At, CurrentIs, HasOffer, Cur, SeatAvailable,
                Consumed, offerVars
  <2>6. SeatMatchesOffer' /\ FreshSlots' /\ EmptyLedger'
    BY <2>1 DEF IInv, SeatMatchesOffer, FreshSlots, EmptyLedger, offerVars
  <2> QED BY <2>3, <2>4, <2>5, <2>6 DEF IInv
<1>7. CASE UNCHANGED vars
  <2>1. TypeOK' BY <1>7 DEF IInv, TypeOK, vars, waitVars, offerVars
  <2>2. Roles' /\ AppExclusive' /\ CapExclusive'
    BY <1>7 DEF IInv, Roles, AppExclusive, CapExclusive, vars
  <2>3. ChecksHoldUntilCommit'
    BY <1>7 DEF IInv, ChecksHoldUntilCommit, At, CurrentIs, HasOffer, Cur, SeatAvailable,
                Consumed, vars, offerVars
  <2>4. SeatMatchesOffer' /\ FreshSlots' /\ EmptyLedger'
    BY <1>7 DEF IInv, SeatMatchesOffer, FreshSlots, EmptyLedger, vars, offerVars
  <2> QED BY <2>1, <2>2, <2>3, <2>4 DEF IInv
<1> QED BY <1>1, <1>2, <1>3, <1>4, <1>5, <1>6, <1>7 DEF Next

LEMMA InvariantHolds == Spec => []IInv
BY InitInv, StepInv, PTL DEF Spec

(* Every row and transaction keeps its shape. *)
THEOREM TypeCorrect == Spec => []TypeOK
<1>1. IInv => TypeOK BY DEF IInv
<1> QED BY InvariantHolds, <1>1, PTL

(* Offers and reservations always tell the same story. *)
THEOREM OffersMatchSeats == Spec => []SeatMatchesOffer
<1>1. IInv => SeatMatchesOffer BY DEF IInv
<1> QED BY InvariantHolds, <1>1, PTL

(* What a transaction checked under its locks holds until it commits. *)
THEOREM ChecksHold == Spec => []ChecksHoldUntilCommit
<1>1. IInv => ChecksHoldUntilCommit BY DEF IInv
<1> QED BY InvariantHolds, <1>1, PTL

-----------------------------------------------------------------------------
(* The component implements its ledger *)

Held == {s \in Slots : seat[s] = "ACTIVE"}
Taken == {s \in Slots : seat[s] = "COMMITTED"}
GivenBack == {s \in Slots : seat[s] = "RELEASED"}

LEMMA ConsumedParts == OfferTypes => Consumed = Held \cup Taken
BY DEF OfferTypes, Consumed, Consuming, Held, Taken

(* The ledger counts its seats with the same cardinality. *)
LEMMA SameCount == \A S : Ledger!Cardinality(S) = Cardinality(S)
BY DEF Ledger!Cardinality, Cardinality

LEMMA InitIsLedgerInit == Init => Ledger!Init
BY DEF Init, Ledger!Init

(* A new version is a grant: its slot was never used and a seat is free. *)
LEMMA IssueIsGrant ==
  ASSUME OfferRows, NEW a \in Apps, NEW now \in Nat, IssueVersion(a, now), SeatAvailable
  PROVE  \E s \in Slots : Ledger!Grant(s)
<1> USE BoundsAssumption DEF OfferRows, OfferTypes
<1>1. PICK slot \in Slots : slot = <<a, current[a] + 1>>
  BY DEF IssueVersion, Slots
<1>2. /\ seat' = [seat EXCEPT ![slot] = "ACTIVE"]
      /\ capacity' = [capacity EXCEPT !.version = @ + 1]
  BY <1>1 DEF IssueVersion
<1>3. seat[slot] = "NONE"
  BY <1>1 DEF FreshSlots
<1>4. Held' = Held \cup {slot} /\ Taken' = Taken /\ GivenBack' = GivenBack
  BY <1>1, <1>2, <1>3 DEF Held, Taken, GivenBack
<1>5. slot \in Slots \ ((Held \cup Taken) \cup GivenBack)
  BY <1>1, <1>3 DEF Held, Taken, GivenBack
<1>6. Cardinality(Held \cup Taken) < capacity.configured
  BY ConsumedParts DEF SeatAvailable
<1>7. capacity'.configured = capacity.configured /\ capacity'.version = capacity.version + 1
  BY <1>2
<1>8. Ledger!Grant(slot)
  BY <1>4, <1>5, <1>6, <1>7, SameCount DEF Ledger!Grant, Ledger!Taken, Held, Taken, GivenBack
<1> QED BY <1>1, <1>8

LEMMA EndIsRelease ==
  ASSUME OfferRows, NEW a \in Apps, CurrentIs(a, {"ACTIVE"}), NEW outcome, EndVersion(a, outcome)
  PROVE  \E s \in Slots : Ledger!Release(s)
<1> USE DEF OfferRows, OfferTypes
<1>1. PICK slot \in Slots : slot = Cur(a)
  BY CurrentSlot DEF CurrentIs
<1>2. seat[slot] = "ACTIVE"
  BY <1>1 DEF CurrentIs, SeatMatchesOffer
<1>3. /\ seat' = [seat EXCEPT ![slot] = "RELEASED"]
      /\ capacity' = [capacity EXCEPT !.version = @ + 1]
  BY <1>1, <1>2 DEF EndVersion
<1>4. Held' = Held \ {slot} /\ Taken' = Taken /\ GivenBack' = GivenBack \cup {slot}
  BY <1>1, <1>2, <1>3 DEF Held, Taken, GivenBack
<1>5. slot \in Held
  BY <1>1, <1>2 DEF Held
<1>6. capacity'.configured = capacity.configured /\ capacity'.version = capacity.version + 1
  BY <1>3
<1>7. Ledger!Release(slot)
  BY <1>4, <1>5, <1>6 DEF Ledger!Release, Held, Taken, GivenBack
<1> QED BY <1>1, <1>7

LEMMA AcceptIsCommit ==
  ASSUME OfferRows, NEW p \in Procs, Accept(p), tx[p].app \in Apps,
         CurrentIs(tx[p].app, {"ACTIVE"})
  PROVE  \E s \in Slots : Ledger!Commit(s)
<1> USE DEF OfferRows, OfferTypes
<1>1. PICK slot \in Slots : slot = Cur(tx[p].app)
  BY CurrentSlot DEF CurrentIs
<1>2. seat[slot] = "ACTIVE"
  BY <1>1 DEF CurrentIs, SeatMatchesOffer
<1>3. /\ seat' = [seat EXCEPT ![slot] = "COMMITTED"]
      /\ capacity' = [capacity EXCEPT !.version = @ + 1]
  BY <1>1 DEF Accept
<1>4. Held' = Held \ {slot} /\ Taken' = Taken \cup {slot} /\ GivenBack' = GivenBack
  BY <1>1, <1>2, <1>3 DEF Held, Taken, GivenBack
<1>5. slot \in Held
  BY <1>1, <1>2 DEF Held
<1>6. capacity'.configured = capacity.configured /\ capacity'.version = capacity.version + 1
  BY <1>3
<1>7. Ledger!Commit(slot)
  BY <1>4, <1>5, <1>6 DEF Ledger!Commit, Held, Taken, GivenBack
<1> QED BY <1>1, <1>7

LEMMA ResizeOrNothing ==
  ASSUME IInv, NEW p, CreateCapacity(p) \/ AdjustCapacity(p)
  PROVE  Ledger!Resize \/ UNCHANGED <<seat, capacity>>
<1> USE CapacityAssumption DEF IInv, TypeOK
<1>1. seat' = seat
  BY DEF CreateCapacity, AdjustCapacity, offerVars
<1>2. OfferTypes BY DEF OfferTypes
<1>3. CASE CreateCapacity(p)
  <2>1. /\ capacity'.configured \in Nat
        /\ capacity'.version = capacity.version + 1
        /\ capacity.version = 0
    BY <1>3 DEF CreateCapacity
  <2>2. Held \cup Taken = {} BY <2>1 DEF EmptyLedger, Held, Taken
  <2>3. Cardinality(Held \cup Taken) <= capacity'.configured
    <3>1. Cardinality(Held \cup Taken) = 0 BY <2>2, FS_EmptySet
    <3> QED BY <2>1, <3>1
  <2> QED BY <1>1, <2>1, <2>3, SameCount DEF Ledger!Resize, Ledger!Taken, Held, Taken
<1>4. CASE AdjustCapacity(p)
  <2>1. PICK n \in Capacities, d \in Validities :
          /\ n >= Cardinality(Consumed)
          /\ capacity' = IF n = capacity.configured /\ d = capacity.validity
                         THEN capacity
                         ELSE [configured |-> n, validity |-> d,
                               version |-> capacity.version + 1]
    BY <1>4 DEF AdjustCapacity
  <2>2. CASE capacity' = capacity
    BY <1>1, <2>2
  <2>3. CASE capacity' # capacity
    <3>1. /\ capacity'.configured = n /\ n \in Nat
          /\ capacity'.version = capacity.version + 1
      BY <2>1, <2>3
    <3>2. n >= Cardinality(Held \cup Taken) BY <1>2, <2>1, ConsumedParts
    <3>3. Cardinality(Held \cup Taken) <= capacity'.configured BY <3>1, <3>2
    <3> QED BY <1>1, <3>1, <3>3, SameCount DEF Ledger!Resize, Ledger!Taken, Held, Taken
  <2> QED BY <2>2, <2>3
<1> QED BY <1>3, <1>4

LEMMA StepIsLedgerStep == IInv /\ [Next]_vars => [Ledger!Next]_(Ledger!ledgerVars)
<1> SUFFICES ASSUME IInv, [Next]_vars PROVE [Ledger!Next]_(Ledger!ledgerVars)
  OBVIOUS
<1>1. UNCHANGED <<seat, capacity>> => UNCHANGED Ledger!ledgerVars
  BY DEF Ledger!ledgerVars
<1>2. OfferRows
  BY RowsOfInv
<1>3. ASSUME NEW p \in Procs,
             Approve(p) \/ Accept(p) \/ Decline(p) \/ Reopen(p) \/ Expire(p)
                \/ Promote(p) \/ Withdraw(p)
      PROVE  Ledger!Next \/ UNCHANGED <<seat, capacity>>
  <2> DEFINE a == tx[p].app
  <2>1. a \in Apps /\ tx[p].now \in Nat
    BY <1>3 DEF IInv, TypeOK, Tx, Roles, At, AppOps, Decisions, FinalDispositions,
                Approve, Accept, Decline, Reopen, Expire, Promote, Withdraw
  <2>2. At(p, {"accept", "decline", "expire"}, "appLocked") => CurrentIs(a, {"ACTIVE"})
    BY DEF IInv, ChecksHoldUntilCommit
  <2>3. CASE Approve(p) \/ Reopen(p) \/ Promote(p)
    <3>1. IssueVersion(a, tx[p].now) /\ SeatAvailable
      BY <2>3 DEF Approve, Reopen, Promote, Reservable, At, IInv, ChecksHoldUntilCommit
    <3> QED BY <1>2, <2>1, <3>1, IssueIsGrant DEF Ledger!Next
  <2>4. CASE Accept(p)
    <3>1. CurrentIs(a, {"ACTIVE"}) BY <2>2, <2>4 DEF Accept, At
    <3> QED BY <1>2, <2>1, <2>4, <3>1, AcceptIsCommit DEF Ledger!Next
  <2>5. CASE Decline(p) \/ Expire(p)
    <3>1. CurrentIs(a, {"ACTIVE"}) BY <2>2, <2>5 DEF Decline, Expire, At
    <3>2. EndVersion(a, "DECLINED") \/ EndVersion(a, "EXPIRED") BY <2>5 DEF Decline, Expire
    <3> QED BY <1>2, <2>1, <3>1, <3>2, EndIsRelease DEF Ledger!Next
  <2>6. CASE Withdraw(p)
    <3>1. CASE CurrentIs(a, {"ACTIVE"})
      BY <1>2, <2>1, <2>6, <3>1, EndIsRelease DEF Withdraw, Ledger!Next
    <3>2. CASE ~CurrentIs(a, {"ACTIVE"})
      BY <2>6, <3>2 DEF Withdraw, offerVars
    <3> QED BY <3>1, <3>2
  <2> QED BY <1>3, <2>3, <2>4, <2>5, <2>6
<1>4. ASSUME NEW p \in Sessions, Request(p) PROVE Ledger!Next \/ UNCHANGED <<seat, capacity>>
  <2>1. CASE CreateCapacity(p)
    BY <2>1, ResizeOrNothing DEF Ledger!Next
  <2>2. CASE BeginAdjustment(p)
    BY <2>2 DEF BeginAdjustment, StaffOrFamily, offerVars
  <2>3. ASSUME NEW a \in Apps,
               BeginDecision(p, a) \/ BeginPromotion(p, a) \/ BeginResponse(p, a)
                 \/ BeginReopening(p, a) \/ BeginWithdrawal(p, a)
        PROVE  UNCHANGED <<seat, capacity>>
    <3>1. CASE BeginDecision(p, a)
      BY <3>1 DEF BeginDecision, StaffOrFamily, offerVars
    <3>2. CASE BeginPromotion(p, a)
      BY <3>2 DEF BeginPromotion, StaffOrFamily, offerVars
    <3>3. CASE BeginResponse(p, a)
      BY <3>3 DEF BeginResponse, StaffOrFamily, offerVars
    <3>4. CASE BeginReopening(p, a)
      BY <3>4 DEF BeginReopening, StaffOrFamily, offerVars
    <3>5. CASE BeginWithdrawal(p, a)
      BY <3>5 DEF BeginWithdrawal, StaffOrFamily, offerVars
    <3> QED BY <2>3, <3>1, <3>2, <3>3, <3>4, <3>5
  <2> QED BY <1>4, <2>1, <2>2, <2>3 DEF Request
<1>5. ASSUME NEW p \in Sessions, Advance(p) PROVE Ledger!Next \/ UNCHANGED <<seat, capacity>>
  <2>1. p \in Procs BY DEF Procs
  <2>2. CASE AdjustCapacity(p)
    BY <2>2, ResizeOrNothing DEF Ledger!Next
  <2>3. CASE ~AdjustCapacity(p)
    BY <1>3, <1>5, <2>1, <2>3
       DEF Advance, LockApplication, LockWaitlistEntry, LockCapacity, PutOnWaitlist,
           Reject, Refused, offerVars
  <2> QED BY <2>2, <2>3
<1>6. ASSUME NEW w \in Workers,
             AdvanceExpiry(w) \/ DeliveryFails(w) \/ Crash(w)
                \/ \E s \in Slots : BeginExpiry(w, s)
      PROVE  Ledger!Next \/ UNCHANGED <<seat, capacity>>
  <2>1. w \in Procs BY DEF Procs
  <2>2. CASE Expire(w)
    BY <1>3, <2>1, <2>2
  <2>3. CASE \/ LockApplication(w) \/ SkipExpiry(w) \/ MarkSent(w)
             \/ DeliveryFails(w) \/ Crash(w)
    BY <2>3 DEF LockApplication, SkipExpiry, MarkSent, DeliveryFails, Crash, offerVars
  <2>4. ASSUME NEW s \in Slots, BeginExpiry(w, s) PROVE UNCHANGED <<seat, capacity>>
    BY <2>4 DEF BeginExpiry, offerVars
  <2> QED BY <1>6, <2>2, <2>3, <2>4 DEF AdvanceExpiry
<1>7. CASE UNCHANGED vars \/ Tick \/ \E p \in Sessions : Abort(p)
  BY <1>1, <1>7 DEF vars, offerVars, Tick, Abort
<1> QED BY <1>1, <1>4, <1>5, <1>6, <1>7 DEF Next

(* Whatever requests race, the seats of an offering behave as the ledger:  *)
(* each is granted once while there is room, then committed or released    *)
(* once, and the version of the capacity counts every entry.               *)
THEOREM LedgerImplemented == Spec => ImplementsLedger
<1>1. IInv /\ [Next]_vars => [Ledger!Next]_(Ledger!ledgerVars)
  BY StepIsLedgerStep
<1> QED BY InitIsLedgerInit, <1>1, InvariantHolds, PTL DEF Spec, ImplementsLedger, Ledger!Spec

-----------------------------------------------------------------------------
(* No entry of the ledger overbooks *)

LedgerInv ==
  /\ capacity.configured \in Nat
  /\ IsFiniteSet(Held \cup Taken)
  /\ Cardinality(Held \cup Taken) <= capacity.configured

(* An entry of the ledger adds a seat only while there is room. *)
LEMMA EntryLeavesRoom == LedgerInv /\ [Ledger!Next]_(Ledger!ledgerVars) => LedgerInv'
<1> SUFFICES ASSUME LedgerInv, [Ledger!Next]_(Ledger!ledgerVars) PROVE LedgerInv'
  OBVIOUS
<1>1. PICK T : T = Held \cup Taken
  OBVIOUS
<1>2. IsFiniteSet(T) /\ Cardinality(T) \in Nat /\ Cardinality(T) <= capacity.configured /\ capacity.configured \in Nat
  BY <1>1, FS_CardinalityType DEF LedgerInv
<1>3. CASE Ledger!Resize
  <2>1. Held' \cup Taken' = T /\ capacity'.configured \in Nat
    BY <1>1, <1>3 DEF Ledger!Resize, Held, Taken
  <2>2. Cardinality(T) <= capacity'.configured
    BY <1>1, <1>3, SameCount DEF Ledger!Resize, Ledger!Taken, Held, Taken
  <2> QED BY <1>2, <2>1, <2>2 DEF LedgerInv
<1>4. ASSUME NEW slot \in Slots, Ledger!Grant(slot) PROVE LedgerInv'
  <2>1. Held' \cup Taken' = T \cup {slot} /\ slot \notin T /\ capacity'.configured = capacity.configured
    BY <1>1, <1>4 DEF Ledger!Grant, Ledger!Taken, Held, Taken
  <2>2. IsFiniteSet(T \cup {slot}) /\ Cardinality(T \cup {slot}) = Cardinality(T) + 1
    BY <1>2, <2>1, FS_AddElement
  <2>3. Cardinality(T) < capacity.configured
    BY <1>1, <1>4, SameCount DEF Ledger!Grant, Ledger!Taken, Held, Taken
  <2> QED BY <1>2, <2>1, <2>2, <2>3 DEF LedgerInv
<1>5. ASSUME NEW slot \in Slots, Ledger!Release(slot) \/ Ledger!Commit(slot)
      PROVE  LedgerInv'
  <2>1. PICK S : S = Held' \cup Taken'
    OBVIOUS
  <2>2. S \subseteq T /\ capacity'.configured = capacity.configured
    BY <1>1, <1>5, <2>1 DEF Ledger!Release, Ledger!Commit, Held, Taken
  <2>3. IsFiniteSet(S) /\ Cardinality(S) <= Cardinality(T) /\ Cardinality(S) \in Nat
    BY <1>2, <2>2, FS_Subset, FS_CardinalityType
  <2> QED BY <1>2, <2>1, <2>2, <2>3 DEF LedgerInv
<1>6. CASE UNCHANGED Ledger!ledgerVars
  <2>1. Held' \cup Taken' = T /\ capacity'.configured = capacity.configured
    BY <1>1, <1>6 DEF Ledger!ledgerVars, Held, Taken
  <2> QED BY <1>2, <2>1 DEF LedgerInv
<1> QED BY <1>3, <1>4, <1>5, <1>6 DEF Ledger!Next

(* The ledger never has more seats in use than are configured, for every   *)
(* history of entries.                                                     *)
THEOREM LedgerNeverOverbooks == ImplementsLedger => []Ledger!NoOverbooking
<1>1. Ledger!Init => LedgerInv
  <2> SUFFICES ASSUME Ledger!Init PROVE LedgerInv
    OBVIOUS
  <2>1. Held \cup Taken = {} /\ capacity.configured = 0
    BY DEF Ledger!Init, Held, Taken
  <2> QED BY <2>1, FS_EmptySet DEF LedgerInv
<1>2. LedgerInv => Ledger!NoOverbooking
  BY SameCount DEF LedgerInv, Ledger!NoOverbooking, Ledger!Taken, Held, Taken
<1> QED BY <1>1, <1>2, EntryLeavesRoom, PTL DEF ImplementsLedger, Ledger!Spec

(* The configured capacity is never exceeded: it is the ledger's promise.  *)
THEOREM NeverOverbooked == Spec => []NoOverbooking
<1>1. IInv /\ Ledger!NoOverbooking => NoOverbooking
  <2> SUFFICES ASSUME IInv, Ledger!NoOverbooking PROVE NoOverbooking
    OBVIOUS
  <2>1. Consumed = Ledger!Taken
    BY ConsumedParts DEF IInv, TypeOK, OfferTypes, Ledger!Taken, Held, Taken
  <2> QED BY <2>1, SameCount DEF NoOverbooking, Ledger!NoOverbooking
<1> QED BY <1>1, LedgerImplemented, LedgerNeverOverbooks, InvariantHolds, PTL

-----------------------------------------------------------------------------
(* One outcome per offer, and the waiting list                             *)
(*                                                                         *)
(* The rows of ONE application tell one story, and a transaction that has  *)
(* its application or its waiting-list entry keeps what it checked there.  *)

OutcomeOf(a) ==
  \A n \in 1..MaxVersions :
    /\ lifecycle[<<a, n>>] \in {"ACTIVE", "ACCEPTED"} => n = current[a]
    /\ lifecycle[<<a, n>>] = "ACCEPTED" <=> acceptance[a] = n
    /\ lifecycle[<<a, n>>] = "ACCEPTED" => appStatus[a] # "WITHDRAWN"

WaitOf(a) ==
  /\ entry[a] = "ACTIVE" =>
       decision[a] = "LISTA_DE_ESPERA" /\ appStatus[a] = "SUBMITTED" /\ ~HasOffer(a)
  /\ entry[a] = "PROMOTED" => HasOffer(a)
  /\ entry[a] = "WITHDRAWN" => appStatus[a] = "WITHDRAWN" /\ ~HasOffer(a)
  /\ decision[a] = "NONE" => ~HasOffer(a) /\ entry[a] = "NONE"

HeldBy(p) ==
  LET a == tx[p].app
  IN  /\ tx[p].step = "appLocked" =>
           /\ tx[p].op \in FinalDispositions => DecisionAllowed(a)
           /\ tx[p].op = "accept" => appStatus[a] # "WITHDRAWN"
           /\ tx[p].op = "reopen" => CurrentIs(a, {"EXPIRED"})
           /\ tx[p].op = "withdraw" => WithdrawalAllowed(a)
      /\ tx[p].step \in {"entryLocked", "capLocked"} => entry[a] = "ACTIVE"

HasEntry(p) == tx[p].step \in {"entryLocked", "capLocked"}
EntryExclusive ==
  \A p, q \in Procs : HasEntry(p) /\ HasEntry(q) /\ tx[p].app = tx[q].app => p = q

Stories == \A a \in Apps : OutcomeOf(a) /\ WaitOf(a)
Holders == EntryExclusive /\ \A p \in Procs : HeldBy(p)
StoryInv == Stories /\ Holders

LEMMA StoryInit == Init => StoryInv
<1> SUFFICES ASSUME Init PROVE StoryInv
  OBVIOUS
<1> USE DEF Init
<1>1. ASSUME NEW a \in Apps, NEW n \in 1..MaxVersions
      PROVE  lifecycle[<<a, n>>] = "NONE" /\ acceptance[a] = 0
  BY DEF Slots
<1>3. \A a \in Apps : WaitOf(a)
  BY DEF WaitOf, HasOffer
<1>4. Holders
  BY DEF Holders, EntryExclusive, HasEntry, HeldBy, Idle
<1> HIDE DEF Init
<1>2. ASSUME NEW a \in Apps PROVE OutcomeOf(a)
  <2>1. \A n \in 1..MaxVersions : lifecycle[<<a, n>>] = "NONE" /\ acceptance[a] # n
    BY <1>1, BoundsAssumption
  <2> QED BY <2>1 DEF OutcomeOf
<1> QED BY <1>2, <1>3, <1>4 DEF StoryInv, Stories

(* The rows of an application that a step does not write. *)
Untouched(b) ==
  /\ appStatus'[b] = appStatus[b] /\ decision'[b] = decision[b] /\ entry'[b] = entry[b]
  /\ current'[b] = current[b] /\ acceptance'[b] = acceptance[b]
  /\ \A n \in 1..MaxVersions : lifecycle'[<<b, n>>] = lifecycle[<<b, n>>]

LEMMA UntouchedStory ==
  ASSUME OfferTypes, NEW b \in Apps, Untouched(b), OutcomeOf(b), WaitOf(b)
  PROVE  OutcomeOf(b)' /\ WaitOf(b)'
BY DEF OutcomeOf, WaitOf, HasOffer, Untouched

LEMMA UntouchedHolder ==
  ASSUME IInv, NEW q \in Procs, HeldBy(q), tx'[q] = tx[q], tx[q].app \in Apps => Untouched(tx[q].app)
  PROVE  HeldBy(q)'
<1> DEFINE a == tx[q].app
<1>1. CASE a \notin Apps
  <2>1. tx[q].step \notin {"appLocked", "entryLocked", "capLocked"}
    BY <1>1 DEF IInv, Roles, AppOps, Decisions, FinalDispositions
  <2> QED BY <2>1 DEF HeldBy
<1>2. CASE a \in Apps
  <2>1. Untouched(a) BY <1>2
  <2>2. HasOffer(a) => Cur(a) = <<a, current[a]>> /\ current[a] \in 1..MaxVersions
    BY <1>2, BoundsAssumption DEF HasOffer, Cur, IInv, TypeOK
  <2>3. \A states : CurrentIs(a, states)' = CurrentIs(a, states)
    BY <2>1, <2>2 DEF CurrentIs, HasOffer, Cur, Untouched
  <2> QED BY <2>1, <2>3 DEF HeldBy, DecisionAllowed, WithdrawalAllowed, Untouched
<1> QED BY <1>1, <1>2

(* A step that writes no row of an application and gives p no lock. *)
LEMMA QuietStory ==
  ASSUME IInv, StoryInv, NEW p \in Procs, NEW t,
         tx' = [tx EXCEPT ![p] = t], t.step \in {"idle", "begun", "done"},
         \A a \in Apps : Untouched(a)
  PROVE  StoryInv'
<1>1. \A q \in Procs : tx'[q] = IF q = p THEN t ELSE tx[q]
  BY DEF IInv, TypeOK
<1>2. Stories'
  BY UntouchedStory, RowsOfInv DEF OfferRows, StoryInv, Stories
<1>3. EntryExclusive'
  BY <1>1 DEF StoryInv, Holders, EntryExclusive, HasEntry
<1>4. ASSUME NEW q \in Procs PROVE HeldBy(q)'
  <2>1. CASE q = p BY <1>1, <2>1 DEF HeldBy
  <2>2. CASE q # p BY <1>1, <2>2, UntouchedHolder DEF StoryInv, Holders
  <2> QED BY <2>1, <2>2
<1> QED BY <1>2, <1>3, <1>4 DEF StoryInv, Holders

LEMMA SameRowsUntouched ==
  ASSUME UNCHANGED <<appStatus, decision, entry, offerVars>>
  PROVE  \A a \in Apps : Untouched(a)
BY DEF offerVars, Untouched

LEMMA SameTxStory ==
  ASSUME IInv, StoryInv, UNCHANGED <<appStatus, decision, entry, offerVars, tx>>
  PROVE  StoryInv'
<1>1. Stories'
  BY SameRowsUntouched, UntouchedStory, RowsOfInv DEF OfferRows, StoryInv, Stories
<1>2. EntryExclusive'
  BY DEF StoryInv, Holders, EntryExclusive, HasEntry
<1>3. \A q \in Procs : HeldBy(q)'
  BY SameRowsUntouched, UntouchedHolder DEF StoryInv, Holders
<1> QED BY <1>1, <1>2, <1>3 DEF StoryInv, Holders

(* A request that begins has no lock. *)
LEMMA RequestBegins ==
  ASSUME NEW p, Request(p), ~CreateCapacity(p)
  PROVE  \E t : tx' = [tx EXCEPT ![p] = t] /\ t.step = "begun"
<1>1. ASSUME NEW t, StaffOrFamily(p, t), t.step = "begun"
      PROVE  \E u : tx' = [tx EXCEPT ![p] = u] /\ u.step = "begun"
  BY <1>1 DEF StaffOrFamily, Begin
<1> USE DEF Idle
<1>2. CASE BeginAdjustment(p)
  BY <1>1, <1>2 DEF BeginAdjustment
<1>3. ASSUME NEW a \in Apps, BeginDecision(p, a)
      PROVE  \E t : tx' = [tx EXCEPT ![p] = t] /\ t.step = "begun"
  BY <1>1, <1>3 DEF BeginDecision
<1>4. ASSUME NEW a \in Apps, BeginPromotion(p, a)
      PROVE  \E t : tx' = [tx EXCEPT ![p] = t] /\ t.step = "begun"
  BY <1>1, <1>4 DEF BeginPromotion
<1>5. ASSUME NEW a \in Apps, BeginResponse(p, a)
      PROVE  \E t : tx' = [tx EXCEPT ![p] = t] /\ t.step = "begun"
  BY <1>1, <1>5 DEF BeginResponse
<1>6. ASSUME NEW a \in Apps, BeginReopening(p, a)
      PROVE  \E t : tx' = [tx EXCEPT ![p] = t] /\ t.step = "begun"
  BY <1>1, <1>6 DEF BeginReopening
<1>7. ASSUME NEW a \in Apps, BeginWithdrawal(p, a)
      PROVE  \E t : tx' = [tx EXCEPT ![p] = t] /\ t.step = "begun"
  BY <1>1, <1>7 DEF BeginWithdrawal
<1> QED BY <1>2, <1>3, <1>4, <1>5, <1>6, <1>7 DEF Request

LEMMA QuietStepStory ==
  ASSUME IInv, StoryInv, NEW p \in Procs,
         \/ p \in Sessions /\ Request(p)
         \/ \E s \in Slots : BeginExpiry(p, s)
         \/ AdjustCapacity(p) \/ Refused(p) \/ Abort(p) \/ SkipExpiry(p)
         \/ MarkSent(p) \/ DeliveryFails(p) \/ Crash(p)
  PROVE  StoryInv'
<1>1. CASE CreateCapacity(p)
  <2>1. UNCHANGED <<appStatus, decision, entry, offerVars, tx>>
    BY <1>1 DEF CreateCapacity, waitVars
  <2> QED BY <2>1, SameTxStory
<1>2. CASE ~CreateCapacity(p)
  <2>1. UNCHANGED <<appStatus, decision, entry, offerVars>>
    BY <1>2 DEF Request, BeginDecision, BeginPromotion, BeginResponse, BeginReopening, BeginWithdrawal,
                BeginAdjustment, StaffOrFamily, BeginExpiry, AdjustCapacity, Refused, Abort, SkipExpiry,
                MarkSent, DeliveryFails, Crash, waitVars
  <2>2. \E t : tx' = [tx EXCEPT ![p] = t] /\ t.step \in {"idle", "begun", "done"}
    <3>1. CASE AdjustCapacity(p) \/ Refused(p) \/ Abort(p) \/ MarkSent(p) \/ DeliveryFails(p) \/ Crash(p)
      <4>1. Leave(p) /\ Idle.step = "idle"
        BY <3>1 DEF AdjustCapacity, Refused, Abort, MarkSent, DeliveryFails, Crash, Idle
      <4> QED BY <4>1 DEF Leave
    <3>2. CASE SkipExpiry(p)
      <4> DEFINE t == [tx[p] EXCEPT !.step = "done"]
      <4>1. tx' = [tx EXCEPT ![p] = t] BY <3>2 DEF SkipExpiry, MoveTo
      <4>2. t.step = "done" BY DEF IInv, TypeOK, Tx
      <4> HIDE DEF t
      <4> QED BY <4>1, <4>2
    <3>3. ASSUME NEW s \in Slots, BeginExpiry(p, s)
          PROVE  \E t : tx' = [tx EXCEPT ![p] = t] /\ t.step = "begun"
      <4> DEFINE t == [Idle EXCEPT !.op = "expire", !.step = "begun", !.app = s[1],
                         !.version = s[2], !.now = clock]
      <4>1. t.step = "begun" BY DEF Idle
      <4>2. tx' = [tx EXCEPT ![p] = t] BY <3>3 DEF BeginExpiry, Begin
      <4> HIDE DEF t
      <4> QED BY <4>1, <4>2
    <3>4. CASE Request(p)
      BY <3>4, <1>2, RequestBegins
    <3> QED BY <1>2, <3>1, <3>2, <3>3, <3>4
  <2> QED BY <2>1, <2>2, SameRowsUntouched, QuietStory
<1> QED BY <1>1, <1>2

-----------------------------------------------------------------------------
(* Taking a lock *)

LEMMA LockApplicationStory ==
  ASSUME IInv, StoryInv, NEW p \in Procs, LockApplication(p)
  PROVE  StoryInv'
<1> DEFINE a == tx[p].app
           t == [tx[p] EXCEPT !.step = "appLocked",
                   !.now = IF tx[p].op \in FinalDispositions THEN clock ELSE @]
<1>1. tx[p] \in Tx /\ At(p, AppOps, "begun") /\ Allowed(p) /\ tx' = [tx EXCEPT ![p] = t]
  BY DEF LockApplication, IInv, TypeOK
<1>2. t.step = "appLocked" /\ t.op = tx[p].op /\ t.app = a
  BY <1>1 DEF Tx
<1> HIDE DEF t
<1>3. \A q \in Procs : tx'[q] = IF q = p THEN t ELSE tx[q]
  BY <1>1 DEF IInv, TypeOK
<1>4. UNCHANGED <<appStatus, decision, entry, offerVars>>
  BY DEF LockApplication, waitVars
<1>5. Stories'
  BY <1>4, SameRowsUntouched, UntouchedStory, RowsOfInv DEF OfferRows, StoryInv, Stories
<1>6. EntryExclusive'
  BY <1>2, <1>3 DEF StoryInv, Holders, EntryExclusive, HasEntry
<1>7. HeldBy(p)'
  <2>1. /\ tx[p].op \in FinalDispositions => DecisionAllowed(a)
        /\ tx[p].op = "accept" => appStatus[a] # "WITHDRAWN"
        /\ tx[p].op = "reopen" => CurrentIs(a, {"EXPIRED"})
        /\ tx[p].op = "withdraw" => WithdrawalAllowed(a)
    BY <1>1 DEF Allowed, ResponseAllowed, ReopeningAllowed, FinalDispositions
  <2>2. tx'[p] = t BY <1>3
  <2> QED BY <1>2, <1>4, <2>1, <2>2
          DEF HeldBy, DecisionAllowed, WithdrawalAllowed, CurrentIs, HasOffer, Cur, offerVars
<1>8. ASSUME NEW q \in Procs \ {p} PROVE HeldBy(q)'
  BY <1>3, <1>4, SameRowsUntouched, UntouchedHolder DEF StoryInv, Holders
<1> QED BY <1>5, <1>6, <1>7, <1>8 DEF StoryInv, Holders

LEMMA LockForPromotionStory ==
  ASSUME IInv, StoryInv, NEW p \in Procs, LockWaitlistEntry(p) \/ LockCapacity(p)
  PROVE  StoryInv'
<1> DEFINE a == tx[p].app
<1>1. PICK step \in {"entryLocked", "capLocked"} : tx' = [tx EXCEPT ![p].step = step]
  BY DEF LockWaitlistEntry, LockCapacity, MoveTo
<1> DEFINE t == [tx[p] EXCEPT !.step = step]
<1>2. tx' = [tx EXCEPT ![p] = t] /\ t.step = step /\ t.app = a
  BY <1>1 DEF IInv, TypeOK, Tx
<1> HIDE DEF t
<1>3. \A q \in Procs : tx'[q] = IF q = p THEN t ELSE tx[q]
  BY <1>2 DEF IInv, TypeOK
<1>4. UNCHANGED <<appStatus, decision, entry, offerVars>>
  BY DEF LockWaitlistEntry, LockCapacity, waitVars
<1>5. Stories'
  BY <1>4, SameRowsUntouched, UntouchedStory, RowsOfInv DEF OfferRows, StoryInv, Stories
<1>6. ASSUME NEW q \in Procs \ {p}, HasEntry(q) PROVE tx[q].app # a
  <2>1. CASE LockCapacity(p)
    BY <1>6, <2>1 DEF LockCapacity, At, StoryInv, Holders, EntryExclusive, HasEntry
  <2>2. CASE LockWaitlistEntry(p)
    <3>1. EntryRow(a) \in Wants(p) /\ Unblocked(p) BY <2>2 DEF LockWaitlistEntry, At, Wants
    <3>2. EntryRow(a) \notin Owns(q) BY <3>1, NotOwned
    <3>3. EntryRow(tx[q].app) \in Owns(q) BY <1>6 DEF HasEntry, Owns
    <3> QED BY <3>2, <3>3
  <2> QED BY <2>1, <2>2
<1>7. EntryExclusive'
  BY <1>2, <1>3, <1>6 DEF StoryInv, Holders, EntryExclusive, HasEntry
<1>8. HeldBy(p)'
  <2>1. entry[a] = "ACTIVE"
    BY DEF LockWaitlistEntry, LockCapacity, At, StoryInv, Holders, HeldBy
  <2> QED BY <1>2, <1>3, <1>4, <2>1 DEF HeldBy
<1>9. ASSUME NEW q \in Procs \ {p} PROVE HeldBy(q)'
  BY <1>3, <1>4, SameRowsUntouched, UntouchedHolder DEF StoryInv, Holders
<1> QED BY <1>5, <1>7, <1>8, <1>9 DEF StoryInv, Holders

-----------------------------------------------------------------------------
(* Commits: p writes the rows of its application and has no lock then *)

LEMMA CommitStory ==
  ASSUME IInv, StoryInv, NEW p \in Procs, NEW a \in Apps, a = tx[p].app,
         Leave(p) \/ MoveTo(p, "done"),
         \A b \in Apps \ {a} : Untouched(b),
         OutcomeOf(a)', WaitOf(a)',
         \A q \in Procs \ {p} :
           /\ tx[q].step = "appLocked" => tx[q].app # a
           /\ HasEntry(q) /\ tx[q].app = a => entry'[a] = entry[a]
  PROVE  StoryInv'
<1>1. PICK t : tx' = [tx EXCEPT ![p] = t] /\ t.step \in {"idle", "done"}
  <2>1. CASE Leave(p)
    <3>1. Idle.step = "idle" BY DEF Idle
    <3> QED BY <2>1, <3>1 DEF Leave
  <2>2. CASE MoveTo(p, "done")
    <3> DEFINE t == [tx[p] EXCEPT !.step = "done"]
    <3>1. tx' = [tx EXCEPT ![p] = t] /\ t.step = "done"
      BY <2>2 DEF MoveTo, IInv, TypeOK, Tx
    <3> HIDE DEF t
    <3> QED BY <3>1
  <2> QED BY <2>1, <2>2
<1>2. \A q \in Procs : tx'[q] = IF q = p THEN t ELSE tx[q]
  BY <1>1 DEF IInv, TypeOK
<1>3. Stories'
  BY UntouchedStory, RowsOfInv DEF OfferRows, StoryInv, Stories
<1>4. EntryExclusive'
  BY <1>1, <1>2 DEF StoryInv, Holders, EntryExclusive, HasEntry
<1>5. ASSUME NEW q \in Procs PROVE HeldBy(q)'
  <2>1. CASE q = p BY <1>1, <1>2, <2>1 DEF HeldBy
  <2>2. CASE q # p /\ tx[q].app # a
    <3>1. tx[q].app \in Apps => Untouched(tx[q].app) BY <2>2
    <3> QED BY <1>2, <2>2, <3>1, UntouchedHolder DEF StoryInv, Holders
  <2>3. CASE q # p /\ tx[q].app = a
    <3>1. tx'[q] = tx[q] /\ tx[q].step # "appLocked" BY <1>2, <2>3
    <3>2. HasEntry(q) => entry'[a] = "ACTIVE"
      BY <2>3 DEF StoryInv, Holders, HeldBy, HasEntry
    <3> QED BY <2>3, <3>1, <3>2 DEF HeldBy, HasEntry
  <2> QED BY <2>1, <2>2, <2>3
<1> QED BY <1>3, <1>4, <1>5 DEF StoryInv, Holders

OfferUntouched(b) ==
  /\ current'[b] = current[b] /\ acceptance'[b] = acceptance[b]
  /\ \A n \in 1..MaxVersions : lifecycle'[<<b, n>>] = lifecycle[<<b, n>>]

(* The version after the current one is the only open one of its offer. *)
LEMMA IssueStory ==
  ASSUME OfferRows, NEW a \in Apps, NEW now, OutcomeOf(a), IssueVersion(a, now),
         ~CurrentIs(a, {"ACTIVE", "ACCEPTED"}), appStatus' = appStatus
  PROVE  OutcomeOf(a)' /\ HasOffer(a)' /\ \A b \in Apps \ {a} : OfferUntouched(b)
<1> USE BoundsAssumption DEF OfferRows, OfferTypes
<1>1. PICK m \in 1..MaxVersions : m = current[a] + 1
  BY DEF IssueVersion
<1>2. /\ lifecycle' = [lifecycle EXCEPT ![<<a, m>>] = "ACTIVE"]
      /\ current' = [current EXCEPT ![a] = m]
      /\ acceptance' = acceptance
  BY <1>1 DEF IssueVersion
<1>3. \A n \in 1..MaxVersions : lifecycle'[<<a, n>>] = IF n = m THEN "ACTIVE" ELSE lifecycle[<<a, n>>]
  BY <1>2 DEF Slots
<1>4. lifecycle[<<a, m>>] = "NONE"
  <2>1. <<a, m>> \in Slots /\ m > current[a] BY <1>1 DEF Slots
  <2>2. seat[<<a, m>>] = "NONE" BY <2>1 DEF FreshSlots
  <2> QED BY <2>1, <2>2 DEF SeatMatchesOffer
<1>5. \A n \in 1..MaxVersions : lifecycle[<<a, n>>] \notin {"ACTIVE", "ACCEPTED"}
  BY DEF OutcomeOf, CurrentIs, HasOffer, Cur
<1>6. \A n \in 1..MaxVersions : acceptance[a] # n
  BY <1>5 DEF OutcomeOf
<1>7. current'[a] = m
  BY <1>2
<1>8. OutcomeOf(a)'
  BY <1>2, <1>3, <1>5, <1>6, <1>7 DEF OutcomeOf
<1>9. HasOffer(a)'
  BY <1>1, <1>7 DEF HasOffer
<1>10. \A b \in Apps \ {a} : OfferUntouched(b)
  BY <1>2 DEF OfferUntouched
<1> QED BY <1>8, <1>9, <1>10

LEMMA EndStory ==
  ASSUME OfferRows, NEW a \in Apps, OutcomeOf(a), CurrentIs(a, {"ACTIVE"}),
         NEW outcome \in {"DECLINED", "EXPIRED"}, EndVersion(a, outcome)
  PROVE  /\ \A n \in 1..MaxVersions : /\ lifecycle'[<<a, n>>] \notin {"ACTIVE", "ACCEPTED"}
                                      /\ acceptance'[a] # n
         /\ OutcomeOf(a)' /\ HasOffer(a)' /\ HasOffer(a)
         /\ \A b \in Apps \ {a} : OfferUntouched(b)
<1> USE BoundsAssumption DEF OfferRows, OfferTypes
<1>1. PICK m \in 1..MaxVersions : m = current[a]
  BY DEF CurrentIs, HasOffer
<1>2. /\ lifecycle' = [lifecycle EXCEPT ![<<a, m>>] = outcome]
      /\ UNCHANGED <<current, acceptance>>
  BY <1>1 DEF EndVersion, Cur
<1>3. \A n \in 1..MaxVersions : lifecycle'[<<a, n>>] = IF n = m THEN outcome ELSE lifecycle[<<a, n>>]
  BY <1>2 DEF Slots
<1>4. lifecycle[<<a, m>>] = "ACTIVE"
  BY <1>1 DEF CurrentIs, Cur
<1>5. \A n \in 1..MaxVersions :
        /\ n # m => lifecycle[<<a, n>>] \notin {"ACTIVE", "ACCEPTED"}
        /\ acceptance[a] # n
  BY <1>1, <1>4 DEF OutcomeOf
<1>6. \A n \in 1..MaxVersions : /\ lifecycle'[<<a, n>>] \notin {"ACTIVE", "ACCEPTED"}
                                /\ acceptance'[a] # n
  BY <1>2, <1>3, <1>5
<1>7. OutcomeOf(a)'
  BY <1>6 DEF OutcomeOf
<1>8. HasOffer(a) /\ HasOffer(a)'
  BY <1>1, <1>2 DEF HasOffer
<1>9. \A b \in Apps \ {a} : OfferUntouched(b)
  BY <1>2 DEF OfferUntouched
<1> QED BY <1>6, <1>7, <1>8, <1>9

LEMMA AcceptStory ==
  ASSUME OfferRows, NEW p \in Procs, NEW a \in Apps, a = tx[p].app, Accept(p),
         OutcomeOf(a), CurrentIs(a, {"ACTIVE"}), appStatus[a] # "WITHDRAWN"
  PROVE  OutcomeOf(a)' /\ (HasOffer(a)' = HasOffer(a)) /\ \A b \in Apps \ {a} : OfferUntouched(b)
<1> USE BoundsAssumption DEF OfferRows, OfferTypes
<1>1. PICK m \in 1..MaxVersions : m = current[a]
  BY DEF CurrentIs, HasOffer
<1>2. /\ lifecycle' = [lifecycle EXCEPT ![<<a, m>>] = "ACCEPTED"]
      /\ acceptance' = [acceptance EXCEPT ![a] = m]
      /\ UNCHANGED <<current, appStatus>>
  BY <1>1 DEF Accept, Cur
<1>3. \A n \in 1..MaxVersions : lifecycle'[<<a, n>>] = IF n = m THEN "ACCEPTED" ELSE lifecycle[<<a, n>>]
  BY <1>2 DEF Slots
<1>4. \A n \in 1..MaxVersions : n # m => lifecycle[<<a, n>>] \notin {"ACTIVE", "ACCEPTED"}
  BY <1>1 DEF OutcomeOf
<1>5. acceptance'[a] = m /\ current'[a] = m
  BY <1>1, <1>2
<1>6. OutcomeOf(a)'
  BY <1>2, <1>3, <1>4, <1>5 DEF OutcomeOf
<1>7. \A b \in Apps \ {a} : OfferUntouched(b)
  BY <1>2 DEF OfferUntouched
<1> QED BY <1>2, <1>6, <1>7 DEF HasOffer

(* Who holds the application is alone with it. *)
LEMMA Alone ==
  ASSUME IInv, NEW p \in Procs, tx[p].step = "appLocked"
  PROVE  /\ tx[p].app \in Apps
         /\ \A q \in Procs \ {p} : tx[q].step = "appLocked" => tx[q].app # tx[p].app
BY DEF IInv, Roles, AppExclusive, AppOps, Decisions, FinalDispositions

LEMMA DecideStory ==
  ASSUME IInv, StoryInv, NEW p \in Procs, PutOnWaitlist(p) \/ Reject(p)
  PROVE  StoryInv'
<1> DEFINE a == tx[p].app
<1>1. tx[p].step = "appLocked" /\ tx[p].op \in FinalDispositions /\ Leave(p)
  BY DEF PutOnWaitlist, Reject, At, FinalDispositions
<1>2. PICK b \in Apps : b = a /\ \A q \in Procs \ {p} : tx[q].step = "appLocked" => tx[q].app # b
  BY <1>1, Alone
<1>3. DecisionAllowed(b)
  BY <1>1, <1>2 DEF StoryInv, Holders, HeldBy
<1>4. OutcomeOf(b) /\ WaitOf(b)
  BY DEF StoryInv, Stories
<1>5. /\ UNCHANGED <<appStatus, lifecycle, current, acceptance>>
      /\ \A c \in Apps : c # b => decision'[c] = decision[c] /\ entry'[c] = entry[c]
  BY <1>2 DEF PutOnWaitlist, Reject, offerVars, waitVars, IInv, TypeOK
<1>6. \/ decision'[b] = "LISTA_DE_ESPERA" /\ entry'[b] = "ACTIVE"
      \/ decision'[b] = "RECHAZADO" /\ entry'[b] = entry[b]
  BY <1>2 DEF PutOnWaitlist, Reject, waitVars, IInv, TypeOK
<1>7. OutcomeOf(b)'
  BY <1>4, <1>5 DEF OutcomeOf
<1>8. WaitOf(b)'
  BY <1>3, <1>4, <1>5, <1>6 DEF WaitOf, HasOffer, DecisionAllowed
<1>9. \A c \in Apps \ {b} : Untouched(c)
  BY <1>5 DEF Untouched
<1>10. ASSUME NEW q \in Procs \ {p}, HasEntry(q), tx[q].app = b PROVE entry'[b] = entry[b]
  <2>1. entry[b] = "ACTIVE" BY <1>10 DEF StoryInv, Holders, HeldBy, HasEntry
  <2> QED BY <1>3, <1>4, <2>1 DEF WaitOf, DecisionAllowed
<1> QED BY <1>1, <1>2, <1>7, <1>8, <1>9, <1>10, CommitStory

LEMMA AnswerStory ==
  ASSUME IInv, StoryInv, NEW p \in Procs,
         Approve(p) \/ Accept(p) \/ Decline(p) \/ Reopen(p) \/ Expire(p)
  PROVE  StoryInv'
<1> DEFINE a == tx[p].app
<1>1. /\ tx[p].step = "appLocked" /\ (Leave(p) \/ MoveTo(p, "done"))
      /\ UNCHANGED <<appStatus, entry>>
  BY DEF Approve, Accept, Decline, Reopen, Expire, At, waitVars
<1>2. PICK b \in Apps : b = a /\ \A q \in Procs \ {p} : tx[q].step = "appLocked" => tx[q].app # b
  BY <1>1, Alone
<1>3. OutcomeOf(b) /\ WaitOf(b) /\ OfferRows
  BY RowsOfInv DEF StoryInv, Stories
<1>4. SUFFICES /\ OutcomeOf(b)' /\ WaitOf(b)'
               /\ \A c \in Apps \ {b} : OfferUntouched(c) /\ decision'[c] = decision[c]
  BY <1>1, <1>2, CommitStory DEF OfferUntouched, Untouched
<1>5. tx[p].op \in {"accept", "decline", "expire"} => CurrentIs(b, {"ACTIVE"})
  BY <1>1, <1>2 DEF IInv, ChecksHoldUntilCommit, At
<1>6. CASE Approve(p)
  <2>1. IssueVersion(b, tx[p].now) /\ ~HasOffer(b) /\ tx[p].op = "APROBADO"
    BY <1>2, <1>6 DEF Approve, Reservable, At
  <2>2. DecisionAllowed(b)
    BY <1>1, <1>2, <2>1 DEF StoryInv, Holders, HeldBy, FinalDispositions
  <2>3. decision' = [decision EXCEPT ![b] = "APROBADO"]
    BY <1>2, <1>6 DEF Approve
  <2>4. OutcomeOf(b)' /\ HasOffer(b)' /\ \A c \in Apps \ {b} : OfferUntouched(c)
    BY <1>1, <1>3, <2>1, IssueStory DEF CurrentIs
  <2>5. entry[b] = "NONE" /\ decision'[b] = "APROBADO" /\ \A c \in Apps \ {b} : decision'[c] = decision[c]
    BY <1>3, <2>2, <2>3 DEF WaitOf, DecisionAllowed, IInv, TypeOK
  <2> QED BY <1>1, <2>4, <2>5 DEF WaitOf
<1>7. CASE Accept(p)
  <2>1. tx[p].op = "accept" /\ decision' = decision BY <1>7 DEF Accept, At
  <2>2. appStatus[b] # "WITHDRAWN" BY <1>1, <1>2, <2>1 DEF StoryInv, Holders, HeldBy
  <2>3. OutcomeOf(b)' /\ HasOffer(b)' = HasOffer(b) /\ \A c \in Apps \ {b} : OfferUntouched(c)
    BY <1>2, <1>3, <1>5, <1>7, <2>1, <2>2, AcceptStory
  <2> QED BY <1>1, <1>3, <2>1, <2>3 DEF WaitOf
<1>8. CASE Decline(p) \/ Expire(p)
  <2>1. tx[p].op \in {"decline", "expire"} /\ decision' = decision BY <1>8 DEF Decline, Expire, At
  <2>2. EndVersion(b, "DECLINED") \/ EndVersion(b, "EXPIRED") BY <1>2, <1>8 DEF Decline, Expire
  <2>3. OutcomeOf(b)' /\ HasOffer(b)' /\ HasOffer(b) /\ \A c \in Apps \ {b} : OfferUntouched(c)
    BY <1>3, <1>5, <2>1, <2>2, EndStory
  <2> QED BY <1>1, <1>3, <2>1, <2>3 DEF WaitOf
<1>9. CASE Reopen(p)
  <2>1. tx[p].op = "reopen" /\ decision' = decision /\ IssueVersion(b, tx[p].now)
    BY <1>2, <1>9 DEF Reopen, At
  <2>2. CurrentIs(b, {"EXPIRED"}) BY <1>1, <1>2, <2>1 DEF StoryInv, Holders, HeldBy
  <2>3. HasOffer(b) /\ ~CurrentIs(b, {"ACTIVE", "ACCEPTED"}) BY <2>2 DEF CurrentIs
  <2>4. OutcomeOf(b)' /\ HasOffer(b)' /\ \A c \in Apps \ {b} : OfferUntouched(c)
    BY <1>1, <1>3, <2>1, <2>3, IssueStory
  <2> QED BY <1>1, <1>3, <2>1, <2>3, <2>4 DEF WaitOf
<1> QED BY <1>6, <1>7, <1>8, <1>9

LEMMA PromoteStory == ASSUME IInv, StoryInv, NEW p \in Procs, Promote(p) PROVE StoryInv'
<1> DEFINE a == tx[p].app
<1>1. At(p, {"promote"}, "capLocked") /\ Unblocked(p) /\ Leave(p) /\ UNCHANGED <<appStatus, decision>>
  BY DEF Promote
<1>2. PICK b \in Apps : b = a
  BY <1>1 DEF IInv, Roles, At
<1>3. \A q \in Procs \ {p} : tx[q].step = "appLocked" => tx[q].app # b
  BY <1>1, <1>2, ApplicationIsFree, AppOpsWantApplication
<1>4. \A q \in Procs \ {p} : HasEntry(q) => tx[q].app # b
  BY <1>1, <1>2 DEF StoryInv, Holders, EntryExclusive, HasEntry, At
<1>5. OutcomeOf(b) /\ WaitOf(b) /\ OfferRows
  BY RowsOfInv DEF StoryInv, Stories
<1>6. entry[b] = "ACTIVE"
  BY <1>1, <1>2 DEF StoryInv, Holders, HeldBy, At
<1>7. ~HasOffer(b) /\ IssueVersion(b, tx[p].now)
  BY <1>2, <1>5, <1>6 DEF WaitOf, Promote
<1>8. OutcomeOf(b)' /\ HasOffer(b)' /\ \A c \in Apps \ {b} : OfferUntouched(c)
  BY <1>1, <1>5, <1>7, IssueStory DEF CurrentIs
<1>9. entry'[b] = "PROMOTED" /\ \A c \in Apps \ {b} : entry'[c] = entry[c]
  BY <1>2 DEF Promote, IInv, TypeOK
<1>10. WaitOf(b)'
  BY <1>1, <1>5, <1>6, <1>8, <1>9 DEF WaitOf
<1>11. \A c \in Apps \ {b} : Untouched(c)
  BY <1>1, <1>8, <1>9 DEF OfferUntouched, Untouched
<1> QED BY <1>1, <1>2, <1>3, <1>4, <1>8, <1>10, <1>11, CommitStory

LEMMA WithdrawStory == ASSUME IInv, StoryInv, NEW p \in Procs, Withdraw(p) PROVE StoryInv'
<1> DEFINE a == tx[p].app
<1>1. At(p, {"withdraw"}, "appLocked") /\ Unblocked(p) /\ Leave(p) /\ UNCHANGED decision
  BY DEF Withdraw
<1>2. PICK b \in Apps : b = a /\ \A q \in Procs \ {p} : tx[q].step = "appLocked" => tx[q].app # b
  BY <1>1, Alone DEF At
<1>3. OutcomeOf(b) /\ WaitOf(b) /\ OfferRows
  BY RowsOfInv DEF StoryInv, Stories
<1>4. WithdrawalAllowed(b)
  BY <1>1, <1>2 DEF StoryInv, Holders, HeldBy, At
<1>5. /\ appStatus'[b] = "WITHDRAWN"
      /\ entry'[b] = IF entry[b] = "ACTIVE" THEN "WITHDRAWN" ELSE entry[b]
      /\ \A c \in Apps \ {b} : appStatus'[c] = appStatus[c] /\ entry'[c] = entry[c]
  BY <1>2 DEF Withdraw, IInv, TypeOK
<1>6. ASSUME NEW q \in Procs \ {p}, HasEntry(q), tx[q].app = b PROVE entry'[b] = entry[b]
  <2>1. CASE entry[b] # "ACTIVE" BY <1>5, <2>1
  <2>2. CASE entry[b] = "ACTIVE"
    <3>1. EntryRow(b) \in Wants(p) BY <1>1, <1>2, <2>2 DEF At, Wants, RowsToWrite
    <3>2. EntryRow(b) \notin Owns(q) BY <1>1, <3>1, NotOwned
    <3>3. EntryRow(b) \in Owns(q) BY <1>6 DEF HasEntry, Owns
    <3> QED BY <3>2, <3>3
  <2> QED BY <2>1, <2>2
<1>7. CASE CurrentIs(b, {"ACTIVE"})
  <2>1. EndVersion(b, "DECLINED") BY <1>2, <1>7 DEF Withdraw
  <2>2. OutcomeOf(b)' /\ HasOffer(b)' /\ HasOffer(b) /\ \A c \in Apps \ {b} : OfferUntouched(c)
    BY <1>3, <1>7, <2>1, EndStory
  <2>3. WaitOf(b)'
    BY <1>1, <1>3, <1>5, <2>2 DEF WaitOf
  <2>4. \A c \in Apps \ {b} : Untouched(c)
    BY <1>1, <1>5, <2>2 DEF OfferUntouched, Untouched
  <2> QED BY <1>1, <1>2, <1>6, <2>2, <2>3, <2>4, CommitStory
<1>8. CASE ~CurrentIs(b, {"ACTIVE"})
  <2>1. UNCHANGED <<lifecycle, current, acceptance>> BY <1>2, <1>8 DEF Withdraw, offerVars
  <2>2. \A n \in 1..MaxVersions : lifecycle[<<b, n>>] \notin {"ACTIVE", "ACCEPTED"}
    <3> SUFFICES ASSUME NEW n \in 1..MaxVersions, lifecycle[<<b, n>>] \in {"ACTIVE", "ACCEPTED"}
                 PROVE  FALSE
      OBVIOUS
    <3>1. n = current[b] BY <1>3 DEF OutcomeOf
    <3>2. CurrentIs(b, {"ACTIVE", "ACCEPTED"}) BY <3>1 DEF CurrentIs, HasOffer, Cur
    <3> QED BY <1>4, <1>8, <3>2 DEF WithdrawalAllowed, CurrentIs
  <2>3. OutcomeOf(b)' BY <1>3, <2>1, <2>2 DEF OutcomeOf
  <2>4. WaitOf(b)' BY <1>1, <1>3, <1>5, <2>1 DEF WaitOf, HasOffer
  <2>5. \A c \in Apps \ {b} : Untouched(c) BY <1>1, <1>5, <2>1 DEF Untouched
  <2> QED BY <1>1, <1>2, <1>6, <2>3, <2>4, <2>5, CommitStory
<1> QED BY <1>7, <1>8

LEMMA StoryStep == IInv /\ StoryInv /\ [Next]_vars => StoryInv'
<1> SUFFICES ASSUME IInv, StoryInv, [Next]_vars PROVE StoryInv'
  OBVIOUS
<1>1. Sessions \subseteq Procs /\ Workers \subseteq Procs
  BY DEF Procs
<1>2. ASSUME NEW p \in Sessions, Request(p) \/ Advance(p) \/ Abort(p) PROVE StoryInv'
  BY <1>1, <1>2, QuietStepStory, LockApplicationStory, LockForPromotionStory, DecideStory, AnswerStory,
     PromoteStory, WithdrawStory DEF Advance
<1>3. ASSUME NEW w \in Workers,
             (\E s \in Slots : BeginExpiry(w, s)) \/ AdvanceExpiry(w) \/ DeliveryFails(w) \/ Crash(w)
      PROVE  StoryInv'
  BY <1>1, <1>3, QuietStepStory, LockApplicationStory, AnswerStory DEF AdvanceExpiry
<1>4. CASE Tick \/ UNCHANGED vars
  <2>1. UNCHANGED <<appStatus, decision, entry, offerVars, tx>>
    BY <1>4 DEF Tick, vars, waitVars, offerVars
  <2> QED BY <2>1, SameTxStory
<1> QED BY <1>2, <1>3, <1>4 DEF Next

LEMMA StoryHolds == Spec => []StoryInv
BY StoryInit, StoryStep, InvariantHolds, PTL DEF Spec

(* Accept, decline, withdraw, expire and reopen leave one durable outcome: *)
(* only the current version is open or accepted, the acceptance names it,  *)
(* and an accepted application is never withdrawn.                         *)
THEOREM OneOutcome == Spec => []OneOutcomePerOffer
<1>1. StoryInv => OneOutcomePerOffer
  <2> SUFFICES ASSUME StoryInv, NEW s \in Slots
               PROVE  /\ lifecycle[s] \in {"ACTIVE", "ACCEPTED"} => s[2] = current[s[1]]
                      /\ lifecycle[s] = "ACCEPTED" <=> acceptance[s[1]] = s[2]
                      /\ lifecycle[s] = "ACCEPTED" => appStatus[s[1]] # "WITHDRAWN"
    BY DEF OneOutcomePerOffer
  <2>1. s = <<s[1], s[2]>> /\ s[1] \in Apps /\ s[2] \in 1..MaxVersions BY DEF Slots
  <2>2. OutcomeOf(s[1]) BY <2>1 DEF StoryInv, Stories
  <2> QED BY <2>1, <2>2 DEF OutcomeOf
<1> QED BY <1>1, StoryHolds, PTL

(* A waiting-list entry follows its application. *)
THEOREM WaitlistFollows == Spec => []WaitlistMatchesApplication
<1>1. StoryInv => WaitlistMatchesApplication
  BY DEF StoryInv, Stories, WaitOf, WaitlistMatchesApplication
<1> QED BY <1>1, StoryHolds, PTL

-----------------------------------------------------------------------------
(* Who can wait for whom *)

(* A transaction that owns a row waits for the capacity row, for the       *)
(* application of a waiting-list entry, or for that entry.                 *)
LEMMA OwnedRows ==
  ASSUME NEW q \in Procs
  PROVE  /\ \A a : AppRow(a) \in Owns(q) => tx[q].step = "appLocked" /\ tx[q].app = a
         /\ \A a : EntryRow(a) \in Owns(q) => HasEntry(q) /\ tx[q].app = a
         /\ CapRow \in Owns(q) => tx[q].step = "capLocked"
BY DEF Owns, AppRow, EntryRow, CapRow, HasEntry

LEMMA WantedByEntry ==
  ASSUME NEW p \in Procs, HasEntry(p)
  PROVE  Wants(p) = IF tx[p].step = "entryLocked" THEN {CapRow} ELSE {AppRow(tx[p].app)}
BY DEF HasEntry, Wants

LEMMA WantedByApplication ==
  ASSUME NEW p \in Procs, tx[p].step = "appLocked", NEW r \in Wants(p)
  PROVE  \/ r = CapRow /\ tx[p].op \in {"APROBADO", "accept", "decline", "reopen", "expire", "withdraw"}
         \/ r = EntryRow(tx[p].app) /\ tx[p].op = "withdraw"
BY DEF Wants, RowsToWrite

(* While a promotion has the entry of an application, of the requests that *)
(* have the application only a withdrawal wants another row.               *)
LEMMA OnlyWithdrawalCrosses ==
  ASSUME IInv, StoryInv, NEW p \in Procs, NEW q \in Procs, HasEntry(p),
         tx[q].step = "appLocked", tx[q].app = tx[p].app, NEW r \in Wants(q)
  PROVE  tx[q].op = "withdraw"
<1> DEFINE a == tx[p].app
<1>1. a \in Apps BY DEF IInv, Roles, HasEntry
<1>2. entry[a] = "ACTIVE" BY DEF StoryInv, Holders, HeldBy, HasEntry
<1>3. decision[a] # "NONE" /\ ~HasOffer(a) BY <1>1, <1>2 DEF StoryInv, Stories, WaitOf
<1>4. tx[q].op # "APROBADO"
  BY <1>3 DEF StoryInv, Holders, HeldBy, DecisionAllowed, FinalDispositions
<1>5. tx[q].op \notin {"accept", "decline", "expire"}
  BY <1>3 DEF IInv, ChecksHoldUntilCommit, At, CurrentIs
<1>6. tx[q].op # "reopen"
  BY <1>3 DEF StoryInv, Holders, HeldBy, CurrentIs
<1> QED BY <1>4, <1>5, <1>6, WantedByApplication

LEMMA MutualWait ==
  ASSUME IInv, StoryInv, NEW p \in Procs, NEW q \in Procs, BlockedBy(p, q), BlockedBy(q, p)
  PROVE  {tx[p].op, tx[q].op} = {"promote", "withdraw"}
<1>1. ASSUME NEW x \in Procs, NEW y \in Procs, BlockedBy(x, y), BlockedBy(y, x), HasEntry(x)
      PROVE  tx[x].op = "promote" /\ tx[y].op = "withdraw"
  <2>1. tx[x].op = "promote" BY <1>1 DEF IInv, Roles, HasEntry
  <2>2. PICK r : r \in Wants(x) /\ r \in Owns(y) BY <1>1 DEF BlockedBy
  <2>3. PICK r2 : r2 \in Wants(y) /\ r2 \in Owns(x) BY <1>1 DEF BlockedBy
  <2>4. CASE tx[x].step = "entryLocked"
    <3>1. tx[y].step = "capLocked" BY <1>1, <2>2, <2>4, WantedByEntry, OwnedRows
    <3>2. r2 = AppRow(tx[y].app) BY <2>3, <3>1, WantedByEntry DEF HasEntry
    <3>3. tx[x].step = "appLocked" BY <2>3, <3>2, OwnedRows
    <3> QED BY <2>4, <3>3
  <2>5. CASE tx[x].step = "capLocked"
    <3>1. tx[y].step = "appLocked" /\ tx[y].app = tx[x].app BY <1>1, <2>2, <2>5, WantedByEntry, OwnedRows
    <3>2. tx[y].op = "withdraw" BY <1>1, <2>3, <3>1, OnlyWithdrawalCrosses
    <3> QED BY <2>1, <3>2
  <2> QED BY <1>1, <2>4, <2>5 DEF HasEntry
<1>2. HasEntry(p) \/ HasEntry(q)
  <2> SUFFICES ASSUME ~HasEntry(p), ~HasEntry(q) PROVE FALSE
    OBVIOUS
  <2>1. tx[p].step = "appLocked" /\ tx[q].step = "appLocked"
    BY DEF BlockedBy, Owns, HasEntry
  <2>2. PICK r : r \in Wants(p) /\ r \in Owns(q) BY DEF BlockedBy
  <2>3. r = AppRow(tx[q].app) BY <2>1, <2>2 DEF Owns
  <2>4. r = CapRow \/ r = EntryRow(tx[p].app) BY <2>1, <2>2, WantedByApplication
  <2> QED BY <2>3, <2>4 DEF AppRow, CapRow, EntryRow
<1> QED BY <1>1, <1>2

(* Of the waiting requests one can go on, or two wait for each other. *)
LEMMA SomeoneGoesOn ==
  ASSUME IInv, StoryInv, NEW p \in Procs, tx[p].step # "idle"
  PROVE  \E q \in Procs : tx[q].step # "idle" /\ (Unblocked(q) \/ Deadlocked(q))
<1>1. ASSUME NEW q \in Procs, tx[q].step = "capLocked"
      PROVE  \E x \in Procs : tx[x].step # "idle" /\ (Unblocked(x) \/ Deadlocked(x))
  <2>1. CASE Unblocked(q) BY <1>1, <2>1
  <2>2. CASE ~Unblocked(q)
    <3>1. PICK x \in Procs : BlockedBy(q, x) BY <2>2 DEF Unblocked
    <3>2. tx[x].step = "appLocked" /\ tx[x].app = tx[q].app
      BY <1>1, <3>1, WantedByEntry, OwnedRows DEF BlockedBy, HasEntry
    <3>3. CASE Unblocked(x) BY <3>2, <3>3
    <3>4. CASE ~Unblocked(x)
      <4>1. PICK y \in Procs : BlockedBy(x, y) BY <3>4 DEF Unblocked
      <4>2. PICK r : r \in Wants(x) /\ r \in Owns(y) BY <4>1 DEF BlockedBy
      <4>3. y = q
        <5>1. CASE r = CapRow
          BY <1>1, <4>2, <5>1, OwnedRows DEF IInv, CapExclusive
        <5>2. CASE r = EntryRow(tx[x].app)
          <6>1. HasEntry(y) /\ tx[y].app = tx[q].app BY <3>2, <4>2, <5>2, OwnedRows
          <6> QED BY <1>1, <6>1 DEF StoryInv, Holders, EntryExclusive, HasEntry
        <5> QED BY <3>2, <4>2, <5>1, <5>2, WantedByApplication
      <4> QED BY <3>1, <3>2, <4>1, <4>3 DEF Deadlocked
    <3> QED BY <3>3, <3>4
  <2> QED BY <2>1, <2>2
<1>2. ASSUME \A q \in Procs : tx[q].step # "capLocked", NEW q \in Procs, HasEntry(q)
      PROVE  Unblocked(q)
  <2>1. Wants(q) = {CapRow} BY <1>2, WantedByEntry DEF HasEntry
  <2> QED BY <1>2, <2>1, OwnedRows DEF Unblocked, BlockedBy
<1>3. ASSUME \A q \in Procs : ~HasEntry(q), NEW q \in Procs, tx[q].step = "appLocked"
      PROVE  Unblocked(q)
  BY <1>3, WantedByApplication, OwnedRows DEF Unblocked, BlockedBy, HasEntry
<1>4. ASSUME \A q \in Procs : ~HasEntry(q) /\ tx[q].step # "appLocked"
      PROVE  Unblocked(p)
  <2>1. \A q \in Procs : Owns(q) = {} BY <1>4 DEF Owns, HasEntry
  <2> QED BY <2>1 DEF Unblocked, BlockedBy
<1> QED BY <1>1, <1>2, <1>3, <1>4 DEF HasEntry

(* Two requests can wait for each other in one way only: a promotion that  *)
(* has the waiting-list entry and a withdrawal that has the application;   *)
(* of any other set of waiting requests one can go on.                     *)
THEOREM OnlyOneDeadlock == Spec => []OnlyPromotionAndWithdrawalDeadlock
<1>1. IInv /\ StoryInv => OnlyPromotionAndWithdrawalDeadlock
  BY MutualWait, SomeoneGoesOn DEF OnlyPromotionAndWithdrawalDeadlock
<1> QED BY <1>1, InvariantHolds, StoryHolds, PTL
=============================================================================
