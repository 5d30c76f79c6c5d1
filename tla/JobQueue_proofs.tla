---------------------------- MODULE JobQueue_proofs ----------------------------
(***************************************************************************)
(* The queue's guarantees for every number of workers and messages, every  *)
(* lease of at least one unit, every backoff and whatever the workers'     *)
(* clocks show.  The inductive invariant says where the tokens of late     *)
(* owners lie: a lease before the token of the current owner, or before    *)
(* the time at which a requeued message may be claimed again.              *)
(*                                                                         *)
(* Then: every behaviour of the loops is a behaviour of the queue, for     *)
(* every number of tenants and every schedule of the loops, so what holds  *)
(* of the queue holds under the loops as well.                             *)
(***************************************************************************)
EXTENDS WorkerLoops, TLAPS

(* A message in PROCESSING has one token; one not yet there has no attempts. *)
OneToken ==
  \A m \in Messages :
    /\ row[m].status = "PROCESSING" => \E c \in Int : row[m].claimedAt = {c}
    /\ row[m].status = "ABSENT" => row[m].attempts = 0

JobsAreReal ==
  \A w \in Workers :
    Busy(w) => /\ row[job[w].msg].status # "ABSENT"
               /\ job[w].claimedAt <= Clock(w)
               /\ job[w].attempts \in Nat \ {0}
               /\ job[w].step = "handled" => job[w].msg \in handled

(* Late owners are at least a lease behind. *)
LateOwners ==
  \A w \in Workers : Busy(w) =>
    LET r == row[job[w].msg]
    IN  /\ r.status = "PENDING" => job[w].claimedAt + Lease <= r.availableAt
        /\ r.status = "PROCESSING" =>
             \A c \in r.claimedAt :
               \/ job[w].claimedAt = c /\ job[w].attempts = r.attempts
               \/ job[w].claimedAt + Lease <= c

IInv ==
  /\ TypeOK
  /\ OneToken
  /\ JobsAreReal
  /\ LateOwners
  /\ OwnersAreALeaseApart
  /\ SentWasHandled
  /\ RetriesAreUsed

LEMMA NoJobTyped == NoJob \in Job
<1>1. (CHOOSE m \in Messages : TRUE) \in Messages
  BY ConstantsAssumption
<1> QED
  BY <1>1 DEF NoJob, Job

LEMMA NoJobIdle == NoJob.step = "idle"
  BY DEF NoJob

LEMMA InitHolds == Init => IInv
<1> SUFFICES ASSUME Init PROVE IInv
  OBVIOUS
<1>1. TypeOK
  BY NoJobTyped, ConstantsAssumption DEF Init, TypeOK, Row, NoTime
<1>2. \A w \in Workers : ~Busy(w)
  BY NoJobIdle DEF Init, Busy
<1>3. \A m \in Messages : row[m].status = "ABSENT" /\ row[m].attempts = 0
  BY DEF Init
<1> QED
  BY <1>1, <1>2, <1>3 DEF IInv, OneToken, JobsAreReal, LateOwners, OwnersAreALeaseApart,
                          At, SentWasHandled, RetriesAreUsed

(* What the types say of a message and of a worker's hand. *)
LEMMA Typed ==
  ASSUME TypeOK
  PROVE  /\ \A m \in Messages : /\ row[m] \in Row
                                /\ row[m].availableAt \in Int
                                /\ row[m].attempts \in Nat
                                /\ row[m].claimedAt \subseteq Int
         /\ \A w \in Workers : /\ job[w] \in Job
                               /\ job[w].msg \in Messages
                               /\ job[w].claimedAt \in Int
                               /\ job[w].attempts \in Nat
                               /\ Clock(w) \in Int
         /\ now \in Nat
         /\ Lease \in Nat \ {0}
<1>1. \A m \in Messages : row[m] \in Row
  BY DEF TypeOK
<1>2. \A w \in Workers : job[w] \in Job
  BY DEF TypeOK
<1>3. \A w \in Workers : skew[w] \in Int
  BY ConstantsAssumption DEF TypeOK
<1>4. \A m \in Messages : /\ row[m].availableAt \in Int
                          /\ row[m].attempts \in Nat
                          /\ row[m].claimedAt \subseteq Int
  BY <1>1 DEF Row
<1>5. \A w \in Workers : /\ job[w].msg \in Messages
                         /\ job[w].claimedAt \in Int
                         /\ job[w].attempts \in Nat
  BY <1>2 DEF Job
<1>6. now \in Nat /\ Lease \in Nat \ {0}
  BY ConstantsAssumption DEF TypeOK
<1>7. ASSUME NEW w \in Workers PROVE Clock(w) \in Int
  <2>1. skew[w] \in Int /\ now \in Int
    BY <1>3, <1>6
  <2> QED
    BY <2>1 DEF Clock
<1> QED
  BY <1>1, <1>2, <1>4, <1>5, <1>6, <1>7

LEMMA EnqueueKeeps ==
  ASSUME NEW m \in Messages, NEW t \in now .. now + 1, IInv, Enqueue(m, t)
  PROVE  IInv'
<1> USE DEF IInv
<1> DEFINE r == [row[m] EXCEPT !.status = "PENDING", !.availableAt = t]
<1>1. /\ row[m].status = "ABSENT"
      /\ row' = [row EXCEPT ![m] = r]
      /\ UNCHANGED <<now, skew, job, handled, crashes>>
  BY DEF Enqueue
<1>2. t \in Int
  BY Typed
<1>3. /\ r \in Row
      /\ r.status = "PENDING"
      /\ r.attempts = row[m].attempts
  BY <1>2, Typed DEF Row
<1>4. /\ row'[m].status = "PENDING"
      /\ row'[m].attempts = 0
      /\ \A n \in Messages : n # m => row'[n] = row[n]
      /\ row' \in [Messages -> Row]
  <2> HIDE DEF r
  <2> QED
    BY <1>1, <1>3 DEF TypeOK, OneToken
<1>5. TypeOK'
  BY <1>1, <1>4 DEF TypeOK
<1>6. OneToken' /\ SentWasHandled' /\ RetriesAreUsed'
  BY <1>1, <1>4, ConstantsAssumption DEF OneToken, SentWasHandled, RetriesAreUsed
<1>7. \A w \in Workers : Busy(w) => job[w].msg # m
  BY <1>1 DEF JobsAreReal
<1>8. JobsAreReal' /\ LateOwners'
  BY <1>1, <1>4, <1>7, Typed DEF JobsAreReal, LateOwners, Busy, Clock
<1>9. OwnersAreALeaseApart'
  BY <1>1 DEF OwnersAreALeaseApart, At, Busy
<1> QED
  BY <1>5, <1>6, <1>8, <1>9

LEMMA ClaimKeeps ==
  ASSUME NEW w \in Workers, NEW m \in Messages, IInv, Claim(w, m)
  PROVE  IInv'
<1> USE DEF IInv
<1> DEFINE t == Clock(w)
           r == [row[m] EXCEPT !.status = "PROCESSING", !.claimedAt = {t}, !.attempts = @ + 1]
           j == [msg |-> m, claimedAt |-> t, attempts |-> row[m].attempts + 1,
                 step |-> "claimed"]
<1>1. /\ ~Busy(w)
      /\ Due(m, t)
      /\ row' = [row EXCEPT ![m] = r]
      /\ job' = [job EXCEPT ![w] = j]
      /\ UNCHANGED <<now, skew, handled, crashes>>
  BY DEF Claim
<1>2. t \in Int /\ row[m].attempts \in Nat /\ Lease \in Nat \ {0}
  BY Typed
<1>a. /\ r \in Row
      /\ r.status = "PROCESSING" /\ r.claimedAt = {t} /\ r.attempts = row[m].attempts + 1
  <2> HIDE DEF t
  <2>1. row[m] \in Row /\ {t} \subseteq Int /\ row[m].attempts + 1 \in Nat
    BY <1>2, Typed
  <2> QED
    BY <2>1 DEF Row
<1>b. /\ j \in Job
      /\ j.msg = m /\ j.claimedAt = t /\ j.attempts = row[m].attempts + 1
      /\ j.step = "claimed"
  <2> HIDE DEF t
  <2>1. row[m].attempts + 1 \in Nat
    BY <1>2
  <2> QED
    BY <1>2, <2>1 DEF Job
<1>3. /\ r \in Row
      /\ r.status = "PROCESSING" /\ r.claimedAt = {t} /\ r.attempts = row[m].attempts + 1
      /\ j \in Job
      /\ j.msg = m /\ j.claimedAt = t /\ j.attempts = row[m].attempts + 1
      /\ j.step = "claimed"
  BY <1>a, <1>b
<1>4. /\ row'[m] = r
      /\ \A n \in Messages : n # m => row'[n] = row[n]
      /\ row' \in [Messages -> Row]
      /\ job'[w] = j
      /\ \A x \in Workers : x # w => job'[x] = job[x]
      /\ job' \in [Workers -> Job]
  <2> HIDE DEF r, j
  <2> QED
    BY <1>1, <1>3 DEF TypeOK
<1> HIDE DEF r, j, t
<1>5. TypeOK'
  BY <1>1, <1>4 DEF TypeOK
<1>6. row[m].status \in {"PENDING", "PROCESSING"}
  BY <1>1 DEF Due
<1>7. OneToken' /\ SentWasHandled' /\ RetriesAreUsed'
  BY <1>1, <1>2, <1>3, <1>4 DEF OneToken, SentWasHandled, RetriesAreUsed
<1>8. \A x \in Workers : Clock(x)' = Clock(x)
  BY <1>1 DEF Clock
<1>9. \A x \in Workers : x # w => (Busy(x)' <=> Busy(x))
  BY <1>4 DEF Busy
<1>10. \A x \in Workers : At(x, m) => job[x].claimedAt + Lease <= t
  <2> SUFFICES ASSUME NEW x \in Workers, At(x, m) PROVE job[x].claimedAt + Lease <= t
    OBVIOUS
  <2>1. Busy(x) /\ job[x].msg = m /\ job[x].claimedAt \in Int /\ row[m].availableAt \in Int
    BY Typed DEF At
  <2>2. CASE row[m].status = "PENDING"
    BY <1>1, <1>2, <2>1, <2>2 DEF Due, LateOwners
  <2>3. CASE row[m].status = "PROCESSING"
    <3>1. PICK c \in Int : row[m].claimedAt = {c}
      BY <2>3 DEF OneToken
    <3>2. c <= t - Lease
      BY <1>1, <2>3, <3>1 DEF Due
    <3>3. job[x].claimedAt = c \/ job[x].claimedAt + Lease <= c
      BY <2>1, <2>3, <3>1 DEF LateOwners
    <3> QED
      BY <1>2, <2>1, <3>1, <3>2, <3>3
  <2> QED
    BY <1>6, <2>2, <2>3
<1>11. JobsAreReal'
  <2> SUFFICES ASSUME NEW x \in Workers, Busy(x)'
               PROVE  /\ row'[job'[x].msg].status # "ABSENT"
                      /\ job'[x].claimedAt <= Clock(x)'
                      /\ job'[x].attempts \in Nat \ {0}
                      /\ job'[x].step = "handled" => job'[x].msg \in handled'
    BY DEF JobsAreReal
  <2>1. CASE x = w
    BY <2>1, <1>2, <1>3, <1>4, <1>8 DEF t
  <2>2. CASE x # w
    BY <2>2, <1>1, <1>3, <1>4, <1>8, <1>9, Typed DEF JobsAreReal
  <2> QED
    BY <2>1, <2>2
<1>12. LateOwners'
  <2> SUFFICES ASSUME NEW x \in Workers, Busy(x)'
               PROVE  LET q == row'[job'[x].msg]
                      IN  /\ q.status = "PENDING" => job'[x].claimedAt + Lease <= q.availableAt
                          /\ q.status = "PROCESSING" =>
                               \A c \in q.claimedAt :
                                 \/ job'[x].claimedAt = c /\ job'[x].attempts = q.attempts
                                 \/ job'[x].claimedAt + Lease <= c
    BY DEF LateOwners
  <2>1. CASE x = w
    BY <2>1, <1>3, <1>4
  <2>2. CASE x # w /\ job[x].msg = m
    BY <2>2, <1>3, <1>4, <1>9, <1>10 DEF At
  <2>3. CASE x # w /\ job[x].msg # m
    BY <2>3, <1>4, <1>9, Typed DEF LateOwners
  <2> QED
    BY <2>1, <2>2, <2>3
<1>13. OwnersAreALeaseApart'
  <2> SUFFICES ASSUME NEW n \in Messages, NEW x \in Workers, NEW y \in Workers,
                      At(x, n)', At(y, n)', x # y
               PROVE  Apart(job'[x].claimedAt, job'[y].claimedAt)
    BY DEF OwnersAreALeaseApart
  <2>1. CASE x = w
    BY <2>1, <1>3, <1>4, <1>9, <1>10 DEF At, Apart
  <2>2. CASE y = w
    BY <2>2, <1>3, <1>4, <1>9, <1>10 DEF At, Apart
  <2>3. CASE x # w /\ y # w
    BY <2>3, <1>4, <1>9 DEF At, OwnersAreALeaseApart
  <2> QED
    BY <2>1, <2>2, <2>3
<1> QED
  BY <1>5, <1>7, <1>11, <1>12, <1>13
(* A worker's hand after a step that claims nothing: empty, or at the same
   message with the same token. *)
SameHand(w) ==
  /\ job' \in [Workers -> Job]
  /\ \A x \in Workers : x # w => job'[x] = job[x]
  /\ Busy(w)' => /\ Busy(w)
                 /\ job'[w].msg = job[w].msg
                 /\ job'[w].claimedAt = job[w].claimedAt
                 /\ job'[w].attempts = job[w].attempts
                 /\ job'[w].step = "handled" => job[w].msg \in handled'

LEMMA HandFacts ==
  ASSUME NEW w \in Workers, IInv, SameHand(w), handled \subseteq handled'
  PROVE  \A x \in Workers :
           Busy(x)' => /\ Busy(x)
                       /\ job'[x].msg = job[x].msg
                       /\ job'[x].claimedAt = job[x].claimedAt
                       /\ job'[x].attempts = job[x].attempts
                       /\ job'[x].step = "handled" => job[x].msg \in handled'
  BY DEF SameHand, Busy, IInv, JobsAreReal

(* Handle, Crash, and whatever a worker does that no longer owns its message. *)
LEMMA HandKeeps ==
  ASSUME NEW w \in Workers, IInv, SameHand(w), handled \subseteq handled',
         handled' \subseteq Messages, crashes' \in Nat, UNCHANGED <<now, skew, row>>
  PROVE  IInv'
<1> USE DEF IInv
<1>1. \A x \in Workers :
        Busy(x)' => /\ Busy(x)
                    /\ job'[x].msg = job[x].msg
                    /\ job'[x].claimedAt = job[x].claimedAt
                    /\ job'[x].attempts = job[x].attempts
                    /\ job'[x].step = "handled" => job[x].msg \in handled'
  BY HandFacts
<1>2. TypeOK'
  BY DEF TypeOK, SameHand
<1>3. OneToken' /\ SentWasHandled' /\ RetriesAreUsed'
  BY DEF OneToken, SentWasHandled, RetriesAreUsed
<1>4. \A x \in Workers : Clock(x)' = Clock(x)
  BY DEF Clock
<1>5. JobsAreReal'
  BY <1>1, <1>4 DEF JobsAreReal
<1>6. LateOwners'
  BY <1>1 DEF LateOwners
<1>7. OwnersAreALeaseApart'
  BY <1>1 DEF OwnersAreALeaseApart, At
<1> QED
  BY <1>2, <1>3, <1>5, <1>6, <1>7

(* The owner settles or requeues its message. *)
LEMMA OwnerKeeps ==
  ASSUME NEW w \in Workers, IInv, Busy(w), Owns(w), SameHand(w), NEW f \in Row,
         row' = [row EXCEPT ![job[w].msg] = f],
         UNCHANGED <<now, skew, handled>>, crashes' \in Nat,
         f.status \in {"SENT", "FAILED", "PENDING"},
         f.status = "SENT" => job[w].msg \in handled,
         f.status = "FAILED" => f.attempts >= MaxAttempts \/ job[w].msg \in Invalid,
         f.status = "PENDING" => /\ f.attempts < MaxAttempts
                                 /\ Clock(w) <= f.availableAt
                                 /\ ~Busy(w)'
  PROVE  IInv'
<1> USE DEF IInv
<1> DEFINE m == job[w].msg
<1>1. \A x \in Workers :
        Busy(x)' => /\ Busy(x)
                    /\ job'[x].msg = job[x].msg
                    /\ job'[x].claimedAt = job[x].claimedAt
                    /\ job'[x].attempts = job[x].attempts
                    /\ job'[x].step = "handled" => job[x].msg \in handled'
  BY HandFacts
<1>2. m \in Messages
  BY Typed
<1>3. /\ row'[m] = f
      /\ \A n \in Messages : n # m => row'[n] = row[n]
      /\ row' \in [Messages -> Row]
  BY <1>2 DEF TypeOK
<1>4. TypeOK'
  BY <1>3 DEF TypeOK, SameHand
<1>5. OneToken' /\ SentWasHandled' /\ RetriesAreUsed'
  BY <1>2, <1>3 DEF OneToken, SentWasHandled, RetriesAreUsed
<1>6. \A x \in Workers : Clock(x)' = Clock(x)
  BY DEF Clock
<1>7. JobsAreReal'
  <2> SUFFICES ASSUME NEW x \in Workers, Busy(x)'
               PROVE  /\ row'[job'[x].msg].status # "ABSENT"
                      /\ job'[x].claimedAt <= Clock(x)'
                      /\ job'[x].attempts \in Nat \ {0}
                      /\ job'[x].step = "handled" => job'[x].msg \in handled'
    BY DEF JobsAreReal
  <2>1. job[x].msg \in Messages
    BY Typed
  <2> QED
    BY <1>1, <1>3, <1>6, <2>1 DEF JobsAreReal
<1>8. OwnersAreALeaseApart'
  BY <1>1 DEF OwnersAreALeaseApart, At
<1>9. LateOwners'
  <2> SUFFICES ASSUME NEW x \in Workers, Busy(x)'
               PROVE  LET q == row'[job'[x].msg]
                      IN  /\ q.status = "PENDING" => job'[x].claimedAt + Lease <= q.availableAt
                          /\ q.status = "PROCESSING" =>
                               \A c \in q.claimedAt :
                                 \/ job'[x].claimedAt = c /\ job'[x].attempts = q.attempts
                                 \/ job'[x].claimedAt + Lease <= c
    BY DEF LateOwners
  <2>1. Busy(x) /\ job[x].msg \in Messages
    BY <1>1, Typed
  <2>2. CASE job[x].msg # m
    BY <1>1, <1>3, <2>1, <2>2 DEF LateOwners
  <2>3. CASE job[x].msg = m /\ f.status # "PENDING"
    BY <1>1, <1>3, <2>1, <2>3
  <2>4. CASE job[x].msg = m /\ f.status = "PENDING"
    <3>1. x # w
      BY <2>4
    <3>2. Apart(job[x].claimedAt, job[w].claimedAt)
      BY <2>1, <2>4, <3>1 DEF OwnersAreALeaseApart, At
    <3>3. /\ row[m].status = "PROCESSING"
          /\ row[m].claimedAt = {job[w].claimedAt}
      BY DEF Owns
    <3>4. \/ job[x].claimedAt = job[w].claimedAt
          \/ job[x].claimedAt + Lease <= job[w].claimedAt
      BY <2>1, <2>4, <3>3 DEF LateOwners
    <3>5. job[x].claimedAt \in Int /\ job[w].claimedAt \in Int /\ Lease \in Nat \ {0}
          /\ Clock(w) \in Int /\ f.availableAt \in Int
      BY Typed DEF Row
    <3>6. job[x].claimedAt + Lease <= job[w].claimedAt
      BY <3>2, <3>4, <3>5 DEF Apart
    <3>7. job[w].claimedAt <= Clock(w) /\ Clock(w) <= f.availableAt
      BY <2>4 DEF JobsAreReal
    <3> QED
      BY <1>1, <1>3, <2>4, <3>5, <3>6, <3>7
  <2> QED
    BY <2>2, <2>3, <2>4
<1> QED
  BY <1>4, <1>5, <1>7, <1>8, <1>9

(* The owner's snapshot of the attempts is the row's. *)
LEMMA OwnerCounts ==
  ASSUME NEW w \in Workers, IInv, Busy(w), Owns(w)
  PROVE  job[w].attempts = row[job[w].msg].attempts
<1>1. /\ row[job[w].msg].status = "PROCESSING"
      /\ row[job[w].msg].claimedAt = {job[w].claimedAt}
  BY DEF Owns
<1>2. job[w].claimedAt \in Int /\ Lease \in Nat \ {0}
  BY Typed DEF IInv
<1>3. ~(job[w].claimedAt + Lease <= job[w].claimedAt)
  BY <1>2
<1> QED
  BY <1>1, <1>3 DEF IInv, LateOwners

LEMMA HandleKeeps ==
  ASSUME NEW w \in Workers, IInv, Handle(w) PROVE IInv'
<1> USE DEF IInv
<1>1. Busy(w) /\ job[w].msg \in Messages /\ job[w] \in Job
  BY Typed DEF Handle, Busy
<1>2. CASE job' = [job EXCEPT ![w].step = "handled"] /\ handled' = handled \cup {job[w].msg}
  <2> DEFINE j == [job[w] EXCEPT !.step = "handled"]
  <2>1. j \in Job /\ j.msg = job[w].msg /\ j.claimedAt = job[w].claimedAt
        /\ j.attempts = job[w].attempts
    BY <1>1 DEF Job
  <2>2. job' = [job EXCEPT ![w] = j]
    BY <1>2
  <2>3. SameHand(w)
    <3> HIDE DEF j
    <3> QED
      BY <1>1, <1>2, <2>1, <2>2 DEF SameHand, TypeOK
  <2> QED
    BY <1>1, <1>2, <2>3, HandKeeps DEF Handle, TypeOK
<1>3. CASE job' = [job EXCEPT ![w].step = "failed"] /\ handled' = handled
  <2> DEFINE j == [job[w] EXCEPT !.step = "failed"]
  <2>1. j \in Job /\ j.msg = job[w].msg /\ j.claimedAt = job[w].claimedAt
        /\ j.attempts = job[w].attempts /\ j.step = "failed"
    BY <1>1 DEF Job
  <2>2. job' = [job EXCEPT ![w] = j]
    BY <1>3
  <2>3. SameHand(w)
    <3> HIDE DEF j
    <3> QED
      BY <1>1, <1>3, <2>1, <2>2 DEF SameHand, TypeOK
  <2> QED
    BY <1>1, <1>3, <2>3, HandKeeps DEF Handle, TypeOK
<1> QED
  BY <1>2, <1>3 DEF Handle

(* An empty hand is a hand that claims nothing. *)
LEMMA EmptyHand ==
  ASSUME NEW w \in Workers, IInv, job' = [job EXCEPT ![w] = NoJob]
  PROVE  SameHand(w) /\ ~Busy(w)'
<1>1. job'[w].step = "idle"
  BY NoJobIdle DEF IInv, TypeOK
<1> QED
  BY <1>1, NoJobTyped DEF SameHand, Busy, IInv, TypeOK

LEMMA MarkSentKeeps ==
  ASSUME NEW w \in Workers, IInv, MarkSent(w) PROVE IInv'
<1> USE DEF IInv
<1> DEFINE f == [row[job[w].msg] EXCEPT !.status = "SENT"]
<1>1. /\ Busy(w) /\ job[w].msg \in Messages /\ job[w] \in Job /\ row[job[w].msg] \in Row
      /\ job[w].step = "handled" /\ job[w].msg \in handled
      /\ UNCHANGED <<now, skew, handled>>
  BY Typed DEF MarkSent, Busy, JobsAreReal
<1>2. SameHand(w) /\ crashes' \in Nat
  <2>1. CASE job' = [job EXCEPT ![w] = NoJob] /\ crashes' = crashes
    BY <2>1, EmptyHand DEF TypeOK
  <2>2. CASE job' = [job EXCEPT ![w].step = "failed"] /\ crashes' = crashes + 1
    <3> DEFINE j == [job[w] EXCEPT !.step = "failed"]
    <3>1. j \in Job /\ j.msg = job[w].msg /\ j.claimedAt = job[w].claimedAt
          /\ j.attempts = job[w].attempts /\ j.step = "failed"
      BY <1>1 DEF Job
    <3>2. job' = [job EXCEPT ![w] = j]
      BY <2>2
    <3> HIDE DEF j
    <3> QED
      BY <1>1, <2>2, <3>1, <3>2 DEF SameHand, TypeOK
  <2> QED
    BY <2>1, <2>2 DEF MarkSent
<1>3. f \in Row /\ f.status = "SENT"
  BY <1>1 DEF Row
<1>4. row' = IF Owns(w) THEN [row EXCEPT ![job[w].msg] = f] ELSE row
  BY DEF MarkSent, Settle
<1> HIDE DEF f
<1>5. CASE Owns(w)
  BY <1>1, <1>2, <1>3, <1>4, <1>5, OwnerKeeps
<1>6. CASE ~Owns(w)
  BY <1>1, <1>2, <1>4, <1>6, HandKeeps DEF TypeOK
<1> QED
  BY <1>5, <1>6

LEMMA MarkFailedKeeps ==
  ASSUME NEW w \in Workers, IInv, MarkFailed(w) PROVE IInv'
<1> USE DEF IInv
<1> DEFINE f == [row[job[w].msg] EXCEPT !.status = "FAILED"]
<1>1. /\ Busy(w) /\ job[w].msg \in Messages /\ row[job[w].msg] \in Row
      /\ UNCHANGED <<now, skew, handled, crashes>>
  BY Typed DEF MarkFailed, Busy
<1>2. SameHand(w)
  BY EmptyHand DEF MarkFailed
<1>3. f \in Row /\ f.status = "FAILED" /\ f.attempts = row[job[w].msg].attempts
  BY <1>1 DEF Row
<1>4. row' = IF Owns(w) THEN [row EXCEPT ![job[w].msg] = f] ELSE row
  BY DEF MarkFailed, Settle
<1> HIDE DEF f
<1>5. CASE Owns(w)
  <2>1. f.attempts >= MaxAttempts \/ job[w].msg \in Invalid
    BY <1>1, <1>3, <1>5, OwnerCounts DEF MarkFailed, GivesUp
  <2> QED
    BY <1>1, <1>2, <1>3, <1>4, <1>5, <2>1, OwnerKeeps DEF TypeOK
<1>6. CASE ~Owns(w)
  BY <1>1, <1>2, <1>4, <1>6, HandKeeps DEF TypeOK
<1> QED
  BY <1>5, <1>6

LEMMA RequeueKeeps ==
  ASSUME NEW w \in Workers, IInv, RequeueAfterFailure(w) PROVE IInv'
<1> USE DEF IInv
<1> DEFINE t == Clock(w) + BackoffMs(job[w].attempts)
           f == [row[job[w].msg] EXCEPT !.status = "PENDING", !.claimedAt = NoTime,
                                        !.availableAt = t]
<1>1. /\ Busy(w) /\ job[w].msg \in Messages /\ row[job[w].msg] \in Row
      /\ UNCHANGED <<now, skew, handled, crashes>>
  BY Typed DEF RequeueAfterFailure, Busy
<1>2. SameHand(w) /\ ~Busy(w)'
  BY EmptyHand DEF RequeueAfterFailure
<1>3. job[w].attempts \in Nat \ {0} /\ job[w].attempts < MaxAttempts
  <2>1. job[w].attempts \in Nat \ {0}
    BY <1>1 DEF JobsAreReal
  <2> QED
    BY <2>1, ConstantsAssumption DEF RequeueAfterFailure, GivesUp
<1>4. BackoffMs(job[w].attempts) \in Nat
  <2>1. job[w].attempts \in 1 .. MaxAttempts
    BY <1>3, ConstantsAssumption
  <2> QED
    BY <2>1, BackoffAssumption
<1>5. t \in Int /\ Clock(w) <= t
  <2>1. Clock(w) \in Int
    BY Typed
  <2> QED
    BY <1>4, <2>1
<1>6. row' = IF Owns(w) THEN [row EXCEPT ![job[w].msg] = f] ELSE row
  BY DEF RequeueAfterFailure, Settle
<1> HIDE DEF t
<1>7. /\ f \in Row /\ f.status = "PENDING" /\ f.attempts = row[job[w].msg].attempts
      /\ f.availableAt = t
  BY <1>1, <1>5 DEF Row, NoTime
<1> HIDE DEF f
<1>8. CASE Owns(w)
  <2>1. f.attempts < MaxAttempts
    BY <1>1, <1>3, <1>7, <1>8, OwnerCounts
  <2> QED
    BY <1>1, <1>2, <1>5, <1>6, <1>7, <1>8, <2>1, OwnerKeeps DEF TypeOK
<1>9. CASE ~Owns(w)
  BY <1>1, <1>2, <1>6, <1>9, HandKeeps DEF TypeOK
<1> QED
  BY <1>8, <1>9

LEMMA CrashKeeps ==
  ASSUME NEW w \in Workers, IInv, Crash(w) PROVE IInv'
<1>1. SameHand(w)
  BY EmptyHand DEF Crash
<1> QED
  BY <1>1, HandKeeps DEF Crash, IInv, TypeOK

LEMMA TickKeeps == ASSUME IInv, Tick PROVE IInv'
<1> USE DEF IInv
<1>1. TypeOK' /\ OneToken' /\ SentWasHandled' /\ RetriesAreUsed'
  BY DEF Tick, TypeOK, OneToken, SentWasHandled, RetriesAreUsed
<1>2. LateOwners' /\ OwnersAreALeaseApart'
  BY DEF Tick, LateOwners, OwnersAreALeaseApart, At, Busy
<1>3. ASSUME NEW w \in Workers, Busy(w) PROVE job[w].claimedAt <= Clock(w)'
  <2>1. job[w].claimedAt \in Int /\ job[w].claimedAt <= Clock(w)
    BY <1>3, Typed DEF JobsAreReal
  <2>2. now \in Int /\ skew[w] \in Int
    <3>1. TypeOK
      OBVIOUS
    <3>2. skew[w] \in Skews /\ now \in Nat
      BY <3>1 DEF TypeOK
    <3>3. skew[w] \in Int
      BY <3>2, ConstantsAssumption
    <3> QED
      BY <3>2, <3>3
  <2> QED
    BY <2>1, <2>2 DEF Clock, Tick
<1>4. JobsAreReal'
  BY <1>3 DEF Tick, JobsAreReal, Busy
<1> QED
  BY <1>1, <1>2, <1>4

LEMMA StepHolds == ASSUME IInv, [Next]_vars PROVE IInv'
<1>1. ASSUME NEW m \in Messages, NEW t \in now .. now + 1, Enqueue(m, t) PROVE IInv'
  BY <1>1, EnqueueKeeps
<1>2. ASSUME NEW w \in Workers, NEW m \in Messages, Claim(w, m) PROVE IInv'
  BY <1>2, ClaimKeeps
<1>3. ASSUME NEW w \in Workers,
             Handle(w) \/ MarkSent(w) \/ MarkFailed(w) \/ RequeueAfterFailure(w) \/ Crash(w)
      PROVE  IInv'
  BY <1>3, HandleKeeps, MarkSentKeeps, MarkFailedKeeps, RequeueKeeps, CrashKeeps
<1>4. CASE Tick
  BY <1>4, TickKeeps
<1>5. CASE UNCHANGED vars
  BY <1>5 DEF vars, IInv, TypeOK, OneToken, JobsAreReal, LateOwners, OwnersAreALeaseApart,
              At, Busy, Clock, SentWasHandled, RetriesAreUsed
<1> QED
  BY <1>1, <1>2, <1>3, <1>4, <1>5 DEF Next

LEMMA Inductive == Spec => []IInv
<1>1. IInv /\ [Next]_vars => IInv'
  BY StepHolds
<1> QED
  BY <1>1, InitHolds, PTL DEF Spec

(* Rows, hands and clocks keep their shape. *)
THEOREM QueueTypes == Spec => []TypeOK
<1>1. IInv => TypeOK
  BY DEF IInv
<1> QED
  BY <1>1, Inductive, PTL

(* Two owners of one message hold tokens at least a lease apart. *)
THEOREM TokensAreUnique == Spec => []OwnersAreALeaseApart
<1>1. IInv => OwnersAreALeaseApart
  BY DEF IInv
<1> QED
  BY <1>1, Inductive, PTL

(* A SENT message was handled; retries are used before a message fails. *)
THEOREM OutcomesAreEarned == Spec => [](SentWasHandled /\ RetriesAreUsed)
<1>1. IInv => SentWasHandled /\ RetriesAreUsed
  BY DEF IInv
<1> QED
  BY <1>1, Inductive, PTL

LEMMA SettlingTouchesOne ==
  ASSUME NEW w \in Workers, NEW f, NEW m \in Messages, IInv, Busy(w), Settle(w, f),
         row'[m] # row[m]
  PROVE  Owns(w) /\ m = job[w].msg
<1>1. row \in [Messages -> Row] /\ job[w].msg \in Messages
  BY Typed DEF IInv, TypeOK
<1> QED
  BY <1>1 DEF Settle

(* SENT and FAILED are final, whatever late owners do. *)
THEOREM SettledIsFinal == Spec => SettledStays
<1>1. ASSUME IInv, [Next]_vars, NEW m \in Messages, row[m].status \in {"SENT", "FAILED"}
      PROVE  row'[m] = row[m]
  <2>1. ASSUME NEW n \in Messages, NEW t \in now .. now + 1, Enqueue(n, t)
        PROVE  row'[m] = row[m]
    BY <1>1, <2>1 DEF Enqueue, IInv, TypeOK
  <2>2. ASSUME NEW w \in Workers, NEW n \in Messages, Claim(w, n) PROVE row'[m] = row[m]
    BY <1>1, <2>2 DEF Claim, Due, IInv, TypeOK
  <2>3. ASSUME NEW w \in Workers, MarkSent(w) \/ MarkFailed(w) \/ RequeueAfterFailure(w)
        PROVE  row'[m] = row[m]
    <3>1. Busy(w) /\ \E f : Settle(w, f)
      BY <2>3 DEF MarkSent, MarkFailed, RequeueAfterFailure, Busy
    <3>2. PICK f : Settle(w, f)
      BY <3>1
    <3> QED
      BY <1>1, <3>1, <3>2, SettlingTouchesOne DEF Owns
  <2>4. ASSUME NEW w \in Workers, Handle(w) \/ Crash(w) PROVE row'[m] = row[m]
    BY <2>4 DEF Handle, Crash
  <2>5. CASE Tick \/ UNCHANGED vars
    BY <2>5 DEF Tick, vars
  <2> QED
    BY <1>1, <2>1, <2>2, <2>3, <2>4, <2>5 DEF Next
<1>2. IInv /\ [Next]_vars =>
        [\A m \in Messages : row[m].status \in {"SENT", "FAILED"} => row'[m] = row[m]]_row
  BY <1>1
<1> QED
  BY <1>2, Inductive, PTL DEF Spec, SettledStays

(* Only the last owner takes a message out of PROCESSING. *)
THEOREM LastOwnerSettles == Spec => OnlyTheLastOwnerSettles
<1> DEFINE Last(m) ==
      \E w \in Workers : /\ At(w, m) /\ job'[w] # job[w]
                         /\ \A x \in Workers :
                              At(x, m) => job[x].claimedAt <= job[w].claimedAt
<1>1. ASSUME IInv, [Next]_vars, NEW m \in Messages,
             row[m].status = "PROCESSING", row'[m].status # "PROCESSING"
      PROVE  Last(m)
  <2>1. ASSUME NEW n \in Messages, NEW t \in now .. now + 1, Enqueue(n, t) PROVE FALSE
    BY <1>1, <2>1 DEF Enqueue, IInv, TypeOK
  <2>2. ASSUME NEW w \in Workers, NEW n \in Messages, Claim(w, n) PROVE FALSE
    <3>1. row \in [Messages -> Row]
      BY <1>1 DEF IInv, TypeOK
    <3>2. CASE n = m
      <4> DEFINE r == [row[m] EXCEPT !.status = "PROCESSING", !.claimedAt = {Clock(w)},
                                     !.attempts = @ + 1]
      <4>1. r.status = "PROCESSING"
        BY <3>1 DEF Row
      <4>2. row' = [row EXCEPT ![m] = r]
        BY <2>2, <3>2 DEF Claim
      <4> HIDE DEF r
      <4> QED
        BY <1>1, <3>1, <4>1, <4>2
    <3>3. CASE n # m
      BY <1>1, <2>2, <3>1, <3>3 DEF Claim
    <3> QED
      BY <3>2, <3>3
  <2>3. ASSUME NEW w \in Workers, MarkSent(w) \/ MarkFailed(w) \/ RequeueAfterFailure(w)
        PROVE  Last(m)
    <3>1. Busy(w) /\ \E f : Settle(w, f)
      BY <2>3 DEF MarkSent, MarkFailed, RequeueAfterFailure, Busy
    <3>2. PICK f : Settle(w, f)
      BY <3>1
    <3>3. Owns(w) /\ m = job[w].msg
      BY <1>1, <3>1, <3>2, SettlingTouchesOne
    <3>4. job'[w] # job[w]
      <4>1. job'[w].step # job[w].step
        <5>1. job \in [Workers -> Job] /\ job[w] \in Job
          BY <1>1 DEF IInv, TypeOK
        <5>2. CASE job' = [job EXCEPT ![w] = NoJob]
          BY <3>1, <5>1, <5>2, NoJobIdle DEF Busy
        <5>3. CASE MarkSent(w) /\ job' = [job EXCEPT ![w].step = "failed"]
          BY <5>1, <5>3 DEF MarkSent, Job
        <5> QED
          BY <2>3, <5>2, <5>3 DEF MarkSent, MarkFailed, RequeueAfterFailure
      <4> QED
        BY <4>1
    <3>5. ASSUME NEW x \in Workers, At(x, m) PROVE job[x].claimedAt <= job[w].claimedAt
      <4>1. /\ row[m].status = "PROCESSING" /\ row[m].claimedAt = {job[w].claimedAt}
            /\ Busy(x) /\ job[x].msg = m
        BY <3>3, <3>5 DEF Owns, At
      <4>2. \/ job[x].claimedAt = job[w].claimedAt
            \/ job[x].claimedAt + Lease <= job[w].claimedAt
        BY <1>1, <4>1 DEF IInv, LateOwners
      <4>3. job[x].claimedAt \in Int /\ job[w].claimedAt \in Int /\ Lease \in Nat \ {0}
        BY <1>1, Typed DEF IInv
      <4> QED
        BY <4>2, <4>3
    <3> QED
      BY <3>1, <3>3, <3>4, <3>5 DEF At
  <2>4. ASSUME NEW w \in Workers, Handle(w) \/ Crash(w) PROVE FALSE
    BY <1>1, <2>4 DEF Handle, Crash
  <2>5. CASE Tick \/ UNCHANGED vars
    BY <1>1, <2>5 DEF Tick, vars
  <2> QED
    BY <1>1, <2>1, <2>2, <2>3, <2>4, <2>5 DEF Next
<1>2. IInv /\ [Next]_vars =>
        [\A m \in Messages :
           row[m].status = "PROCESSING" /\ row'[m].status # "PROCESSING" => Last(m)]_row
  BY <1>1
<1> QED
  BY <1>2, Inductive, PTL DEF Spec, OnlyTheLastOwnerSettles

-----------------------------------------------------------------------------
(* The loops *)

(* A step of the loops is a step of the queue or leaves it alone. *)
LEMMA LoopStep == ASSUME [NextLoops]_loopVars PROVE [Next]_vars
<1>1. CASE \E m \in Messages, t \in now .. now + 1 : Schedule(m, t)
  BY <1>1 DEF Schedule, Next
<1>2. ASSUME NEW w \in Workers, Loop(w) \/ Stop(w) \/ Die(w) PROVE [Next]_vars
  <2>1. CASE \E m \in Messages : ProcessTenant(w, m)
    BY <2>1 DEF ProcessTenant, Next
  <2>2. CASE NextTenant(w) \/ Restart(w) \/ Stop(w)
    BY <2>2 DEF NextTenant, Restart, Stop
  <2>3. CASE Work(w)
    BY <2>3 DEF Work, Next
  <2>4. CASE Finish(w)
    BY <2>4 DEF Finish, Next
  <2>5. CASE Die(w)
    BY <2>5 DEF Die, Next
  <2> QED
    BY <1>2, <2>1, <2>2, <2>3, <2>4, <2>5 DEF Loop
<1>3. CASE PassTime
  BY <1>3 DEF PassTime, Next
<1>4. CASE UNCHANGED loopVars
  BY <1>4 DEF loopVars
<1> QED
  BY <1>1, <1>2, <1>3, <1>4 DEF NextLoops

(* The loops of pollOnce, with their rotation, signals and restarts,        *)
(* implement the queue of outbox.ts.                                         *)
THEOREM LoopsImplementQueue == LoopSpec => Spec
<1>1. InitLoops => Init
  BY DEF InitLoops
<1>2. [NextLoops]_loopVars => [Next]_vars
  BY LoopStep
<1> QED
  BY <1>1, <1>2, PTL DEF LoopSpec, Spec

(* Under the loops, too, two owners of a message are a lease apart. *)
THEOREM LoopOwners == LoopSpec => []OwnersAreALeaseApart
  BY LoopsImplementQueue, TokensAreUnique, PTL
================================================================================
