-------------------------------- MODULE Outbox --------------------------------
(***************************************************************************)
(* The job queue of packages/database/src/outbox.ts and the loop the four  *)
(* workers of apps/worker/src/worker.ts share: claim under a lease, handle,*)
(* mark sent, requeue with backoff, give up.                               *)
(*                                                                         *)
(* Each worker reads its own clock, which may be ahead of or behind the    *)
(* others.  claimed_at is at once the lease and the token that lets only   *)
(* the last owner settle a message.  Which due message a claim takes is    *)
(* left open: SKIP LOCKED may pass over any of them.                       *)
(***************************************************************************)
EXTENDS Integers

CONSTANTS
  Workers,
  Messages,
  Invalid,      \* messages whose payload no handler accepts
  Lease,        \* leaseMs
  BaseBackoff,  \* baseBackoffMs
  MaxBackoff,   \* 24 hours
  MaxAttempts,
  Skews,        \* distances of the workers' clocks from the database's time
  MaxTime,      \* bound: the database's time
  MaxCrashes    \* bound: workers that die, and answers of the database that are lost

BackoffMs(attempts) ==
  LET delay == BaseBackoff * 2 ^ (attempts - 1)
  IN  IF delay < MaxBackoff THEN delay ELSE MaxBackoff

ASSUME ConstantsAssumption ==
  /\ Lease \in Nat \ {0}
  /\ MaxAttempts \in Nat \ {0}
  /\ Skews \subseteq Int
  /\ MaxTime \in Nat
  /\ MaxCrashes \in Nat
  /\ Messages # {} /\ Invalid \subseteq Messages
ASSUME BackoffAssumption == \A a \in 1 .. MaxAttempts : BackoffMs(a) \in Nat \ {0}

VARIABLES
  now,      \* the database's time
  skew,     \* distance of each worker's clock
  row,      \* outbox_messages
  job,      \* the message each worker is at
  handled,  \* messages some handler has completed
  crashes   \* crashes and lost answers so far

vars == <<now, skew, row, job, handled, crashes>>

NoTime == {}  \* claimed_at is NULL: an optional time is a set
NoJob == [msg |-> CHOOSE m \in Messages : TRUE, claimedAt |-> 0, attempts |-> 0,
          step |-> "idle"]
Busy(w) == job[w].step # "idle"
Clock(w) == now + skew[w]

Init ==
  /\ now = 0
  /\ skew \in [Workers -> Skews]
  /\ row = [m \in Messages |->
              [status |-> "ABSENT", availableAt |-> 0, claimedAt |-> NoTime, attempts |-> 0]]
  /\ job = [w \in Workers |-> NoJob]
  /\ handled = {}
  /\ crashes = 0

(* enqueue: at once, or at a later time such as the deadline of an offer. *)
Enqueue(m, t) ==
  /\ row[m].status = "ABSENT"
  /\ row' = [row EXCEPT ![m].status = "PENDING", ![m].availableAt = t]
  /\ UNCHANGED <<now, skew, job, handled, crashes>>

(* claimNext: due messages, and messages whose owner let the lease run out. *)
Due_NoLease(m, t) ==
  \/ row[m].status = "PENDING" /\ row[m].availableAt <= t
  \/ row[m].status = "PROCESSING" /\ \E c \in row[m].claimedAt : c <= t
Due(m, t) ==
  \/ row[m].status = "PENDING" /\ row[m].availableAt <= t
  \/ row[m].status = "PROCESSING" /\ \E c \in row[m].claimedAt : c <= t - Lease

Claim(w, m) ==
  /\ ~Busy(w)
  /\ Due(m, Clock(w))
  /\ row' = [row EXCEPT ![m].status = "PROCESSING", ![m].claimedAt = {Clock(w)},
                        ![m].attempts = @ + 1]
  /\ job' = [job EXCEPT ![w] = [msg |-> m, claimedAt |-> Clock(w),
                                attempts |-> row[m].attempts + 1, step |-> "claimed"]]
  /\ UNCHANGED <<now, skew, handled, crashes>>

(* The handler returns, or throws; it always throws on an invalid payload. *)
Handle(w) ==
  /\ job[w].step = "claimed"
  /\ \/ /\ job[w].msg \notin Invalid
        /\ job' = [job EXCEPT ![w].step = "handled"]
        /\ handled' = handled \cup {job[w].msg}
     \/ /\ job' = [job EXCEPT ![w].step = "failed"]
        /\ handled' = handled
  /\ UNCHANGED <<now, skew, row, crashes>>

(* The WHERE of markSent, markFailed and requeueAfterFailure. *)
Owns_NoFence(w) == row[job[w].msg].status = "PROCESSING"
Owns(w) == /\ row[job[w].msg].status = "PROCESSING"
           /\ row[job[w].msg].claimedAt = {job[w].claimedAt}

Settle(w, fields) ==
  row' = IF Owns(w) THEN [row EXCEPT ![job[w].msg] = fields] ELSE row

(* markSent stands in the try block: if its answer is lost, the catch block
   runs for a message that is SENT. *)
MarkSent(w) ==
  /\ job[w].step = "handled"
  /\ Settle(w, [row[job[w].msg] EXCEPT !.status = "SENT"])
  /\ \/ job' = [job EXCEPT ![w] = NoJob] /\ crashes' = crashes
     \/ /\ crashes < MaxCrashes
        /\ crashes' = crashes + 1
        /\ job' = [job EXCEPT ![w].step = "failed"]
  /\ UNCHANGED <<now, skew, handled>>

GivesUp_Late(w) == job[w].attempts > MaxAttempts
GivesUp(w) == job[w].msg \in Invalid \/ job[w].attempts >= MaxAttempts

MarkFailed(w) ==
  /\ job[w].step = "failed"
  /\ GivesUp(w)
  /\ Settle(w, [row[job[w].msg] EXCEPT !.status = "FAILED"])
  /\ job' = [job EXCEPT ![w] = NoJob]
  /\ UNCHANGED <<now, skew, handled, crashes>>

RequeueAfterFailure(w) ==
  /\ job[w].step = "failed"
  /\ ~GivesUp(w)
  /\ Settle(w, [row[job[w].msg] EXCEPT
                  !.status = "PENDING", !.claimedAt = NoTime,
                  !.availableAt = Clock(w) + BackoffMs(job[w].attempts)])
  /\ job' = [job EXCEPT ![w] = NoJob]
  /\ UNCHANGED <<now, skew, handled, crashes>>

(* The process ends at any moment; a new one starts with an empty hand. *)
Crash(w) ==
  /\ Busy(w)
  /\ crashes < MaxCrashes
  /\ crashes' = crashes + 1
  /\ job' = [job EXCEPT ![w] = NoJob]
  /\ UNCHANGED <<now, skew, row, handled>>

Tick ==
  /\ now < MaxTime
  /\ now' = now + 1
  /\ UNCHANGED <<skew, row, job, handled, crashes>>

Next ==
  \/ \E m \in Messages, t \in now .. now + 1 : Enqueue(m, t)
  \/ \E w \in Workers, m \in Messages : Claim(w, m)
  \/ \E w \in Workers :
       Handle(w) \/ MarkSent(w) \/ MarkFailed(w) \/ RequeueAfterFailure(w) \/ Crash(w)
  \/ Tick

Spec == Init /\ [][Next]_vars

-----------------------------------------------------------------------------
(* Rows, hands and clocks keep their shape. *)
Row == [status : {"ABSENT", "PENDING", "PROCESSING", "SENT", "FAILED"},
        availableAt : Int, claimedAt : SUBSET Int, attempts : Nat]
Job == [msg : Messages, claimedAt : Int, attempts : Nat,
        step : {"idle", "claimed", "handled", "failed"}]
TypeOK ==
  /\ now \in Nat
  /\ skew \in [Workers -> Skews]
  /\ row \in [Messages -> Row]
  /\ job \in [Workers -> Job]
  /\ handled \subseteq Messages
  /\ crashes \in Nat

(* Two workers at the same message always hold different tokens, a lease apart:
   late owners exist, but a token never lets two of them settle the message,
   whatever their clocks say. *)
At(w, m) == Busy(w) /\ job[w].msg = m
Apart(s, t) == s + Lease <= t \/ t + Lease <= s
OwnersAreALeaseApart ==
  \A m \in Messages : \A w, x \in Workers :
    At(w, m) /\ At(x, m) /\ w # x => Apart(job[w].claimedAt, job[x].claimedAt)

(* A message that is SENT has been handled by somebody to the end. *)
SentWasHandled == \A m \in Messages : row[m].status = "SENT" => m \in handled

(* A message waits only while it has attempts left, and fails only when it has
   used them up or can never succeed. *)
RetriesAreUsed ==
  \A m \in Messages :
    /\ row[m].status = "PENDING" => row[m].attempts < MaxAttempts
    /\ row[m].status = "FAILED" => row[m].attempts >= MaxAttempts \/ m \in Invalid

(* SENT and FAILED are final: a late owner, or a catch block after a markSent
   whose answer was lost, does not bring a message back. *)
SettledStays ==
  [][\A m \in Messages :
       row[m].status \in {"SENT", "FAILED"} => row'[m] = row[m]]_row

(* Only the worker that claimed a message last takes it out of PROCESSING. *)
OnlyTheLastOwnerSettles ==
  [][\A m \in Messages :
       row[m].status = "PROCESSING" /\ row'[m].status # "PROCESSING" =>
         \E w \in Workers : /\ At(w, m) /\ job'[w] # job[w]
                            /\ \A x \in Workers :
                                 At(x, m) => job[x].claimedAt <= job[w].claimedAt]_row

(* docs/e5/03: at most five attempts. *)
AttemptsAreBounded == \A m \in Messages : row[m].attempts <= MaxAttempts
=============================================================================
