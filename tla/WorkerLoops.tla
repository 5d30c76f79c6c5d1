------------------------------ MODULE WorkerLoops ------------------------------
(***************************************************************************)
(* The loops that empty the queue of Outbox: run and pollOnce of the four  *)
(* workers of apps/worker/src/worker.ts, in a process that main.ts starts, *)
(* stops on a signal and ends when any of its loops fails.                 *)
(*                                                                         *)
(* A loop goes over the active tenants in the order of their ids and takes *)
(* one message at a time; after a message it starts again at the first     *)
(* tenant.  Each step is a step of Outbox or leaves the queue alone.       *)
(***************************************************************************)
EXTENDS Outbox

CONSTANTS
  LastTenant,  \* the active tenants are 1 .. LastTenant, in the order of their ids
  TenantOf,    \* the tenant of each message
  SlowUntil,   \* from then on handlers and polls are faster than the clock
  MaxStops     \* bound: signals, together with the crashes before them

ASSUME TenantsAssumption ==
  /\ LastTenant \in Nat \ {0}
  /\ TenantOf \in [Messages -> 1 .. LastTenant]
  /\ SlowUntil \in Nat /\ MaxStops \in Nat

VARIABLES
  turn,      \* the tenant each loop is at
  stopping,  \* loops that were told to stop
  stops      \* signals so far

loopVars == <<vars, turn, stopping, stops>>

InitLoops ==
  /\ Init
  /\ turn = [w \in Workers |-> 1]
  /\ stopping = {}
  /\ stops = 0

DueIn(tenant, w) == {m \in Messages : TenantOf[m] = tenant /\ Due(m, Clock(w))}

(* processTenant: a claim, if the tenant has something due. *)
ProcessTenant(w, m) ==
  /\ w \notin stopping
  /\ TenantOf[m] = turn[w]
  /\ Claim(w, m)
  /\ UNCHANGED <<turn, stopping, stops>>

NextTurn_First(tenant) == 1
NextTurn(tenant) == IF tenant = LastTenant THEN 1 ELSE tenant + 1

(* pollOnce goes on to the next tenant; run waits and polls again. *)
NextTenant(w) ==
  /\ w \notin stopping /\ ~Busy(w)
  /\ DueIn(turn[w], w) = {}
  /\ turn' = [turn EXCEPT ![w] = NextTurn(@)]
  /\ UNCHANGED <<vars, stopping, stops>>

(* The message is finished also when the loop was told to stop. *)
Work(w) == Handle(w) /\ UNCHANGED <<turn, stopping, stops>>
Finish(w) ==
  /\ MarkSent(w) \/ MarkFailed(w) \/ RequeueAfterFailure(w)
  /\ turn' = [turn EXCEPT ![w] = 1]
  /\ UNCHANGED <<stopping, stops>>

(* SIGINT or SIGTERM, or another loop of the process that failed. *)
Stop(w) ==
  /\ w \notin stopping /\ stops + crashes < MaxStops
  /\ stopping' = stopping \cup {w}
  /\ stops' = stops + 1
  /\ UNCHANGED <<vars, turn>>

(* The process ends with empty hands and another one starts. *)
Restart(w) ==
  /\ w \in stopping /\ ~Busy(w)
  /\ stopping' = stopping \ {w}
  /\ turn' = [turn EXCEPT ![w] = 1]
  /\ UNCHANGED <<vars, stops>>

(* It ends at any moment: killed, or an error in the catch block of a       *)
(* message or outside of it.                                                 *)
Die(w) ==
  /\ Crash(w)
  /\ turn' = [turn EXCEPT ![w] = 1]
  /\ stopping' = stopping \ {w}
  /\ UNCHANGED stops

InHand == \E w \in Workers : Busy(w) \/ w \in stopping \/ \E t \in 1 .. LastTenant : DueIn(t, w) # {}

PassTime ==
  /\ now >= SlowUntil => ~InHand
  /\ Tick
  /\ UNCHANGED <<turn, stopping, stops>>

Schedule(m, t) ==
  /\ now <= SlowUntil
  /\ Enqueue(m, t)
  /\ UNCHANGED <<turn, stopping, stops>>

Loop(w) == (\E m \in Messages : ProcessTenant(w, m)) \/ NextTenant(w) \/ Work(w) \/ Finish(w) \/ Restart(w)

NextLoops ==
  \/ \E m \in Messages, t \in now .. now + 1 : Schedule(m, t)
  \/ \E w \in Workers : Loop(w) \/ Stop(w) \/ Die(w)
  \/ PassTime

LoopSpec == InitLoops /\ [][NextLoops]_loopVars

(* A process that runs goes on, a handler returns, a stopped process is     *)
(* started again, and time passes.                                           *)
FairLoopSpec == LoopSpec /\ WF_loopVars(PassTime) /\ \A w \in Workers : WF_loopVars(Loop(w))

-----------------------------------------------------------------------------
(* Whatever the loops, crashes, signals, lost answers and clocks did while   *)
(* things were slow, every message of every tenant ends up SENT or FAILED.   *)
Settled(m) == row[m].status \in {"SENT", "FAILED"}
EveryMessageIsSettled ==
  \A m \in Messages : row[m].status = "PENDING" ~> Settled(m)

(* What the code does not keep (README, known deviations): a due message is  *)
(* not passed over by a second message of an earlier tenant.                 *)
EveryTenantHasItsTurn ==
  [][\A w \in Workers, m \in Messages :
       ProcessTenant(w, m) => \A n \in Messages : row[n].status = "PENDING" /\ row[n].availableAt < row[m].availableAt
                                                    => ~Due(n, Clock(w))]_loopVars
================================================================================
