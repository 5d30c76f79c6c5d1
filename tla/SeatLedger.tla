----------------------------- MODULE SeatLedger -----------------------------
(***************************************************************************)
(* What the capacity component promises for one offering, without          *)
(* applications, offers, locks or time: a ledger of seats.  A seat is      *)
(* granted once, while fewer seats are consumed than configured, and then  *)
(* either committed for good or released for good.  Every entry of the     *)
(* ledger advances its version by exactly one, which is what makes the     *)
(* version usable as an optimistic token ("expectedCapacityVersion").      *)
(***************************************************************************)
EXTENDS Integers, FiniteSets

CONSTANT Seats

VARIABLES
  cap,          \* configured capacity
  held,         \* reservations in state ACTIVE
  committed,    \* reservations in state COMMITTED
  released,     \* reservations in state RELEASED
  version       \* concurrency version of the ledger, 0 while unconfigured

ledgerVars == <<cap, held, committed, released, version>>

Taken == held \cup committed

Init ==
  /\ cap = 0
  /\ held = {} /\ committed = {} /\ released = {}
  /\ version = 0

Grant(s) ==
  /\ s \in Seats \ (Taken \cup released)
  /\ Cardinality(Taken) < cap
  /\ held' = held \cup {s}
  /\ version' = version + 1
  /\ UNCHANGED <<cap, committed, released>>

Release(s) ==
  /\ s \in held
  /\ held' = held \ {s}
  /\ released' = released \cup {s}
  /\ version' = version + 1
  /\ UNCHANGED <<cap, committed>>

Commit(s) ==
  /\ s \in held
  /\ held' = held \ {s}
  /\ committed' = committed \cup {s}
  /\ version' = version + 1
  /\ UNCHANGED <<cap, released>>

Resize ==
  /\ cap' \in Nat
  /\ Cardinality(Taken) <= cap'
  /\ version' = version + 1
  /\ UNCHANGED <<held, committed, released>>

Next == Resize \/ \E s \in Seats : Grant(s) \/ Release(s) \/ Commit(s)

Spec == Init /\ [][Next]_ledgerVars

(* The promise: the seats in use never outnumber the configured ones, and  *)
(* no seat is in two states.                                               *)
NoOverbooking == Cardinality(Taken) <= cap
=============================================================================
