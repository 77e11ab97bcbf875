---------------------------- MODULE OrderJourney ----------------------------
(***************************************************************************)
(* What the dispatch service promises about every order, with no requests, *)
(* no snapshots and no drivers' rows: each change of an order is one       *)
(* atomic, legal step of its lifecycle, taken with the driver and the      *)
(* proof that the step needs.  Fleet is shown to implement it although its *)
(* handlers read first and write later.                                    *)
(***************************************************************************)
EXTENDS OrderLifecycle

CONSTANTS
  Orders,   (* order identifiers                                           *)
  Drivers,  (* driver identifiers                                          *)
  None      (* the absence of a driver                                     *)

VARIABLES
  status,   (* status[o], or "ABSENT" before the order is created          *)
  driver,   (* driver[o], or None                                          *)
  proven    (* the orders with a registered proof of delivery              *)

vars == <<status, driver, proven>>

Init ==
  /\ status = [o \in Orders |-> "ABSENT"]
  /\ driver = [o \in Orders |-> None]
  /\ proven = {}

\* A new order waits for a driver, or starts out with one.
Create(o, d) ==
  /\ status[o] = "ABSENT"
  /\ status' = [status EXCEPT ![o] = IF d = None THEN "PENDING" ELSE "ASSIGNED"]
  /\ driver' = [driver EXCEPT ![o] = d]
  /\ UNCHANGED proven

\* One driver takes a set of orders, all of them or none.
Assign(S, d) ==
  /\ \A o \in S : CanTransition(status[o], "ASSIGNED") /\ driver[o] = None
  /\ status' = [o \in Orders |-> IF o \in S THEN "ASSIGNED" ELSE status[o]]
  /\ driver' = [o \in Orders |-> IF o \in S THEN d ELSE driver[o]]
  /\ UNCHANGED proven

\* A legal step: a delivery needs its proof, work in the field a driver, and
\* rescheduling takes the order away from the driver.
Advance(o, next) ==
  /\ CanTransition(status[o], next)
  /\ NeedsDriver(next) => driver[o] # None
  /\ next = "DELIVERED" => o \in proven
  /\ status' = [status EXCEPT ![o] = next]
  /\ driver' = [driver EXCEPT ![o] = IF next = "RESCHEDULED" THEN None ELSE @]
  /\ UNCHANGED proven

Prove(o) ==
  /\ status[o] # "ABSENT"
  /\ proven' = proven \cup {o}
  /\ UNCHANGED <<status, driver>>

Next ==
  \/ \E o \in Orders, d \in Drivers \cup {None} : Create(o, d)
  \/ \E S \in SUBSET Orders, d \in Drivers : Assign(S, d)
  \/ \E o \in Orders, next \in UpdatableStatuses : Advance(o, next)
  \/ \E o \in Orders : Prove(o)

Spec == Init /\ [][Next]_vars
=============================================================================
