---------------------------- MODULE TrackedOrders ----------------------------
(***************************************************************************)
(* The moves of an order that its customer can see, and the token each of  *)
(* them provides for: creation issues one, every status change makes sure  *)
(* of one before its transaction, the dispatcher copies a link.            *)
(* The transactions themselves (locks, routes, capacity) are Fleet's.      *)
(***************************************************************************)
EXTENDS TrackingTokens, OrderLifecycle

CONSTANTS Windows,   \* delivery windows a customer may ask for
          Ratings,   \* ratings a customer may give
          Steps,     \* bound: the statuses a driver or dispatcher asks for
          Legacy     \* statuses of orders written before events and tokens

ASSUME LegacyAssumption == Legacy \subseteq Statuses

VARIABLES order,    \* order -> its row, or None
          change    \* caller -> the status change it is making, or None

orderVars == <<tokenVars, order, change>>

\* The tracking page's six steps of a delivery; other events are not shown.
Milestones == {"ORDER_CREATED", "DRIVER_ASSIGNED", "DELIVERY_STARTED", "DRIVER_ARRIVED",
               "PROOF_UPLOADED", "DELIVERY_COMPLETED"}

\* An order with the proof, feedback and recorded steps kept beside it;
\* thanked counts its CUSTOMER_FEEDBACK_RECEIVED events.
TrackedRow == [status : Statuses, request : Windows \cup {None},
               feedback : Ratings \cup {None}, thanked : Nat, proof : BOOLEAN,
               events : SUBSET Milestones]

ASSUME RowsAssumption == None \notin Ratings /\ None \notin TrackedRow

New == [status |-> "PENDING", request |-> None, feedback |-> None, thanked |-> 0,
        proof |-> FALSE, events |-> {"ORDER_CREATED"}]

OrdersInit ==
  /\ TokenInit
  /\ order \in [Orders -> {None} \cup {[New EXCEPT !.status = s, !.events = {}] : s \in Legacy}]
  /\ change = [c \in Callers |-> None]

\* The step a status change records, if the page shows it.
StatusEvent(to) ==
  CASE to = "IN_PROGRESS" -> {"DELIVERY_STARTED"}
    [] to = "ARRIVED"     -> {"DRIVER_ARRIVED"}
    [] to = "DELIVERED"   -> {"DELIVERY_COMPLETED"}
    [] OTHER              -> {}

Create(o) ==
  /\ order[o] = None
  /\ CreateWithToken(o)
  /\ \/ order' = [order EXCEPT ![o] = New]
     \/ order' = [order EXCEPT ![o] = [New EXCEPT !.status = "ASSIGNED",
                                         !.events = @ \cup {"DRIVER_ASSIGNED"}]]
  /\ UNCHANGED <<change>>

\* Assignment, directly or by a route, answers the request by dropping it.
Assign(o) ==
  /\ order[o] # None /\ CanTransition(order[o].status, "ASSIGNED")
  /\ order' = [order EXCEPT ![o].status = "ASSIGNED", ![o].request = None,
                            ![o].events = @ \cup {"DRIVER_ASSIGNED"}]
  /\ UNCHANGED <<tokenVars, change>>

RegisterProof(o) ==
  /\ order[o] # None /\ order[o].status = "ARRIVED" /\ ~order[o].proof
  /\ order' = [order EXCEPT ![o].proof = TRUE, ![o].events = @ \cup {"PROOF_UPLOADED"}]
  /\ UNCHANGED <<tokenVars, change>>

\* A status request reads and judges the order, then makes sure it has a
\* token (ensure) before the transaction.
ReadStatus(c, o, to) ==
  /\ change[c] = None /\ order[o] # None
  /\ to \in UpdatableStatuses /\ CanTransition(order[o].status, to)
  /\ to = "DELIVERED" => order[o].proof
  /\ EnsureRead(c, o)
  /\ change' = [change EXCEPT ![c] = [from |-> order[o].status, to |-> to]]
  /\ UNCHANGED <<order>>

CommitStatus(c) ==
  /\ change[c] # None /\ call[c] # None /\ call[c].stage = "have"
  /\ LET o == call[c].order IN
     order' = IF order[o].status = change[c].from
              THEN [order EXCEPT ![o].status = change[c].to,
                                 ![o].events = @ \cup StatusEvent(change[c].to)]
              ELSE order
  /\ call' = [call EXCEPT ![c] = None]
  /\ change' = [change EXCEPT ![c] = None]
  /\ UNCHANGED <<now, current, lookup, links>>

\* The dispatcher copies the link of an order that exists.
CopyLink(c, o) == order[o] # None /\ EnsureRead(c, o) /\ UNCHANGED <<order, change>>
GiveLink(c) == change[c] = None /\ HandOut(c) /\ UNCHANGED <<order, change>>
SaveToken(c) == EnsureSave(c) /\ UNCHANGED <<order, change>>
FailToken(c) ==
  /\ EnsureFails(c)
  /\ change' = [change EXCEPT ![c] = None]
  /\ UNCHANGED <<order>>
Clock == (Tick \/ Reap) /\ UNCHANGED <<order, change>>


OrderStep ==
  \/ \E o \in Orders : Create(o) \/ Assign(o) \/ RegisterProof(o)
  \/ \E c \in Callers, o \in Orders : CopyLink(c, o) \/ \E to \in Steps : ReadStatus(c, o, to)
  \/ \E c \in Callers : CommitStatus(c) \/ GiveLink(c) \/ SaveToken(c) \/ FailToken(c)
  \/ Clock

-----------------------------------------------------------------------------
OrdersTypeOK ==
  /\ TokenTypeOK
  /\ order \in [Orders -> TrackedRow \cup {None}]
  /\ change \in [Callers -> [from : Statuses, to : UpdatableStatuses] \cup {None}]
=============================================================================
