------------------------------- MODULE Fleet -------------------------------
(***************************************************************************)
(* Dispatch and delivery: orders, drivers, routes and proofs in the single *)
(* DynamoDB table, and the API requests that change them.                  *)
(*                                                                         *)
(* Every handler reads first and writes later: it checks what it read,     *)
(* awaits the network, then sends one transaction whose condition          *)
(* expressions are evaluated against the table as it then is.  So a        *)
(* request is two steps, Read... and Commit..., with its snapshot kept in  *)
(* requests[q] in between, and any other request may run in the gap.  A    *)
(* transaction is atomic; one whose conditions fail changes nothing and    *)
(* the request ends (Drop), as does one whose process dies.                *)
(***************************************************************************)
EXTENDS OrderLifecycle, Integers, FiniteSets

CONSTANTS
  Orders,      (* order identifiers that may be created                    *)
  Drivers,     (* registered drivers                                       *)
  Routes,      (* route identifiers that may be created                    *)
  Requests,    (* API requests that may be in flight at the same time      *)
  None,        (* a missing attribute                                      *)
  MaxLoad,     (* the capacity of a driver's vehicle; a parcel weighs one  *)
  ListLimit,   (* how many orders of a driver one listing returns: 100     *)
  MaxRevision  (* bound: plans are revised up to this revision             *)

ASSUME NoneAssumption == None \notin Orders \cup Drivers \cup Routes
ASSUME BoundAssumption ==
  MaxLoad \in [Drivers -> Nat] /\ ListLimit \in Nat /\ MaxRevision \in Nat

VARIABLES
  orders,    (* ORDER#<id> METADATA                                        *)
  drivers,   (* DRIVER#<id> PROFILE                                        *)
  routes,    (* ROUTE#<id> METADATA                                        *)
  stops,     (* ROUTE#<id> STOP#<key>#ORDER#<id>: at most one per order    *)
  proofs,    (* the orders with a PROOF#POD item                           *)
  timeline,  (* the latest lifecycle EVENT#... of each order               *)
  requests   (* what each request in flight has read and intends           *)

vars == <<orders, drivers, routes, stops, proofs, timeline, requests>>
-----------------------------------------------------------------------------
(* The stored items. *)

Absent == "ABSENT"
Count == Nat

DriverStatuses == {"AVAILABLE", "ON_DELIVERY", "OFFLINE"}

OrderRow == [status       : Statuses \cup {Absent},
             driverId     : Drivers \cup {None},
             routeId      : Routes \cup {None},
             stopSequence : Count]                 \* 0: no such attribute

DriverRow == [status         : DriverStatuses,
              activeOrderId  : Orders \cup {None},
              completedToday : Count]

RouteRow == [status   : {Absent, "PLANNED", "IN_PROGRESS"},
             driverId : Drivers \cup {None},
             revision : Count]

\* key is the sequence number in the sort key, 0 when there is no item;
\* sequence is the attribute a revised plan changes.
StopRow == [key : Count, sequence : Count, status : Statuses \cup {Absent}]

EventRow == [type : Statuses \cup {Absent, "CREATED"}, driverId : Drivers \cup {None}]

Event(type, d) == [type |-> type, driverId |-> d]

\* A plan numbers the orders of a route from 1; 0 marks an order outside it.
Plan == [Orders -> Count]
Members(plan) == {o \in Orders : plan[o] # 0}
Plans(S) ==
  {plan \in [Orders -> 0 .. Cardinality(S)] :
     /\ Members(plan) = S
     /\ \A o, p \in S : plan[o] = plan[p] => o = p}
-----------------------------------------------------------------------------
(* The requests. *)

Idle == [op |-> "idle"]

Request ==
  {Idle}
  \cup [op : {"create"}, order : Orders, driver : Drivers \cup {None}]
  \cup [op : {"assign"}, order : Orders, driver : Drivers]
  \cup [op : {"status"}, order : Orders, next : UpdatableStatuses, read : OrderRow]
  \cup [op : {"route"}, route : Routes, driver : Drivers, plan : Plan,
        read : [Orders -> Statuses \cup {Absent}]]
  \cup [op : {"replan"}, route : Routes, plan : Plan, revision : Count]
  \cup [op : {"proof"}, order : Orders]

Begin(q, request) ==
  /\ requests[q] = Idle
  /\ requests' = [requests EXCEPT ![q] = request]
  /\ UNCHANGED <<orders, drivers, routes, stops, proofs, timeline>>

End(q) == requests' = [requests EXCEPT ![q] = Idle]

\* A transaction is cancelled, a check after the reads fails, or the process
\* dies: the request ends and the table is as it was.
Drop(q) ==
  /\ requests[q] # Idle
  /\ End(q)
  /\ UNCHANGED <<orders, drivers, routes, stops, proofs, timeline>>

Init ==
  /\ orders = [o \in Orders |-> [status |-> Absent, driverId |-> None,
                                 routeId |-> None, stopSequence |-> 0]]
  /\ drivers = [d \in Drivers |-> [status |-> "AVAILABLE", activeOrderId |-> None,
                                   completedToday |-> 0]]
  /\ routes = [r \in Routes |-> [status |-> Absent, driverId |-> None, revision |-> 0]]
  /\ stops = [r \in Routes |-> [o \in Orders |-> [key |-> 0, sequence |-> 0,
                                                  status |-> Absent]]]
  /\ proofs = {}
  /\ timeline = [o \in Orders |-> Event(Absent, None)]
  /\ requests = [q \in Requests |-> Idle]
-----------------------------------------------------------------------------
(* Capacity, checked against the driver's orders as one listing returns    *)
(* them: a page of the index GSI1, sorted by status descending and only    *)
(* then by creation time, of ListLimit orders whatever their status.       *)

OrdersOf(d) == {o \in Orders : orders[o].driverId = d}
Active(S) == {o \in S : orders[o].status \in ActiveCapacityStatuses}

\* Orders of one status may come in any order of creation.
Listings(d) ==
  {page \in SUBSET OrdersOf(d) :
     /\ Cardinality(page) <= ListLimit
     /\ page # OrdersOf(d) =>
          /\ Cardinality(page) = ListLimit
          /\ \A o \in page, p \in OrdersOf(d) \ page :
               IndexRank(orders[o].status) >= IndexRank(orders[p].status)}

\* Fault: the selected orders are left out of the sum.
FitsWithoutSelected(d, S) ==
  \E page \in Listings(d) : Cardinality(Active(page)) <= MaxLoad[d]

Fits(d, S) ==
  \E page \in Listings(d) : Cardinality(Active(page)) + Cardinality(S) <= MaxLoad[d]

\* The conditions under which an order may be given to a driver, and under
\* which a direct assignment may mark a driver busy.
Unassigned(o) ==
  orders[o].status \in {"PENDING", "RESCHEDULED"} /\ orders[o].driverId = None

Assignable(d) == drivers[d].status \in {"AVAILABLE", "ON_DELIVERY"}

Busy(d) == [drivers EXCEPT ![d].status = "ON_DELIVERY"]

\* An order's row once it has been given to d, or left without a driver.
Given(row, status, d) == [row EXCEPT !.status = status, !.driverId = d]
-----------------------------------------------------------------------------
(* POST /orders: the identifier is a fresh UUID. *)

ReadCreate(q, o, d) ==
  /\ orders[o].status = Absent
  /\ \A p \in Requests : requests[p].op = "create" => requests[p].order # o
  /\ d # None => Fits(d, {o})
  /\ Begin(q, [op |-> "create", order |-> o, driver |-> d])

CommitCreate(q) ==
  LET o == requests[q].order
      d == requests[q].driver
      status == IF d = None THEN "PENDING" ELSE "ASSIGNED"
  IN
  /\ requests[q].op = "create"
  /\ d # None => Assignable(d)
  /\ orders' = [orders EXCEPT ![o] = Given(@, status, d)]
  /\ drivers' = IF d = None THEN drivers ELSE Busy(d)
  /\ timeline' = [timeline EXCEPT ![o] = Event(IF d = None THEN "CREATED" ELSE status, d)]
  /\ End(q)
  /\ UNCHANGED <<routes, stops, proofs>>

(* PATCH /orders/:id/assign *)

ReadAssign(q, o, d) ==
  /\ CanTransition(orders[o].status, "ASSIGNED")
  /\ Fits(d, {o})
  /\ Begin(q, [op |-> "assign", order |-> o, driver |-> d])

CommitAssign(q) ==
  LET o == requests[q].order
      d == requests[q].driver
  IN
  /\ requests[q].op = "assign"
  /\ Unassigned(o)
  /\ Assignable(d)
  /\ orders' = [orders EXCEPT ![o] = Given(@, "ASSIGNED", d)]
  /\ drivers' = Busy(d)
  /\ timeline' = [timeline EXCEPT ![o] = Event("ASSIGNED", d)]
  /\ End(q)
  /\ UNCHANGED <<routes, stops, proofs>>
-----------------------------------------------------------------------------
(* PATCH /orders/:id/status.  The handler looks for the proof in a later    *)
(* read of its own; no proof is ever deleted, so that check is implied by   *)
(* the transaction's (ProofPresent), and a request that fails it is dropped.*)

ReadStatus(q, o, next) ==
  /\ CanTransition(orders[o].status, next)
  /\ NeedsDriver(next) => orders[o].driverId # None
  /\ Begin(q, [op |-> "status", order |-> o, next |-> next, read |-> orders[o]])

OnRoute(row) == row.routeId # None /\ row.stopSequence # 0

\* The condition expressions of the status transaction, one conjunct for each
\* item it touches.  Only the order's status is compared with the snapshot.
\* Fault: the update is unconditional.
StatusIgnored(r) == TRUE

StatusUnchanged(r) == orders[r.order].status = r.read.status

ProofPresent(r) == r.next = "DELIVERED" => r.order \in proofs

StopExists(r) ==
  OnRoute(r.read) => stops[r.read.routeId][r.order].key = r.read.stopSequence

\* Fault: a release does not check whose lock it gives back.
DriverAgreesForAnyOwner(r) ==
  LET row == drivers[r.read.driverId] IN
  r.read.driverId # None /\ r.next = "IN_PROGRESS" =>
    row.status \in {"AVAILABLE", "ON_DELIVERY"} /\ row.activeOrderId \in {None, r.order}

DriverAgrees(r) ==
  LET row == drivers[r.read.driverId] IN
  r.read.driverId # None =>
    /\ r.next = "IN_PROGRESS" => /\ row.status \in {"AVAILABLE", "ON_DELIVERY"}
                                 /\ row.activeOrderId \in {None, r.order}
    /\ ReleasesDriver(r.next) => row.activeOrderId \in {None, r.order}

StatusAccepted(r) ==
  StatusUnchanged(r) /\ ProofPresent(r) /\ StopExists(r) /\ DriverAgrees(r)

\* Fault: rescheduling keeps the driver.
OrderAfterKeepingDriver(row, next) == [row EXCEPT !.status = next]

OrderAfter(row, next) ==
  IF next = "RESCHEDULED"
  THEN [status |-> next, driverId |-> None, routeId |-> None, stopSequence |-> 0]
  ELSE [row EXCEPT !.status = next]

\* Fault: a delivery is counted down.
DriverAfterCountingDown(row, o, next) ==
  IF next = "IN_PROGRESS"
  THEN [row EXCEPT !.status = "ON_DELIVERY", !.activeOrderId = o]
  ELSE IF ReleasesDriver(next)
  THEN [status |-> "AVAILABLE", activeOrderId |-> None,
        completedToday |-> row.completedToday - (IF next = "DELIVERED" THEN 1 ELSE 0)]
  ELSE row

\* Starting takes the driver's lock, a releasing status gives it back.
DriverAfter(row, o, next) ==
  IF next = "IN_PROGRESS"
  THEN [row EXCEPT !.status = "ON_DELIVERY", !.activeOrderId = o]
  ELSE IF ReleasesDriver(next)
  THEN [status |-> "AVAILABLE", activeOrderId |-> None,
        completedToday |-> row.completedToday + (IF next = "DELIVERED" THEN 1 ELSE 0)]
  ELSE row

DriversAfter(r) ==
  IF r.read.driverId = None THEN drivers
  ELSE [drivers EXCEPT ![r.read.driverId] = DriverAfter(@, r.order, r.next)]

\* Fault: the stop is written when the order starts and not again.
StopsAfterStartOnly(r) ==
  IF OnRoute(r.read) /\ r.next = "IN_PROGRESS"
  THEN [stops EXCEPT ![r.read.routeId][r.order].status = r.next]
  ELSE stops

StopsAfter(r) ==
  IF OnRoute(r.read)
  THEN [stops EXCEPT ![r.read.routeId][r.order].status = r.next]
  ELSE stops

RoutesAfter(r) ==
  IF OnRoute(r.read) /\ r.next = "IN_PROGRESS"
  THEN [routes EXCEPT ![r.read.routeId].status = "IN_PROGRESS"]
  ELSE routes

\* Fault: the event names the status the order comes from.
StatusEventBefore(r) == Event(r.read.status, r.read.driverId)

StatusEvent(r) == Event(r.next, r.read.driverId)

CommitStatus(q) ==
  LET r == requests[q] IN
  /\ r.op = "status"
  /\ StatusAccepted(r)
  /\ orders' = [orders EXCEPT ![r.order] = OrderAfter(@, r.next)]
  /\ drivers' = DriversAfter(r)
  /\ stops' = StopsAfter(r)
  /\ routes' = RoutesAfter(r)
  /\ timeline' = [timeline EXCEPT ![r.order] = StatusEvent(r)]
  /\ End(q)
  /\ UNCHANGED proofs
-----------------------------------------------------------------------------
(* POST /routes: the planner returns some order of the selected stops. *)

ReadRoute(q, t, d, S, plan) ==
  /\ routes[t].status = Absent
  /\ \A p \in Requests : requests[p].op = "route" => requests[p].route # t
  /\ drivers[d].status # "OFFLINE"
  /\ \A o \in S : Unassigned(o)
  /\ Fits(d, S)
  /\ plan \in Plans(S)
  /\ Begin(q, [op |-> "route", route |-> t, driver |-> d, plan |-> plan,
               read |-> [o \in Orders |-> IF o \in S THEN orders[o].status ELSE Absent]])

\* The stops are stored with the statuses the orders had when they were read.
CommitRoute(q) ==
  LET r == requests[q]
      S == Members(r.plan)
  IN
  /\ r.op = "route"
  /\ \A o \in S : Unassigned(o)
  /\ drivers[r.driver].status # "OFFLINE"
  /\ orders' = [o \in Orders |->
                  IF o \in S THEN [status |-> "ASSIGNED", driverId |-> r.driver,
                                   routeId |-> r.route, stopSequence |-> r.plan[o]]
                  ELSE orders[o]]
  /\ drivers' = Busy(r.driver)
  /\ routes' = [routes EXCEPT ![r.route] = [status |-> "PLANNED", driverId |-> r.driver,
                                            revision |-> 1]]
  /\ stops' = [stops EXCEPT ![r.route] =
                 [o \in Orders |-> [key |-> r.plan[o], sequence |-> r.plan[o],
                                    status |-> r.read[o]]]]
  /\ timeline' = [o \in Orders |-> IF o \in S THEN Event("ASSIGNED", r.driver)
                                   ELSE timeline[o]]
  /\ End(q)
  /\ UNCHANGED proofs

(* PATCH /routes/:id/reorder and POST /routes/:id/re-optimize *)

StopsOf(t) == {o \in Orders : stops[t][o].key # 0}

ReadReplan(q, t, plan) ==
  /\ routes[t].status = "PLANNED"
  /\ routes[t].revision < MaxRevision
  /\ plan \in Plans(StopsOf(t))
  /\ Begin(q, [op |-> "replan", route |-> t, plan |-> plan,
               revision |-> routes[t].revision])

\* Fault: only the revision guards a new plan.
ReplanAcceptedOnRevision(r) == routes[r.route].revision = r.revision

ReplanAccepted(r) ==
  /\ routes[r.route].status = "PLANNED"
  /\ routes[r.route].revision = r.revision
  /\ \A o \in Members(r.plan) :
       orders[o].routeId = r.route /\ orders[o].status = "ASSIGNED"

\* The stop items keep the sort keys they were created with.
CommitReplan(q) ==
  LET r == requests[q]
      S == Members(r.plan)
  IN
  /\ r.op = "replan"
  /\ ReplanAccepted(r)
  /\ routes' = [routes EXCEPT ![r.route].revision = r.revision + 1]
  /\ stops' = [stops EXCEPT ![r.route] =
                 [o \in Orders |-> IF o \in S THEN [@[o] EXCEPT !.sequence = r.plan[o]]
                                   ELSE @[o]]]
  /\ orders' = [o \in Orders |->
                  IF o \in S THEN [orders[o] EXCEPT !.stopSequence = r.plan[o]]
                  ELSE orders[o]]
  /\ End(q)
  /\ UNCHANGED <<drivers, proofs, timeline>>
-----------------------------------------------------------------------------
(* POST /orders/:id/proof: the status is checked, the object is looked up  *)
(* in S3, and the proof is then written with no condition.                 *)

ReadProof(q, o) ==
  /\ orders[o].status = "ARRIVED"
  /\ Begin(q, [op |-> "proof", order |-> o])

CommitProof(q) ==
  /\ requests[q].op = "proof"
  /\ proofs' = proofs \cup {requests[q].order}
  /\ End(q)
  /\ UNCHANGED <<orders, drivers, routes, stops, timeline>>

(* PATCH /drivers/:id/status: any status, at any time. *)

SetDriverStatus(d, status) ==
  /\ drivers[d].status # status
  /\ drivers' = [drivers EXCEPT ![d].status = status]
  /\ UNCHANGED <<orders, routes, stops, proofs, timeline, requests>>
-----------------------------------------------------------------------------
Read(q) ==
  \/ \E o \in Orders, d \in Drivers \cup {None} : ReadCreate(q, o, d)
  \/ \E o \in Orders, d \in Drivers : ReadAssign(q, o, d)
  \/ \E o \in Orders, next \in UpdatableStatuses : ReadStatus(q, o, next)
  \/ \E t \in Routes, d \in Drivers, S \in (SUBSET Orders) \ {{}} :
       \E plan \in Plans(S) : ReadRoute(q, t, d, S, plan)
  \/ \E t \in Routes : \E plan \in Plans(StopsOf(t)) : ReadReplan(q, t, plan)
  \/ \E o \in Orders : ReadProof(q, o)

Commit(q) ==
  \/ CommitCreate(q)
  \/ CommitAssign(q)
  \/ CommitStatus(q)
  \/ CommitRoute(q)
  \/ CommitReplan(q)
  \/ CommitProof(q)

Next ==
  \/ \E q \in Requests : Read(q) \/ Commit(q) \/ Drop(q)
  \/ \E d \in Drivers, status \in DriverStatuses : SetDriverStatus(d, status)

Spec == Init /\ [][Next]_vars
-----------------------------------------------------------------------------
(* Properties *)

TypeOK ==
  /\ orders \in [Orders -> OrderRow]
  /\ drivers \in [Drivers -> DriverRow]
  /\ routes \in [Routes -> RouteRow]
  /\ stops \in [Routes -> [Orders -> StopRow]]
  /\ proofs \in SUBSET Orders
  /\ timeline \in [Orders -> EventRow]
  /\ requests \in [Requests -> Request]

\* From the start of an order until it is delivered, returned, rescheduled or
\* cancelled, its driver works on it alone.
HoldingStatuses == {"IN_PROGRESS", "ARRIVED", "DELIVERY_FAILED", "RETURNING"}

Holds(o) == orders[o].status \in HoldingStatuses

\* However requests overlap, an order in the field is in the activeOrderId of
\* some driver: no handler of another order, and no stale release, takes the
\* lock of appendDriverStatus away under it.
HoldingOrderIsLocked ==
  \A o \in Orders : Holds(o) => \E d \in Drivers : drivers[d].activeOrderId = o

\* However requests overlap, an order has a driver exactly in the statuses that
\* mean somebody has the parcel or had it last; CANCELLED is reached with and
\* without one.
DriverMatchesStatus ==
  \A o \in Orders :
    /\ orders[o].status \in {Absent, "PENDING", "RESCHEDULED"} => orders[o].driverId = None
    /\ orders[o].status \in {"ASSIGNED", "DELIVERED", "RETURNED"} \cup HoldingStatuses
         => orders[o].driverId # None

\* What a request in flight may rely on although the table moves under it.
RequestsLegal ==
  \A q \in Requests :
    LET r == requests[q] IN
    /\ r.op = "create" =>
         /\ orders[r.order].status = Absent
         /\ \A p \in Requests :
              requests[p].op = "create" /\ requests[p].order = r.order => p = q
    /\ r.op = "status" =>
         /\ CanTransition(r.read.status, r.next)
         /\ NeedsDriver(r.next) => r.read.driverId # None
    /\ r.op = "proof" => orders[r.order].status # Absent

\* Inductive: HoldingOrderIsLocked and DriverMatchesStatus, and why.
FleetInvariant ==
  TypeOK /\ RequestsLegal /\ DriverMatchesStatus /\ HoldingOrderIsLocked

\* Every step of the table, stale snapshots included, is an atomic legal step
\* of the orders' journeys: the transaction's conditions make up for what the
\* handler checked too early.
Journey == INSTANCE OrderJourney WITH
             status <- [o \in Orders |-> orders[o].status],
             driver <- [o \in Orders |-> orders[o].driverId],
             proven <- proofs
JourneySpec == Journey!Spec

\* A plan that was computed before the route started is not written after it:
\* once an order of a route has left ASSIGNED for the field, no stop of the
\* route changes its position.
PlanFrozenOnceStarted ==
  [][\A t \in Routes : routes[t].status = "IN_PROGRESS" =>
       \A o \in Orders : /\ stops'[t][o].sequence = stops[t][o].sequence
                         /\ orders[o].routeId = t /\ orders'[o].routeId = t
                              => orders'[o].stopSequence = orders[o].stopSequence]_vars

\* Two plans computed from one revision are not both stored: each write of a
\* route's positions advances the revision it was computed from.
PlanRevisionAdvances ==
  [][\A t \in Routes : stops'[t] # stops[t] /\ routes[t].revision = routes'[t].revision
       => \A o \in Orders : stops'[t][o].sequence = stops[t][o].sequence]_vars

\* One request at a time: a driver's activeOrderId is the order that driver is
\* working on, and the lock is free when there is none.
LockAgreement ==
  \A d \in Drivers, o \in Orders :
    drivers[d].activeOrderId = o <=> Holds(o) /\ orders[o].driverId = d

\* No driver has two orders in the field.
OneActiveOrderPerDriver ==
  \A o, p \in Orders :
    Holds(o) /\ Holds(p) /\ orders[o].driverId = orders[p].driverId => o = p

\* A request still agrees with the table.
Fresh(r) == r.op = "status" /\ orders[r.order] = r.read

\* One request at a time: what was started can be finished.  Only a missing proof
\* refuses a further step of an order in the field that nobody else has changed.
StartedOrderAdvances ==
  \A q \in Requests :
    Fresh(requests[q]) /\ Holds(requests[q].order) /\ ProofPresent(requests[q])
      => StatusAccepted(requests[q])

\* Whatever revisions a plan has gone through, the stop item of an order on a
\* route is found under the key that appendRouteStatus builds for it.
StopIsAddressed ==
  \A o \in Orders : OnRoute(orders[o]) =>
    stops[orders[o].routeId][o].key = orders[o].stopSequence

\* One request at a time: once the order has left ASSIGNED, the status stored
\* with its stop is the order's.
StopMirrorsOrder ==
  \A o \in Orders : OnRoute(orders[o]) /\ orders[o].status # "ASSIGNED" =>
    stops[orders[o].routeId][o].status = orders[o].status

\* One request at a time and listings that are complete: no step gives a driver an
\* order beyond the vehicle's capacity.
CapacityRespected ==
  [][\A d \in Drivers, o \in Orders :
       orders[o].driverId # d /\ orders'[o].driverId = d
         => Cardinality(Active(OrdersOf(d))') <= MaxLoad[d]]_vars

\* One request at a time: the latest event names the order's status and driver.
TimelineAgrees ==
  \A o \in Orders :
    /\ timeline[o].type = (IF orders[o].status = "PENDING" THEN "CREATED" ELSE orders[o].status)
    /\ orders[o].driverId # None => timeline[o].driverId = orders[o].driverId
=============================================================================
