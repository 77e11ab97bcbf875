---------------------------- MODULE FleetProofs ----------------------------
(***************************************************************************)
(* What Fleet guarantees for any number of orders, drivers, routes and     *)
(* requests in flight: the types of its rows, the safety of orders, that   *)
(* it implements OrderJourney, and what becomes of plans; and what more it *)
(* guarantees when requests do not overlap.                                *)
(***************************************************************************)
EXTENDS Fleet, FiniteSetTheorems, TLAPS

LEMMA IdleIsARequest == Idle \in Request
  BY DEF Idle, Request

\* Where plans come from: every plan the planner can return is typed.
LEMMA PlansAreTyped ==
  ASSUME NEW S \in SUBSET Orders, NEW plan \in Plans(S)
  PROVE  plan \in Plan
  BY DEF Plans, Plan, Count

(* Whatever a request reads, it only records a well-formed request. *)
LEMMA ReadBegins ==
  ASSUME TypeOK, NEW q \in Requests, Read(q)
  PROVE  \E request \in Request : Begin(q, request)
  <1>1. ASSUME NEW o \in Orders, NEW d \in Drivers \cup {None}, ReadCreate(q, o, d)
        PROVE  \E request \in Request : Begin(q, request)
    BY <1>1 DEF ReadCreate, Request
  <1>2. ASSUME NEW o \in Orders, NEW d \in Drivers, ReadAssign(q, o, d)
        PROVE  \E request \in Request : Begin(q, request)
    BY <1>2 DEF ReadAssign, Request
  <1>3. ASSUME NEW o \in Orders, NEW next \in UpdatableStatuses, ReadStatus(q, o, next)
        PROVE  \E request \in Request : Begin(q, request)
    BY <1>3 DEF ReadStatus, Request, TypeOK
  <1>4. ASSUME NEW t \in Routes, NEW d \in Drivers, NEW S \in SUBSET Orders,
               NEW plan \in Plans(S), ReadRoute(q, t, d, S, plan)
        PROVE  \E request \in Request : Begin(q, request)
    BY <1>4, PlansAreTyped DEF ReadRoute, Request, TypeOK, OrderRow
  <1>5. ASSUME NEW t \in Routes, NEW plan \in Plans(StopsOf(t)), ReadReplan(q, t, plan)
        PROVE  \E request \in Request : Begin(q, request)
    BY <1>5, PlansAreTyped DEF ReadReplan, Request, TypeOK, RouteRow, StopsOf
  <1>6. ASSUME NEW o \in Orders, ReadProof(q, o)
        PROVE  \E request \in Request : Begin(q, request)
    BY <1>6 DEF ReadProof, Request
  <1> QED BY <1>1, <1>2, <1>3, <1>4, <1>5, <1>6 DEF Read

LEMMA DriverAfterTyped ==
  ASSUME NEW row \in DriverRow, NEW o \in Orders, NEW next \in Statuses
  PROVE  DriverAfter(row, o, next) \in DriverRow
  <1>1. CASE next = "IN_PROGRESS"
    BY <1>1 DEF DriverAfter, DriverRow, DriverStatuses
  <1>2. CASE next # "IN_PROGRESS" /\ ReleasesDriver(next)
    <2>1. row.completedToday + (IF next = "DELIVERED" THEN 1 ELSE 0) \in Nat
      BY DEF DriverRow, Count
    <2> QED BY <1>2, <2>1 DEF DriverAfter, DriverRow, DriverStatuses, Count
  <1>3. CASE next # "IN_PROGRESS" /\ ~ReleasesDriver(next)
    BY <1>3 DEF DriverAfter
  <1> QED BY <1>1, <1>2, <1>3

LEMMA OrderAfterTyped ==
  ASSUME NEW row \in OrderRow, NEW next \in Statuses
  PROVE  OrderAfter(row, next) \in OrderRow
  BY DEF OrderAfter, OrderRow, Count

LEMMA BusyTyped ==
  ASSUME drivers \in [Drivers -> DriverRow], NEW d \in Drivers
  PROVE  Busy(d) \in [Drivers -> DriverRow]
  BY DEF Busy, DriverRow, DriverStatuses

LEMMA GivenTyped ==
  ASSUME NEW row \in OrderRow, NEW status \in Statuses, NEW d \in Drivers \cup {None}
  PROVE  Given(row, status, d) \in OrderRow
  BY DEF Given, OrderRow

(* A transaction on an order's stop leaves every other stop item alone. *)
LEMMA StopsAfterTyped ==
  ASSUME stops \in [Routes -> [Orders -> StopRow]],
         NEW r, r.order \in Orders, r.next \in Statuses,
         OnRoute(r.read) => r.read.routeId \in Routes
  PROVE  StopsAfter(r) \in [Routes -> [Orders -> StopRow]]
  <1>1. CASE ~OnRoute(r.read)
    BY <1>1 DEF StopsAfter
  <1>2. CASE OnRoute(r.read)
    <2> DEFINE t == r.read.routeId
               item == [stops[t][r.order] EXCEPT !.status = r.next]
               onRoute == [stops[t] EXCEPT ![r.order] = item]
    <2>1. t \in Routes
      BY <1>2
    <2>2. item \in StopRow
      BY <2>1 DEF StopRow
    <2>3. onRoute \in [Orders -> StopRow]
      BY <2>1, <2>2
    <2>4. StopsAfter(r) = [stops EXCEPT ![t] = onRoute]
      BY <1>2 DEF StopsAfter
    <2> HIDE DEF t, item, onRoute
    <2> QED BY <2>1, <2>3, <2>4
  <1> QED BY <1>1, <1>2

LEMMA InitTyped == Init => TypeOK
  BY DEF Init, TypeOK, OrderRow, DriverRow, RouteRow, StopRow, EventRow, Event,
     DriverStatuses, Count, Absent, Idle, Request

LEMMA TypeStep ==
  ASSUME TypeOK, [Next]_vars
  PROVE  TypeOK'
  <1>1. ASSUME NEW q \in Requests, CommitCreate(q) PROVE TypeOK'
    <2>1. requests[q].order \in Orders /\ requests[q].driver \in Drivers \cup {None}
      BY <1>1 DEF CommitCreate, TypeOK, Request, Idle
    <2>2. orders' \in [Orders -> OrderRow]
      BY <1>1, <2>1, GivenTyped DEF CommitCreate, TypeOK, Statuses
    <2>3. drivers' \in [Drivers -> DriverRow]
      BY <1>1, <2>1, BusyTyped DEF CommitCreate, TypeOK
    <2>4. timeline' \in [Orders -> EventRow]
      BY <1>1, <2>1 DEF CommitCreate, TypeOK, EventRow, Event, Statuses
    <2> QED
      BY <1>1, <2>2, <2>3, <2>4, IdleIsARequest DEF CommitCreate, End, TypeOK
  <1>2. ASSUME NEW q \in Requests, CommitAssign(q) PROVE TypeOK'
    <2>1. requests[q].order \in Orders /\ requests[q].driver \in Drivers
      BY <1>2 DEF CommitAssign, TypeOK, Request, Idle
    <2>2. orders' \in [Orders -> OrderRow]
      BY <1>2, <2>1, GivenTyped DEF CommitAssign, TypeOK, Statuses
    <2>3. drivers' \in [Drivers -> DriverRow]
      BY <1>2, <2>1, BusyTyped DEF CommitAssign, TypeOK
    <2>4. timeline' \in [Orders -> EventRow]
      BY <1>2, <2>1 DEF CommitAssign, TypeOK, EventRow, Event, Statuses
    <2> QED
      BY <1>2, <2>2, <2>3, <2>4, IdleIsARequest DEF CommitAssign, End, TypeOK
  <1>3. ASSUME NEW q \in Requests, CommitStatus(q) PROVE TypeOK'
    <2> DEFINE r == requests[q]
    <2>1. /\ r.order \in Orders /\ r.next \in Statuses /\ r.read \in OrderRow
          /\ r.read.driverId \in Drivers \cup {None}
          /\ r.read.routeId \in Routes \cup {None}
      BY <1>3 DEF CommitStatus, TypeOK, Request, UpdatableStatuses, Idle, OrderRow
    <2>2. orders' \in [Orders -> OrderRow]
      BY <1>3, <2>1, OrderAfterTyped DEF CommitStatus, TypeOK
    <2>3. drivers' \in [Drivers -> DriverRow]
      BY <1>3, <2>1, DriverAfterTyped DEF CommitStatus, DriversAfter, TypeOK
    <2>4. stops' \in [Routes -> [Orders -> StopRow]]
      BY <1>3, <2>1, StopsAfterTyped DEF CommitStatus, OnRoute, TypeOK
    <2>5. routes' \in [Routes -> RouteRow]
      BY <1>3, <2>1 DEF CommitStatus, RoutesAfter, OnRoute, TypeOK, RouteRow
    <2>6. timeline' \in [Orders -> EventRow]
      BY <1>3, <2>1 DEF CommitStatus, StatusEvent, Event, EventRow, TypeOK
    <2> QED
      BY <1>3, <2>2, <2>3, <2>4, <2>5, <2>6, IdleIsARequest
         DEF CommitStatus, End, TypeOK
  <1>4. ASSUME NEW q \in Requests, CommitRoute(q) PROVE TypeOK'
    <2> DEFINE r == requests[q]
    <2>1. /\ r.route \in Routes /\ r.driver \in Drivers /\ r.plan \in [Orders -> Nat]
          /\ r.read \in [Orders -> Statuses \cup {Absent}]
      BY <1>4 DEF CommitRoute, TypeOK, Request, Idle, Plan, Count
    <2>2. orders' \in [Orders -> OrderRow]
      BY <1>4, <2>1 DEF CommitRoute, TypeOK, OrderRow, Statuses, Count
    <2>3. drivers' \in [Drivers -> DriverRow]
      BY <1>4, <2>1, BusyTyped DEF CommitRoute, TypeOK
    <2>4. stops' \in [Routes -> [Orders -> StopRow]]
      BY <1>4, <2>1 DEF CommitRoute, TypeOK, StopRow, Count
    <2>5. routes' \in [Routes -> RouteRow]
      BY <1>4, <2>1 DEF CommitRoute, TypeOK, RouteRow, Count
    <2>6. timeline' \in [Orders -> EventRow]
      BY <1>4, <2>1 DEF CommitRoute, Event, EventRow, TypeOK, Statuses
    <2> QED
      BY <1>4, <2>2, <2>3, <2>4, <2>5, <2>6, IdleIsARequest
         DEF CommitRoute, End, TypeOK
  <1>5. ASSUME NEW q \in Requests, CommitReplan(q) PROVE TypeOK'
    <2> DEFINE r == requests[q]
    <2>1. r.route \in Routes /\ r.plan \in [Orders -> Nat] /\ r.revision \in Nat
      BY <1>5 DEF CommitReplan, TypeOK, Request, Idle, Plan, Count
    <2>2. orders' \in [Orders -> OrderRow]
      BY <1>5, <2>1 DEF CommitReplan, TypeOK, OrderRow, Count
    <2>3. stops' \in [Routes -> [Orders -> StopRow]]
      <3> DEFINE item(o) == [stops[r.route][o] EXCEPT !.sequence = r.plan[o]]
                 revised == [o \in Orders |-> IF o \in Members(r.plan) THEN item(o)
                                              ELSE stops[r.route][o]]
      <3>1. stops \in [Routes -> [Orders -> StopRow]]
        BY DEF TypeOK
      <3>2. ASSUME NEW o \in Orders PROVE item(o) \in StopRow
        <4>1. stops[r.route][o] \in StopRow
          BY <2>1, <3>1
        <4>2. r.plan[o] \in Nat
          BY <2>1
        <4> QED BY <4>1, <4>2 DEF StopRow, Count
      <3>3. revised \in [Orders -> StopRow]
        BY <2>1, <3>1, <3>2
      <3>4. stops' = [stops EXCEPT ![r.route] = revised]
        BY <1>5 DEF CommitReplan
      <3> HIDE DEF revised
      <3> QED BY <2>1, <3>1, <3>3, <3>4
    <2>4. routes' \in [Routes -> RouteRow]
      <3>1. r.revision + 1 \in Nat
        BY <2>1
      <3> QED BY <1>5, <2>1, <3>1 DEF CommitReplan, TypeOK, RouteRow, Count
    <2> QED
      BY <1>5, <2>2, <2>3, <2>4, IdleIsARequest DEF CommitReplan, End, TypeOK
  <1>6. ASSUME NEW q \in Requests, CommitProof(q) PROVE TypeOK'
    BY <1>6, IdleIsARequest DEF CommitProof, End, TypeOK, Request, Idle
  <1>7. ASSUME NEW q \in Requests, Drop(q) PROVE TypeOK'
    BY <1>7, IdleIsARequest DEF Drop, End, TypeOK
  <1>8. ASSUME NEW q \in Requests, Read(q) PROVE TypeOK'
    BY <1>8, ReadBegins DEF Begin, TypeOK
  <1>9. ASSUME NEW d \in Drivers, NEW s \in DriverStatuses, SetDriverStatus(d, s)
        PROVE TypeOK'
    BY <1>9 DEF SetDriverStatus, TypeOK, DriverRow
  <1>10. CASE UNCHANGED vars
    BY <1>10 DEF vars, TypeOK
  <1> QED
    BY <1>1, <1>2, <1>3, <1>4, <1>5, <1>6, <1>7, <1>8, <1>9, <1>10 DEF Next, Commit

(* Every row keeps the shape the repositories' parsers expect of it.       *)
THEOREM TypeCorrect == Spec => []TypeOK
  BY InitTyped, TypeStep, PTL DEF Spec

-----------------------------------------------------------------------------
(* However requests overlap: an order in the field keeps its lock, an      *)
(* order has a driver exactly when somebody has its parcel.  The two are   *)
(* inductive only together with what a request in flight may rely on       *)
(* (RequestsLegal): the snapshot it carries may be stale, but the          *)
(* transition it was checked for never is, because the transaction         *)
(* compares the status.                                                    *)

(* The kinds of requests, told apart by op. *)
LEMMA RequestShapes ==
  ASSUME TypeOK, NEW q \in Requests
  PROVE  /\ requests[q].op = "create" =>
              requests[q].order \in Orders /\ requests[q].driver \in Drivers \cup {None}
         /\ requests[q].op = "assign" =>
              requests[q].order \in Orders /\ requests[q].driver \in Drivers
         /\ requests[q].op = "status" =>
              /\ requests[q].order \in Orders
              /\ requests[q].next \in UpdatableStatuses
              /\ requests[q].read \in OrderRow
         /\ requests[q].op = "route" =>
              requests[q].route \in Routes /\ requests[q].driver \in Drivers
         /\ requests[q].op = "proof" => requests[q].order \in Orders
  BY DEF TypeOK, Request, Idle

(* What ends a request keeps the others legal, as long as orders neither   *)
(* vanish nor appear behind the back of a request that is creating them.   *)
LEMMA EndKeepsRequestsLegal ==
  ASSUME TypeOK, RequestsLegal, NEW q \in Requests, End(q),
         \A o \in Orders : orders[o].status # Absent => orders'[o].status # Absent,
         \A o \in Orders : orders[o].status = Absent =>
           \/ orders'[o].status = Absent
           \/ requests[q].op = "create" /\ requests[q].order = o
  PROVE  RequestsLegal'
  <1> SUFFICES ASSUME NEW p \in Requests
      PROVE  LET r == requests'[p] IN
             /\ r.op = "create" =>
                  /\ orders'[r.order].status = Absent
                  /\ \A s \in Requests :
                       requests'[s].op = "create" /\ requests'[s].order = r.order => s = p
             /\ r.op = "status" =>
                  /\ CanTransition(r.read.status, r.next)
                  /\ NeedsDriver(r.next) => r.read.driverId # None
             /\ r.op = "proof" => orders'[r.order].status # Absent
    BY DEF RequestsLegal
  <1>1. CASE p = q
    BY <1>1 DEF End, TypeOK, Idle
  <1>2. CASE p # q
    <2>1. requests'[p] = requests[p]
      BY <1>2 DEF End, TypeOK
    <2>2. ASSUME requests[p].op = "create"
          PROVE  /\ orders'[requests[p].order].status = Absent
                 /\ \A s \in Requests :
                      requests'[s].op = "create" /\ requests'[s].order = requests[p].order
                        => s = p
      <3>1. requests[p].order \in Orders /\ orders[requests[p].order].status = Absent
        BY <2>2, RequestShapes DEF RequestsLegal
      <3>2. ~(requests[q].op = "create" /\ requests[q].order = requests[p].order)
        BY <1>2, <2>2 DEF RequestsLegal
      <3>3. ASSUME NEW s \in Requests, requests'[s].op = "create",
                   requests'[s].order = requests[p].order
            PROVE  s = p
        <4>1. s # q
          BY <3>3 DEF End, TypeOK, Idle
        <4>2. requests'[s] = requests[s]
          BY <4>1 DEF End, TypeOK
        <4> QED BY <2>2, <3>3, <4>2 DEF RequestsLegal
      <3> QED BY <3>1, <3>2, <3>3
    <2>3. requests[p].op = "proof" => orders'[requests[p].order].status # Absent
      BY RequestShapes DEF RequestsLegal
    <2> QED BY <2>1, <2>2, <2>3 DEF RequestsLegal
  <1> QED BY <1>1, <1>2

(* A handler that has checked what it read starts a legal request. *)
LEMMA ReadKeepsRequestsLegal ==
  ASSUME TypeOK, RequestsLegal, NEW q \in Requests, Read(q)
  PROVE  RequestsLegal'
  <1> DEFINE Legal(r) ==
               /\ r.op = "create" =>
                    /\ orders[r.order].status = Absent
                    /\ \A p \in Requests : requests[p].op = "create" => requests[p].order # r.order
               /\ r.op = "status" =>
                    /\ CanTransition(r.read.status, r.next)
                    /\ NeedsDriver(r.next) => r.read.driverId # None
               /\ r.op = "proof" => orders[r.order].status # Absent
  <1>1. \E r : Legal(r) /\ Begin(q, r)
    <2>1. ASSUME NEW o \in Orders, NEW d \in Drivers \cup {None}, ReadCreate(q, o, d)
          PROVE  \E r : Legal(r) /\ Begin(q, r)
      BY <2>1 DEF ReadCreate
    <2>2. ASSUME NEW o \in Orders, NEW d \in Drivers, ReadAssign(q, o, d)
          PROVE  \E r : Legal(r) /\ Begin(q, r)
      BY <2>2 DEF ReadAssign
    <2>3. ASSUME NEW o \in Orders, NEW next \in UpdatableStatuses, ReadStatus(q, o, next)
          PROVE  \E r : Legal(r) /\ Begin(q, r)
      BY <2>3 DEF ReadStatus
    <2>4. ASSUME NEW t \in Routes, NEW d \in Drivers, NEW S \in SUBSET Orders,
                 NEW plan \in Plans(S), ReadRoute(q, t, d, S, plan)
          PROVE  \E r : Legal(r) /\ Begin(q, r)
      BY <2>4 DEF ReadRoute
    <2>5. ASSUME NEW t \in Routes, NEW plan \in Plans(StopsOf(t)), ReadReplan(q, t, plan)
          PROVE  \E r : Legal(r) /\ Begin(q, r)
      BY <2>5 DEF ReadReplan
    <2>6. ASSUME NEW o \in Orders, ReadProof(q, o)
          PROVE  \E r : Legal(r) /\ Begin(q, r)
      BY <2>6 DEF ReadProof, Absent
    <2> QED BY <2>1, <2>2, <2>3, <2>4, <2>5, <2>6 DEF Read
  <1>2. PICK r : Legal(r) /\ Begin(q, r)
    BY <1>1
  <1>3. orders' = orders /\ requests' = [requests EXCEPT ![q] = r] /\ requests[q].op = "idle"
    BY <1>2 DEF Begin, Idle
  <1>4. requests'[q] = r /\ \A p \in Requests \ {q} : requests'[p] = requests[p]
    BY <1>3 DEF TypeOK
  <1> QED BY <1>2, <1>3, <1>4 DEF RequestsLegal
(* A status transaction moves one order, and legally from where it now is. *)
LEMMA StatusCommitIsLegal ==
  ASSUME TypeOK, RequestsLegal, NEW q \in Requests, CommitStatus(q)
  PROVE  LET r == requests[q] IN
         /\ r.order \in Orders /\ r.next \in UpdatableStatuses /\ r.read \in OrderRow
         /\ CanTransition(orders[r.order].status, r.next)
         /\ NeedsDriver(r.next) => r.read.driverId # None
         /\ r.next = "DELIVERED" => r.order \in proofs
         /\ orders'[r.order] = OrderAfter(orders[r.order], r.next)
         /\ \A o \in Orders \ {r.order} : orders'[o] = orders[o]
  <1>1. requests[q].op = "status"
    BY DEF CommitStatus
  <1>2. /\ requests[q].order \in Orders /\ requests[q].next \in UpdatableStatuses
        /\ requests[q].read \in OrderRow
    BY <1>1, RequestShapes
  <1>3. /\ CanTransition(orders[requests[q].order].status, requests[q].next)
        /\ NeedsDriver(requests[q].next) => requests[q].read.driverId # None
    BY <1>1 DEF CommitStatus, StatusAccepted, StatusUnchanged, RequestsLegal
  <1>4. requests[q].next = "DELIVERED" => requests[q].order \in proofs
    BY DEF CommitStatus, StatusAccepted, ProofPresent
  <1>5. orders' = [orders EXCEPT ![requests[q].order] = OrderAfter(@, requests[q].next)]
    BY DEF CommitStatus
  <1>6. orders \in [Orders -> OrderRow]
    BY DEF TypeOK
  <1>7. /\ orders'[requests[q].order] = OrderAfter(orders[requests[q].order], requests[q].next)
        /\ \A o \in Orders \ {requests[q].order} : orders'[o] = orders[o]
    BY <1>2, <1>5, <1>6
  <1> QED BY <1>2, <1>3, <1>4, <1>7

(* What the other transactions do to an order's row.                       *)
LEMMA CreateCommitRow ==
  ASSUME TypeOK, RequestsLegal, NEW q \in Requests, CommitCreate(q)
  PROVE  LET r == requests[q] IN
         /\ r.order \in Orders /\ r.driver \in Drivers \cup {None}
         /\ orders[r.order].status = Absent
         /\ orders'[r.order].status = IF r.driver = None THEN "PENDING" ELSE "ASSIGNED"
         /\ orders'[r.order].driverId = r.driver
         /\ \A o \in Orders \ {r.order} : orders'[o] = orders[o]
  <1>1. /\ requests[q].order \in Orders /\ requests[q].driver \in Drivers \cup {None}
        /\ orders[requests[q].order].status = Absent
    BY RequestShapes DEF CommitCreate, RequestsLegal
  <1> QED BY <1>1 DEF CommitCreate, Given, TypeOK, OrderRow

LEMMA AssignCommitRow ==
  ASSUME TypeOK, NEW q \in Requests, CommitAssign(q)
  PROVE  LET r == requests[q] IN
         /\ r.order \in Orders /\ r.driver \in Drivers
         /\ Unassigned(r.order)
         /\ orders'[r.order].status = "ASSIGNED"
         /\ orders'[r.order].driverId = r.driver
         /\ \A o \in Orders \ {r.order} : orders'[o] = orders[o]
  <1>1. requests[q].order \in Orders /\ requests[q].driver \in Drivers
    BY RequestShapes DEF CommitAssign
  <1> QED BY <1>1 DEF CommitAssign, Given, TypeOK, OrderRow

LEMMA RouteCommitRows ==
  ASSUME TypeOK, NEW q \in Requests, CommitRoute(q)
  PROVE  LET r == requests[q] IN
         /\ r.driver \in Drivers
         /\ \A o \in Members(r.plan) :
              /\ Unassigned(o)
              /\ orders'[o].status = "ASSIGNED"
              /\ orders'[o].driverId = r.driver
         /\ \A o \in Orders \ Members(r.plan) : orders'[o] = orders[o]
  BY RequestShapes DEF CommitRoute, Members

LEMMA ReplanCommitRows ==
  ASSUME TypeOK, NEW q \in Requests, CommitReplan(q)
  PROVE  \A o \in Orders : /\ orders'[o].status = orders[o].status
                           /\ orders'[o].driverId = orders[o].driverId
  BY DEF CommitReplan, TypeOK, OrderRow

LEMMA DriverMatchesStatusStep ==
  ASSUME TypeOK, RequestsLegal, DriverMatchesStatus, [Next]_vars
  PROVE  DriverMatchesStatus'
  <1> DEFINE Matches(row) ==
               /\ row.status \in {Absent, "PENDING", "RESCHEDULED"} => row.driverId = None
               /\ row.status \in {"ASSIGNED", "DELIVERED", "RETURNED"} \cup HoldingStatuses
                    => row.driverId # None
  <1>0. \A o \in Orders : Matches(orders[o])
    BY DEF DriverMatchesStatus
  <1> SUFFICES \A o \in Orders : Matches(orders'[o])
    BY DEF DriverMatchesStatus
  <1>1. ASSUME NEW q \in Requests, CommitCreate(q) PROVE \A o \in Orders : Matches(orders'[o])
    BY <1>0, <1>1, CreateCommitRow DEF Absent, HoldingStatuses
  <1>2. ASSUME NEW q \in Requests, CommitAssign(q) PROVE \A o \in Orders : Matches(orders'[o])
    BY <1>0, <1>2, AssignCommitRow, NoneAssumption DEF Absent
  <1>3. ASSUME NEW q \in Requests, CommitStatus(q) PROVE \A o \in Orders : Matches(orders'[o])
    <2> DEFINE r == requests[q]
               row == orders[r.order]
    <2>1. /\ r.order \in Orders /\ r.next \in UpdatableStatuses
          /\ CanTransition(row.status, r.next)
          /\ orders'[r.order] = OrderAfter(row, r.next)
          /\ \A o \in Orders \ {r.order} : orders'[o] = orders[o]
      BY <1>3, StatusCommitIsLegal
    <2>2. row \in OrderRow /\ Matches(row)
      BY <1>0, <2>1 DEF TypeOK
    <2>3. Matches(OrderAfter(row, r.next))
      <3>1. CASE r.next = "RESCHEDULED"
        BY <3>1 DEF OrderAfter, Absent, HoldingStatuses
      <3>2. CASE r.next # "RESCHEDULED"
        <4>1. /\ OrderAfter(row, r.next).status = r.next
              /\ OrderAfter(row, r.next).driverId = row.driverId
          BY <2>2, <3>2 DEF OrderAfter, OrderRow
        <4>2. r.next \in Statuses /\ r.next # "PENDING" /\ r.next # "ASSIGNED"
          BY <2>1 DEF UpdatableStatuses
        <4>3. r.next \in {"DELIVERED", "RETURNED"} \cup HoldingStatuses
                => row.status \in {"ASSIGNED"} \cup HoldingStatuses
          BY <2>1 DEF CanTransition, Transitions, Statuses, HoldingStatuses
        <4> QED BY <2>2, <3>2, <4>1, <4>2, <4>3 DEF Statuses, Absent
      <3> QED BY <3>1, <3>2
    <2> QED BY <1>0, <2>1, <2>3
  <1>4. ASSUME NEW q \in Requests, CommitRoute(q) PROVE \A o \in Orders : Matches(orders'[o])
    BY <1>0, <1>4, RouteCommitRows, NoneAssumption DEF Absent
  <1>5. ASSUME NEW q \in Requests, CommitReplan(q) PROVE \A o \in Orders : Matches(orders'[o])
    BY <1>0, <1>5, ReplanCommitRows
  <1>6. CASE UNCHANGED orders
    BY <1>0, <1>6
  <1>7. ASSUME NEW q \in Requests, CommitProof(q) \/ Drop(q) \/ Read(q) PROVE UNCHANGED orders
    BY <1>7, ReadBegins DEF CommitProof, Drop, Begin
  <1>8. ASSUME NEW d \in Drivers, NEW s \in DriverStatuses, SetDriverStatus(d, s)
        PROVE  UNCHANGED orders
    BY <1>8 DEF SetDriverStatus
  <1> QED
    BY <1>1, <1>2, <1>3, <1>4, <1>5, <1>6, <1>7, <1>8 DEF Next, Commit, vars
LEMMA RequestsLegalStep ==
  ASSUME TypeOK, RequestsLegal, [Next]_vars
  PROVE  RequestsLegal'
  <1>1. ASSUME NEW q \in Requests, CommitCreate(q) PROVE RequestsLegal'
    BY <1>1, CreateCommitRow, EndKeepsRequestsLegal DEF CommitCreate, Absent
  <1>2. ASSUME NEW q \in Requests, CommitAssign(q) PROVE RequestsLegal'
    BY <1>2, AssignCommitRow, EndKeepsRequestsLegal DEF CommitAssign, Unassigned, Absent
  <1>3. ASSUME NEW q \in Requests, CommitStatus(q) PROVE RequestsLegal'
    <2>1. /\ requests[q].order \in Orders /\ requests[q].next \in UpdatableStatuses
          /\ CanTransition(orders[requests[q].order].status, requests[q].next)
          /\ orders'[requests[q].order]
               = OrderAfter(orders[requests[q].order], requests[q].next)
          /\ \A o \in Orders \ {requests[q].order} : orders'[o] = orders[o]
      BY <1>3, StatusCommitIsLegal
    <2>2. orders[requests[q].order].status # Absent
      BY <2>1 DEF CanTransition, Statuses, Absent
    <2>3. orders'[requests[q].order].status # Absent
      BY <2>1 DEF OrderAfter, UpdatableStatuses, Statuses, Absent, TypeOK, OrderRow
    <2> QED BY <1>3, <2>1, <2>2, <2>3, EndKeepsRequestsLegal DEF CommitStatus
  <1>4. ASSUME NEW q \in Requests, CommitRoute(q) PROVE RequestsLegal'
    BY <1>4, RouteCommitRows, EndKeepsRequestsLegal DEF CommitRoute, Unassigned, Absent
  <1>5. ASSUME NEW q \in Requests, CommitReplan(q) PROVE RequestsLegal'
    BY <1>5, ReplanCommitRows, EndKeepsRequestsLegal DEF CommitReplan
  <1>6. ASSUME NEW q \in Requests, CommitProof(q) \/ Drop(q) PROVE RequestsLegal'
    BY <1>6, EndKeepsRequestsLegal DEF CommitProof, Drop
  <1>7. ASSUME NEW q \in Requests, Read(q) PROVE RequestsLegal'
    BY <1>7, ReadKeepsRequestsLegal
  <1>8. ASSUME NEW d \in Drivers, NEW s \in DriverStatuses, SetDriverStatus(d, s)
        PROVE  RequestsLegal'
    BY <1>8 DEF SetDriverStatus, RequestsLegal
  <1>9. CASE UNCHANGED vars
    BY <1>9 DEF vars, RequestsLegal
  <1> QED
    BY <1>1, <1>2, <1>3, <1>4, <1>5, <1>6, <1>7, <1>8, <1>9 DEF Next, Commit

(* Only a status transaction moves a lock: the others leave every          *)
(* activeOrderId alone, and no order enters the field in them.             *)
LEMMA LockUntouched ==
  ASSUME TypeOK, HoldingOrderIsLocked,
         \A d \in Drivers : drivers'[d].activeOrderId = drivers[d].activeOrderId,
         \A o \in Orders : \/ orders'[o].status = orders[o].status
                          \/ orders'[o].status \notin HoldingStatuses
  PROVE  HoldingOrderIsLocked'
  BY DEF HoldingOrderIsLocked, Holds

LEMMA BusyKeepsLocks ==
  ASSUME TypeOK, NEW d \in Drivers
  PROVE  \A e \in Drivers : Busy(d)[e].activeOrderId = drivers[e].activeOrderId
  BY DEF Busy, TypeOK, DriverRow

LEMMA StatusKeepsLocks ==
  ASSUME TypeOK, RequestsLegal, HoldingOrderIsLocked, NEW q \in Requests, CommitStatus(q)
  PROVE  HoldingOrderIsLocked'
  <1> DEFINE r == requests[q]
             d == r.read.driverId
  <1>1. /\ r.order \in Orders /\ r.next \in UpdatableStatuses /\ r.read \in OrderRow
        /\ CanTransition(orders[r.order].status, r.next)
        /\ NeedsDriver(r.next) => d # None
        /\ orders'[r.order] = OrderAfter(orders[r.order], r.next)
        /\ \A o \in Orders \ {r.order} : orders'[o] = orders[o]
    BY StatusCommitIsLegal
  <1>2. d \in Drivers \cup {None}
    BY <1>1 DEF OrderRow
  <1>3. orders'[r.order].status = r.next
    BY <1>1 DEF OrderAfter, TypeOK, OrderRow
  <1>4. \A e \in Drivers : e # d => drivers'[e] = drivers[e]
    BY <1>2 DEF CommitStatus, DriversAfter, TypeOK
  <1>5. d \in Drivers => drivers'[d] = DriverAfter(drivers[d], r.order, r.next)
    BY NoneAssumption DEF CommitStatus, DriversAfter, TypeOK
  <1> SUFFICES ASSUME NEW o \in Orders, orders'[o].status \in HoldingStatuses
               PROVE  \E e \in Drivers : drivers'[e].activeOrderId = o
    BY DEF HoldingOrderIsLocked, Holds
  <1>6. CASE r.next = "IN_PROGRESS"
    <2>1. d \in Drivers /\ drivers[d].activeOrderId \in {None, r.order}
      BY <1>1, <1>2, <1>6 DEF NeedsDriver, CommitStatus, StatusAccepted, DriverAgrees
    <2>2. drivers'[d].activeOrderId = r.order
      BY <1>5, <1>6, <2>1 DEF DriverAfter, TypeOK, DriverRow
    <2>3. CASE o = r.order
      BY <2>1, <2>2, <2>3
    <2>4. CASE o # r.order
      <3>1. PICK e \in Drivers : drivers[e].activeOrderId = o
        BY <1>1, <2>4 DEF HoldingOrderIsLocked, Holds
      <3>2. e # d
        BY <2>1, <2>4, <3>1, NoneAssumption
      <3> QED BY <1>4, <3>1, <3>2
    <2> QED BY <2>3, <2>4
  <1>7. CASE ReleasesDriver(r.next)
    <2>1. o # r.order
      BY <1>3, <1>7 DEF ReleasesDriver, HoldingStatuses
    <2>2. PICK e \in Drivers : drivers[e].activeOrderId = o
      BY <1>1, <2>1 DEF HoldingOrderIsLocked, Holds
    <2>3. e # d
      BY <1>7, <2>1, <2>2, NoneAssumption DEF CommitStatus, StatusAccepted, DriverAgrees
    <2> QED BY <1>4, <2>2, <2>3
  <1>8. CASE r.next # "IN_PROGRESS" /\ ~ReleasesDriver(r.next)
    <2>1. \A e \in Drivers : drivers'[e] = drivers[e]
      BY <1>4, <1>5, <1>8 DEF DriverAfter
    <2>2. orders[o].status \in HoldingStatuses
      <3>1. CASE o = r.order
        <4>1. r.next \in {"ARRIVED", "DELIVERY_FAILED", "RETURNING"}
          BY <1>3, <1>8, <3>1 DEF HoldingStatuses
        <4> QED BY <1>1, <3>1, <4>1 DEF CanTransition, Transitions, Statuses, HoldingStatuses
      <3>2. CASE o # r.order
        BY <1>1, <3>2
      <3> QED BY <3>1, <3>2
    <2> QED BY <2>1, <2>2 DEF HoldingOrderIsLocked, Holds
  <1> QED BY <1>6, <1>7, <1>8

LEMMA HoldingOrderIsLockedStep ==
  ASSUME TypeOK, RequestsLegal, HoldingOrderIsLocked, [Next]_vars
  PROVE  HoldingOrderIsLocked'
  <1>1. ASSUME NEW q \in Requests, CommitCreate(q) PROVE HoldingOrderIsLocked'
    <2>1. \A d \in Drivers : drivers'[d].activeOrderId = drivers[d].activeOrderId
      BY <1>1, CreateCommitRow, BusyKeepsLocks DEF CommitCreate
    <2> QED BY <1>1, <2>1, CreateCommitRow, LockUntouched DEF HoldingStatuses
  <1>2. ASSUME NEW q \in Requests, CommitAssign(q) PROVE HoldingOrderIsLocked'
    <2>1. \A d \in Drivers : drivers'[d].activeOrderId = drivers[d].activeOrderId
      BY <1>2, AssignCommitRow, BusyKeepsLocks DEF CommitAssign
    <2> QED BY <1>2, <2>1, AssignCommitRow, LockUntouched DEF HoldingStatuses
  <1>3. ASSUME NEW q \in Requests, CommitStatus(q) PROVE HoldingOrderIsLocked'
    BY <1>3, StatusKeepsLocks
  <1>4. ASSUME NEW q \in Requests, CommitRoute(q) PROVE HoldingOrderIsLocked'
    <2>1. \A d \in Drivers : drivers'[d].activeOrderId = drivers[d].activeOrderId
      BY <1>4, RouteCommitRows, BusyKeepsLocks DEF CommitRoute
    <2> QED BY <1>4, <2>1, RouteCommitRows, LockUntouched DEF HoldingStatuses
  <1>5. ASSUME NEW q \in Requests, CommitReplan(q) PROVE HoldingOrderIsLocked'
    BY <1>5, ReplanCommitRows, LockUntouched DEF CommitReplan
  <1>6. ASSUME NEW q \in Requests, CommitProof(q) \/ Drop(q) \/ Read(q)
        PROVE  HoldingOrderIsLocked'
    BY <1>6, ReadBegins, LockUntouched DEF CommitProof, Drop, Begin
  <1>7. ASSUME NEW d \in Drivers, NEW s \in DriverStatuses, SetDriverStatus(d, s)
        PROVE  HoldingOrderIsLocked'
    <2>1. \A e \in Drivers : drivers'[e].activeOrderId = drivers[e].activeOrderId
      BY <1>7 DEF SetDriverStatus, TypeOK, DriverRow
    <2> QED BY <1>7, <2>1, LockUntouched DEF SetDriverStatus
  <1>8. CASE UNCHANGED vars
    BY <1>8, LockUntouched DEF vars
  <1> QED
    BY <1>1, <1>2, <1>3, <1>4, <1>5, <1>6, <1>7, <1>8 DEF Next, Commit

(* However many requests overlap, an order in the field is in the          *)
(* activeOrderId of a driver, an order has a driver in exactly the         *)
(* statuses that mean somebody has its parcel.                             *)
THEOREM FleetIsSafe == Spec => []FleetInvariant
  <1>1. Init => FleetInvariant
    BY InitTyped DEF Init, FleetInvariant, RequestsLegal, DriverMatchesStatus,
       HoldingOrderIsLocked, Holds, HoldingStatuses, Idle, Absent
  <1>2. FleetInvariant /\ [Next]_vars => FleetInvariant'
    BY TypeStep, RequestsLegalStep, DriverMatchesStatusStep, HoldingOrderIsLockedStep
       DEF FleetInvariant
  <1> QED BY <1>1, <1>2, PTL DEF Spec

THEOREM OrderInTheFieldIsLocked == Spec => []HoldingOrderIsLocked
  <1>1. FleetInvariant => HoldingOrderIsLocked
    BY DEF FleetInvariant
  <1> QED BY <1>1, FleetIsSafe, PTL

THEOREM DriverFollowsStatus == Spec => []DriverMatchesStatus
  <1>1. FleetInvariant => DriverMatchesStatus
    BY DEF FleetInvariant
  <1> QED BY <1>1, FleetIsSafe, PTL

-----------------------------------------------------------------------------
(* Fleet implements OrderJourney: a handler that reads, waits and writes   *)
(* shows every order either one atomic legal step or nothing.              *)

LEMMA InitRefines == Init => Journey!Init
  BY DEF Init, Journey!Init, Absent

(* A step that leaves status, driver and proofs alone is a stutter.        *)
LEMMA Stutters ==
  ASSUME \A o \in Orders : /\ orders'[o].status = orders[o].status
                           /\ orders'[o].driverId = orders[o].driverId,
         UNCHANGED proofs
  PROVE  UNCHANGED Journey!vars
  BY DEF Journey!vars

(* The lifecycle rules are the same in both modules. *)
LEMMA SameRules ==
  /\ \A s, t : Journey!CanTransition(s, t) <=> CanTransition(s, t)
  /\ \A s : Journey!NeedsDriver(s) <=> NeedsDriver(s)
  /\ Journey!UpdatableStatuses = UpdatableStatuses
  BY DEF Journey!CanTransition, CanTransition, Journey!Statuses, Statuses,
         Journey!Transitions, Transitions, Journey!NeedsDriver, NeedsDriver,
         Journey!UpdatableStatuses, UpdatableStatuses

LEMMA CreateRefines ==
  ASSUME TypeOK, RequestsLegal, NEW q \in Requests, CommitCreate(q)
  PROVE  Journey!Next
  <1>1. PICK o \in Orders, d \in Drivers \cup {None} :
          /\ orders[o].status = Absent
          /\ orders'[o].status = IF d = None THEN "PENDING" ELSE "ASSIGNED"
          /\ orders'[o].driverId = d
          /\ \A p \in Orders \ {o} : orders'[p] = orders[p]
    BY CreateCommitRow
  <1>2. UNCHANGED proofs
    BY DEF CommitCreate
  <1>3. Journey!Create(o, d)
    BY <1>1, <1>2 DEF Journey!Create, Absent
  <1> QED BY <1>3 DEF Journey!Next

(* A direct assignment takes one order, a route all of its orders.         *)
LEMMA AssignmentRefines ==
  ASSUME NEW S \in SUBSET Orders, NEW d \in Drivers,
         \A o \in S : /\ Unassigned(o)
                      /\ orders'[o].status = "ASSIGNED"
                      /\ orders'[o].driverId = d,
         \A o \in Orders \ S : orders'[o] = orders[o],
         UNCHANGED proofs
  PROVE  Journey!Next
  <1>1. \A o \in S : CanTransition(orders[o].status, "ASSIGNED") /\ orders[o].driverId = None
    BY DEF Unassigned, CanTransition, Transitions, Statuses
  <1>2. Journey!Assign(S, d)
    BY <1>1, SameRules DEF Journey!Assign
  <1> QED BY <1>2 DEF Journey!Next

LEMMA StatusRefines ==
  ASSUME TypeOK, RequestsLegal, DriverMatchesStatus, NEW q \in Requests, CommitStatus(q)
  PROVE  Journey!Next
  <1>1. PICK o \in Orders, next \in UpdatableStatuses :
          /\ CanTransition(orders[o].status, next)
          /\ next = "DELIVERED" => o \in proofs
          /\ orders'[o] = OrderAfter(orders[o], next)
          /\ \A p \in Orders \ {o} : orders'[p] = orders[p]
    BY StatusCommitIsLegal
  <1>2. UNCHANGED proofs
    BY DEF CommitStatus
  <1>3. orders[o] \in OrderRow
    BY DEF TypeOK
  <1>4. NeedsDriver(next) => orders[o].driverId # None
    <2>1. NeedsDriver(next) => orders[o].status \in {"ASSIGNED"} \cup HoldingStatuses
      BY <1>1 DEF NeedsDriver, CanTransition, Transitions, Statuses, HoldingStatuses
    <2> QED BY <2>1 DEF DriverMatchesStatus
  <1>5. /\ orders'[o].status = next
        /\ orders'[o].driverId = IF next = "RESCHEDULED" THEN None ELSE orders[o].driverId
    BY <1>1, <1>3 DEF OrderAfter, OrderRow
  <1>6. Journey!Advance(o, next)
    BY <1>1, <1>2, <1>4, <1>5, SameRules DEF Journey!Advance
  <1> QED BY <1>6, SameRules DEF Journey!Next

LEMMA StepRefines ==
  ASSUME FleetInvariant, [Next]_vars
  PROVE  [Journey!Next]_(Journey!vars)
  <1> USE DEF FleetInvariant
  <1>1. ASSUME NEW q \in Requests, CommitCreate(q) PROVE Journey!Next
    BY <1>1, CreateRefines
  <1>2. ASSUME NEW q \in Requests, CommitAssign(q) PROVE Journey!Next
    <2>1. PICK o \in Orders, d \in Drivers :
            /\ Unassigned(o)
            /\ orders'[o].status = "ASSIGNED"
            /\ orders'[o].driverId = d
            /\ \A p \in Orders \ {o} : orders'[p] = orders[p]
      BY <1>2, AssignCommitRow
    <2>2. UNCHANGED proofs /\ {o} \in SUBSET Orders /\ \A p \in {o} : p = o
      BY <1>2 DEF CommitAssign
    <2> HIDE DEF FleetInvariant
    <2> QED BY <2>1, <2>2, AssignmentRefines
  <1>3. ASSUME NEW q \in Requests, CommitStatus(q) PROVE Journey!Next
    BY <1>3, StatusRefines
  <1>4. ASSUME NEW q \in Requests, CommitRoute(q) PROVE Journey!Next
    <2>1. PICK S \in SUBSET Orders, d \in Drivers :
            /\ \A o \in S : /\ Unassigned(o)
                            /\ orders'[o].status = "ASSIGNED"
                            /\ orders'[o].driverId = d
            /\ \A o \in Orders \ S : orders'[o] = orders[o]
      BY <1>4, RouteCommitRows DEF Members
    <2>2. UNCHANGED proofs
      BY <1>4 DEF CommitRoute
    <2> QED BY <2>1, <2>2, AssignmentRefines
  <1>5. ASSUME NEW q \in Requests, CommitReplan(q) PROVE UNCHANGED Journey!vars
    BY <1>5, ReplanCommitRows, Stutters DEF CommitReplan
  <1>6. ASSUME NEW q \in Requests, CommitProof(q) PROVE Journey!Next
    <2>1. PICK o \in Orders : /\ orders[o].status # "ABSENT"
                             /\ proofs' = proofs \cup {o}
                             /\ UNCHANGED orders
      BY <1>6, RequestShapes DEF CommitProof, RequestsLegal, Absent
    <2>2. Journey!Prove(o)
      BY <2>1 DEF Journey!Prove
    <2> QED BY <2>2 DEF Journey!Next
  <1>7. ASSUME NEW q \in Requests, Read(q) \/ Drop(q) PROVE UNCHANGED Journey!vars
    BY <1>7, ReadBegins, Stutters DEF Drop, Begin
  <1>8. ASSUME NEW d \in Drivers, NEW s \in DriverStatuses, SetDriverStatus(d, s)
        PROVE  UNCHANGED Journey!vars
    BY <1>8, Stutters DEF SetDriverStatus
  <1>9. CASE UNCHANGED vars
    BY <1>9, Stutters DEF vars
  <1> QED
    BY <1>1, <1>2, <1>3, <1>4, <1>5, <1>6, <1>7, <1>8, <1>9 DEF Next, Commit

(* However many requests overlap and however stale their snapshots, what   *)
(* the table shows of each order is a behaviour of its lifecycle, taken    *)
(* one atomic legal step at a time.                                        *)
THEOREM FleetImplementsJourney == Spec => JourneySpec
  BY InitRefines, StepRefines, FleetIsSafe, PTL DEF Spec, JourneySpec, Journey!Spec

-----------------------------------------------------------------------------
(* What the handlers guarantee when requests do not overlap, and only      *)
(* then: a driver's lock names the order the driver is working on, so no   *)
(* driver has two orders in the field.  The run FleetLockRace shows that   *)
(* two overlapping requests are enough to break it.  The invariant behind  *)
(* it is that a lone request's snapshot is the row it will write.          *)

OneAtATime == \A p, q \in Requests : p = q

SnapshotIsCurrent ==
  \A q \in Requests :
    requests[q].op = "status" => orders[requests[q].order] = requests[q].read

AloneInvariant == FleetInvariant /\ SnapshotIsCurrent /\ LockAgreement

LEMMA SnapshotStep ==
  ASSUME OneAtATime, TypeOK, SnapshotIsCurrent, [Next]_vars
  PROVE  SnapshotIsCurrent'
  <1>1. ASSUME NEW q \in Requests, End(q) PROVE SnapshotIsCurrent'
    BY <1>1 DEF End, OneAtATime, SnapshotIsCurrent, TypeOK, Idle
  <1>2. ASSUME NEW q \in Requests, Commit(q) \/ Drop(q) PROVE SnapshotIsCurrent'
    BY <1>1, <1>2 DEF Commit, CommitCreate, CommitAssign, CommitStatus, CommitRoute,
       CommitReplan, CommitProof, Drop
  <1>3. ASSUME NEW q \in Requests, Read(q) PROVE SnapshotIsCurrent'
    <2> DEFINE Current(r) == r.op = "status" => orders[r.order] = r.read
    <2>1. ASSUME NEW o \in Orders, NEW d \in Drivers \cup {None}, ReadCreate(q, o, d)
          PROVE  \E r : Current(r) /\ Begin(q, r)
      BY <2>1 DEF ReadCreate
    <2>2. ASSUME NEW o \in Orders, NEW d \in Drivers, ReadAssign(q, o, d)
          PROVE  \E r : Current(r) /\ Begin(q, r)
      BY <2>2 DEF ReadAssign
    <2>3. ASSUME NEW o \in Orders, NEW next \in UpdatableStatuses, ReadStatus(q, o, next)
          PROVE  \E r : Current(r) /\ Begin(q, r)
      BY <2>3 DEF ReadStatus
    <2>4. ASSUME NEW t \in Routes, NEW d \in Drivers, NEW S \in SUBSET Orders,
                 NEW plan \in Plans(S), ReadRoute(q, t, d, S, plan)
          PROVE  \E r : Current(r) /\ Begin(q, r)
      BY <2>4 DEF ReadRoute
    <2>5. ASSUME NEW t \in Routes, NEW plan \in Plans(StopsOf(t)), ReadReplan(q, t, plan)
          PROVE  \E r : Current(r) /\ Begin(q, r)
      BY <2>5 DEF ReadReplan
    <2>6. ASSUME NEW o \in Orders, ReadProof(q, o)
          PROVE  \E r : Current(r) /\ Begin(q, r)
      BY <2>6 DEF ReadProof
    <2>7. PICK r : Current(r) /\ Begin(q, r)
      BY <1>3, <2>1, <2>2, <2>3, <2>4, <2>5, <2>6 DEF Read
    <2>8. orders' = orders /\ requests'[q] = r
      BY <2>7 DEF Begin, TypeOK
    <2> QED BY <2>7, <2>8 DEF OneAtATime, SnapshotIsCurrent
  <1>4. ASSUME NEW d \in Drivers, NEW s \in DriverStatuses, SetDriverStatus(d, s)
        PROVE  SnapshotIsCurrent'
    BY <1>4 DEF SetDriverStatus, SnapshotIsCurrent
  <1>5. CASE UNCHANGED vars
    BY <1>5 DEF vars, SnapshotIsCurrent
  <1> QED BY <1>2, <1>3, <1>4, <1>5 DEF Next

(* A step that moves no lock agrees with the locks if the orders it        *)
(* touches are not in the field, before it and after it.                   *)
LEMMA AgreementUntouched ==
  ASSUME LockAgreement,
         \A d \in Drivers : drivers'[d].activeOrderId = drivers[d].activeOrderId,
         \A o \in Orders :
           \/ /\ orders'[o].status = orders[o].status
              /\ orders'[o].driverId = orders[o].driverId
           \/ /\ orders[o].status \notin HoldingStatuses
              /\ orders'[o].status \notin HoldingStatuses
  PROVE  LockAgreement'
  BY DEF LockAgreement, Holds

(* Starting, releasing and every step between them keep the agreement,     *)
(* because the driver in the snapshot is the order's driver.               *)
LEMMA StatusKeepsAgreement ==
  ASSUME AloneInvariant, NEW q \in Requests, CommitStatus(q)
  PROVE  LockAgreement'
  <1> DEFINE r == requests[q]
             d == r.read.driverId
  <1>1. /\ r.order \in Orders /\ r.next \in UpdatableStatuses /\ r.read \in OrderRow
        /\ CanTransition(orders[r.order].status, r.next)
        /\ NeedsDriver(r.next) => d # None
        /\ orders'[r.order] = OrderAfter(orders[r.order], r.next)
        /\ \A o \in Orders \ {r.order} : orders'[o] = orders[o]
    BY StatusCommitIsLegal DEF AloneInvariant, FleetInvariant
  <1>2. orders[r.order].driverId = d /\ orders[r.order] \in OrderRow
    BY <1>1 DEF AloneInvariant, FleetInvariant, SnapshotIsCurrent, CommitStatus, TypeOK
  <1>3. /\ orders'[r.order].status = r.next
        /\ r.next # "RESCHEDULED" => orders'[r.order].driverId = d
    BY <1>1, <1>2 DEF OrderAfter, OrderRow
  <1>4. /\ d \in Drivers \cup {None}
        /\ \A e \in Drivers : e # d => drivers'[e] = drivers[e]
        /\ d \in Drivers => drivers'[d] = DriverAfter(drivers[d], r.order, r.next)
    BY <1>1, NoneAssumption
       DEF OrderRow, CommitStatus, DriversAfter, AloneInvariant, FleetInvariant, TypeOK
  <1>5. \A e \in Drivers, o \in Orders :
          drivers[e].activeOrderId = o
            <=> orders[o].status \in HoldingStatuses /\ orders[o].driverId = e
    BY DEF AloneInvariant, LockAgreement, Holds
  <1> SUFFICES ASSUME NEW e \in Drivers, NEW o \in Orders
               PROVE  drivers'[e].activeOrderId = o
                        <=> orders'[o].status \in HoldingStatuses /\ orders'[o].driverId = e
    BY DEF LockAgreement, Holds
  <1>6. CASE r.next = "IN_PROGRESS"
    <2>1. d \in Drivers /\ drivers[d].activeOrderId \in {None, r.order}
      BY <1>1, <1>4, <1>6 DEF NeedsDriver, CommitStatus, StatusAccepted, DriverAgrees
    <2>2. drivers'[d].activeOrderId = r.order
      BY <1>4, <1>6, <2>1 DEF DriverAfter, DriverRow, AloneInvariant, FleetInvariant, TypeOK
    <2>3. orders[r.order].status = "ASSIGNED" /\ "ASSIGNED" \notin HoldingStatuses
      BY <1>1, <1>6 DEF CanTransition, Transitions, Statuses, HoldingStatuses
    <2>4. r.next \in HoldingStatuses /\ orders'[r.order].driverId = d
      BY <1>3, <1>6 DEF HoldingStatuses
    <2>5. CASE o = r.order
      BY <1>3, <1>4, <1>5, <2>2, <2>3, <2>4, <2>5
    <2>6. CASE o # r.order
      BY <1>1, <1>4, <1>5, <2>1, <2>2, <2>6, NoneAssumption
    <2> QED BY <2>5, <2>6
  <1>7. CASE ReleasesDriver(r.next)
    <2>1. r.next \notin HoldingStatuses /\ r.next # "IN_PROGRESS"
      BY <1>7 DEF ReleasesDriver, HoldingStatuses
    <2>2. d \in Drivers => /\ drivers[d].activeOrderId \in {None, r.order}
                           /\ drivers'[d].activeOrderId = None
      BY <1>4, <1>7, <2>1, NoneAssumption
         DEF DriverAfter, CommitStatus, StatusAccepted, DriverAgrees
    <2>3. CASE e = d
      BY <1>1, <1>3, <1>5, <2>1, <2>2, <2>3, NoneAssumption
    <2>4. CASE e # d
      BY <1>1, <1>2, <1>3, <1>4, <1>5, <2>1, <2>4
    <2> QED BY <2>3, <2>4
  <1>8. CASE r.next # "IN_PROGRESS" /\ ~ReleasesDriver(r.next)
    <2>1. drivers'[e] = drivers[e]
      BY <1>4, <1>8 DEF DriverAfter
    <2>2. r.next \in {"ARRIVED", "DELIVERY_FAILED", "RETURNING"}
      BY <1>1, <1>8 DEF UpdatableStatuses, Statuses, ReleasesDriver
    <2>3. orders[r.order].status \in HoldingStatuses /\ r.next \in HoldingStatuses
      BY <1>1, <2>2 DEF CanTransition, Transitions, Statuses, HoldingStatuses
    <2>4. orders'[r.order].driverId = d
      BY <1>3, <2>2
    <2> QED BY <1>1, <1>2, <1>3, <1>5, <2>1, <2>3, <2>4
  <1> QED BY <1>6, <1>7, <1>8

LEMMA LockAgreementStep ==
  ASSUME AloneInvariant, [Next]_vars
  PROVE  LockAgreement'
  <1> USE DEF AloneInvariant, FleetInvariant
  <1>1. ASSUME NEW q \in Requests, CommitCreate(q) PROVE LockAgreement'
    <2>1. \A d \in Drivers : drivers'[d].activeOrderId = drivers[d].activeOrderId
      BY <1>1, CreateCommitRow, BusyKeepsLocks DEF CommitCreate
    <2> QED BY <1>1, <2>1, CreateCommitRow, AgreementUntouched DEF HoldingStatuses, Absent
  <1>2. ASSUME NEW q \in Requests, CommitAssign(q) PROVE LockAgreement'
    <2>1. \A d \in Drivers : drivers'[d].activeOrderId = drivers[d].activeOrderId
      BY <1>2, AssignCommitRow, BusyKeepsLocks DEF CommitAssign
    <2> QED BY <1>2, <2>1, AssignCommitRow, AgreementUntouched DEF HoldingStatuses, Unassigned
  <1>3. ASSUME NEW q \in Requests, CommitStatus(q) PROVE LockAgreement'
    BY <1>3, StatusKeepsAgreement
  <1>4. ASSUME NEW q \in Requests, CommitRoute(q) PROVE LockAgreement'
    <2>1. \A d \in Drivers : drivers'[d].activeOrderId = drivers[d].activeOrderId
      BY <1>4, RouteCommitRows, BusyKeepsLocks DEF CommitRoute
    <2> QED BY <1>4, <2>1, RouteCommitRows, AgreementUntouched DEF HoldingStatuses, Unassigned
  <1>5. ASSUME NEW q \in Requests, CommitReplan(q) PROVE LockAgreement'
    BY <1>5, ReplanCommitRows, AgreementUntouched DEF CommitReplan
  <1>6. ASSUME NEW q \in Requests, CommitProof(q) \/ Drop(q) \/ Read(q)
        PROVE  LockAgreement'
    BY <1>6, ReadBegins, AgreementUntouched DEF CommitProof, Drop, Begin
  <1>7. ASSUME NEW d \in Drivers, NEW s \in DriverStatuses, SetDriverStatus(d, s)
        PROVE  LockAgreement'
    <2>1. \A e \in Drivers : drivers'[e].activeOrderId = drivers[e].activeOrderId
      BY <1>7 DEF SetDriverStatus, TypeOK, DriverRow
    <2> QED BY <1>7, <2>1, AgreementUntouched DEF SetDriverStatus
  <1>8. CASE UNCHANGED vars
    BY <1>8, AgreementUntouched DEF vars
  <1> QED
    BY <1>1, <1>2, <1>3, <1>4, <1>5, <1>6, <1>7, <1>8 DEF Next, Commit

(* When requests do not overlap, activeOrderId is the order in the field   *)
(* and is empty when there is none.                                        *)
THEOREM LocksAgreeOneAtATime ==
  ASSUME OneAtATime
  PROVE  Spec => []LockAgreement
  <1>1. Init => AloneInvariant
    <2>1. Init => FleetInvariant
      BY InitTyped DEF Init, FleetInvariant, RequestsLegal, DriverMatchesStatus,
         HoldingOrderIsLocked, Holds, HoldingStatuses, Idle, Absent
    <2>2. Init => SnapshotIsCurrent /\ LockAgreement
      BY NoneAssumption DEF Init, SnapshotIsCurrent, LockAgreement, Holds,
         HoldingStatuses, Idle, Absent
    <2> QED BY <2>1, <2>2 DEF AloneInvariant
  <1>2. AloneInvariant /\ [Next]_vars => AloneInvariant'
    BY TypeStep, RequestsLegalStep, DriverMatchesStatusStep, HoldingOrderIsLockedStep,
       SnapshotStep, LockAgreementStep DEF AloneInvariant, FleetInvariant
  <1>3. AloneInvariant => LockAgreement
    BY DEF AloneInvariant
  <1> QED BY <1>1, <1>2, <1>3, PTL DEF Spec

(* When requests do not overlap, no driver has two orders in the field.    *)
THEOREM OneActiveOrderOneAtATime ==
  ASSUME OneAtATime
  PROVE  Spec => []OneActiveOrderPerDriver
  <1>1. TypeOK /\ DriverMatchesStatus /\ LockAgreement => OneActiveOrderPerDriver
    <2> SUFFICES ASSUME TypeOK, DriverMatchesStatus, LockAgreement,
                        NEW o \in Orders, NEW p \in Orders, Holds(o), Holds(p),
                        orders[o].driverId = orders[p].driverId
                 PROVE  o = p
      BY DEF OneActiveOrderPerDriver
    <2>1. orders[o].driverId \in Drivers
      BY DEF TypeOK, OrderRow, DriverMatchesStatus, Holds
    <2> QED BY <2>1 DEF LockAgreement
  <1>2. FleetInvariant => TypeOK /\ DriverMatchesStatus
    BY DEF FleetInvariant
  <1> QED BY <1>1, <1>2, FleetIsSafe, LocksAgreeOneAtATime, PTL

-----------------------------------------------------------------------------
(* Routes and their stops.  However requests overlap, a route that has     *)
(* started keeps its plan and no write of positions is lost: the           *)
(* transaction of POST /routes writes a route nobody has written before,   *)
(* every other one addresses a stop that exists.  When requests do not     *)
(* overlap, the stop and the latest event follow the order they are about, *)
(* and an order that was started can be finished.                          *)

\* A route identifier is fresh until its transaction commits: it has no stops and
\* no other request creates it.  An order is on a route that exists, and on none
\* while nobody has it.
RoutesFresh ==
  /\ \A t \in Routes : routes[t].status = Absent =>
       routes[t].revision = 0 /\ \A o \in Orders : stops[t][o].key = 0
  /\ \A q \in Requests : requests[q].op = "route" =>
       /\ routes[requests[q].route].status = Absent
       /\ \A p \in Requests :
            requests[p].op = "route" /\ requests[p].route = requests[q].route => p = q
  /\ \A o \in Orders :
       /\ orders[o].routeId # None => routes[orders[o].routeId].status # Absent
       /\ orders[o].status \in {Absent, "PENDING", "RESCHEDULED"} => orders[o].routeId = None

PlansInvariant == FleetInvariant /\ RoutesFresh

(* What a transaction writes to routes and stops.                          *)
LEMMA StatusCommitPlans ==
  ASSUME TypeOK, NEW q \in Requests, CommitStatus(q)
  PROVE  LET r == requests[q] IN
         /\ \A t \in Routes :
              /\ routes'[t].revision = routes[t].revision
              /\ \/ routes'[t].status = routes[t].status
                 \/ OnRoute(r.read) /\ r.read.routeId = t /\ routes'[t].status = "IN_PROGRESS"
         /\ \A t \in Routes, o \in Orders :
              /\ stops'[t][o].key = stops[t][o].key
              /\ stops'[t][o].sequence = stops[t][o].sequence
              /\ stops'[t][o].status = IF OnRoute(r.read) /\ r.read.routeId = t /\ r.order = o
                                       THEN r.next ELSE stops[t][o].status
         /\ OnRoute(r.read) => /\ r.read.routeId \in Routes
                               /\ stops[r.read.routeId][r.order].key # 0
  <1> DEFINE r == requests[q]
  <1>1. r.order \in Orders /\ r.next \in UpdatableStatuses /\ r.read \in OrderRow
    BY RequestShapes DEF CommitStatus
  <1>2. r.read.routeId \in Routes \cup {None}
    BY <1>1 DEF OrderRow
  <1>3. stops' = StopsAfter(r) /\ routes' = RoutesAfter(r) /\ StopExists(r)
    BY DEF CommitStatus, StatusAccepted
  <1>4. OnRoute(r.read) => r.read.routeId \in Routes /\ stops[r.read.routeId][r.order].key # 0
    BY <1>2, <1>3 DEF OnRoute, StopExists
  <1>5. ASSUME NEW t \in Routes
        PROVE  /\ routes'[t].revision = routes[t].revision
               /\ \/ routes'[t].status = routes[t].status
                  \/ OnRoute(r.read) /\ r.read.routeId = t /\ routes'[t].status = "IN_PROGRESS"
    BY <1>3, <1>4 DEF RoutesAfter, TypeOK, RouteRow
  <1>6. ASSUME NEW t \in Routes, NEW o \in Orders
        PROVE  /\ stops'[t][o].key = stops[t][o].key
               /\ stops'[t][o].sequence = stops[t][o].sequence
               /\ stops'[t][o].status = IF OnRoute(r.read) /\ r.read.routeId = t /\ r.order = o
                                        THEN r.next ELSE stops[t][o].status
    <2>1. CASE ~OnRoute(r.read)
      BY <1>3, <2>1 DEF StopsAfter
    <2>2. CASE OnRoute(r.read)
      <3>1. stops' = [stops EXCEPT ![r.read.routeId][r.order].status = r.next]
        BY <1>3, <2>2 DEF StopsAfter
      <3>2. stops[t] \in [Orders -> StopRow] /\ stops[t][o] \in StopRow
        BY DEF TypeOK
      <3> QED BY <1>1, <1>4, <2>2, <3>1, <3>2 DEF TypeOK, StopRow
    <2> QED BY <2>1, <2>2
  <1> QED BY <1>4, <1>5, <1>6

LEMMA StatusCommitRows ==
  ASSUME TypeOK, RequestsLegal, NEW q \in Requests, CommitStatus(q)
  PROVE  /\ orders'[requests[q].order].status = requests[q].next
         /\ \A o \in Orders :
              /\ orders'[o].status = "RESCHEDULED" \/ o # requests[q].order
                   => orders'[o].routeId = None \/ orders'[o] = orders[o]
              /\ \/ orders'[o].routeId = None
                 \/ /\ orders'[o].routeId = orders[o].routeId
                    /\ orders'[o].stopSequence = orders[o].stopSequence
  <1> DEFINE r == requests[q]
  <1>1. /\ r.order \in Orders /\ orders'[r.order] = OrderAfter(orders[r.order], r.next)
        /\ \A o \in Orders \ {r.order} : orders'[o] = orders[o]
    BY StatusCommitIsLegal
  <1>2. orders[r.order] \in OrderRow
    BY <1>1 DEF TypeOK
  <1>3. LET row == OrderAfter(orders[r.order], r.next) IN
        /\ row.status = r.next
        /\ IF r.next = "RESCHEDULED" THEN row.routeId = None
           ELSE /\ row.routeId = orders[r.order].routeId
                /\ row.stopSequence = orders[r.order].stopSequence
    BY <1>2 DEF OrderAfter, OrderRow
  <1> HIDE DEF r
  <1>4. orders'[r.order].status = r.next
    BY <1>1, <1>3
  <1>5. \A o \in Orders :
          /\ orders'[o].status = "RESCHEDULED" \/ o # r.order
               => orders'[o].routeId = None \/ orders'[o] = orders[o]
          /\ \/ orders'[o].routeId = None
             \/ /\ orders'[o].routeId = orders[o].routeId
                /\ orders'[o].stopSequence = orders[o].stopSequence
    BY <1>1, <1>3
  <1> QED BY <1>4, <1>5 DEF r

LEMMA RouteCommitPlans ==
  ASSUME TypeOK, RoutesFresh, NEW q \in Requests, CommitRoute(q)
  PROVE  LET r == requests[q] IN
         /\ r.route \in Routes /\ routes[r.route].status = Absent
         /\ routes'[r.route].status = "PLANNED" /\ routes'[r.route].revision = 1
         /\ \A t \in Routes \ {r.route} : routes'[t] = routes[t] /\ stops'[t] = stops[t]
         /\ \A o \in Members(r.plan) : orders'[o].routeId = r.route
         /\ \A o \in Orders \ Members(r.plan) : orders'[o] = orders[o]
  <1>1. requests[q].route \in Routes /\ routes[requests[q].route].status = Absent
    BY RequestShapes DEF CommitRoute, RoutesFresh
  <1> QED BY <1>1 DEF CommitRoute, TypeOK, RouteRow, Members

LEMMA ReplanCommitPlans ==
  ASSUME TypeOK, NEW q \in Requests, CommitReplan(q)
  PROVE  LET r == requests[q] IN
         /\ r.route \in Routes /\ routes[r.route].status = "PLANNED"
         /\ routes'[r.route].status = "PLANNED"
         /\ routes'[r.route].revision # routes[r.route].revision
         /\ \A t \in Routes \ {r.route} : routes'[t] = routes[t] /\ stops'[t] = stops[t]
         /\ \A t \in Routes, o \in Orders : /\ stops'[t][o].key = stops[t][o].key
                                            /\ stops'[t][o].status = stops[t][o].status
         /\ \A o \in Members(r.plan) :
              orders[o].routeId = r.route /\ orders[o].status = "ASSIGNED"
         /\ \A o \in Orders \ Members(r.plan) : orders'[o] = orders[o]
         /\ \A o \in Orders : orders'[o].routeId = orders[o].routeId
  <1> DEFINE r == requests[q]
  <1>1. r.route \in Routes /\ r.plan \in Plan /\ r.revision \in Nat
    BY DEF CommitReplan, TypeOK, Request, Idle, Count
  <1>2. /\ routes[r.route].status = "PLANNED" /\ routes[r.route].revision = r.revision
        /\ \A o \in Members(r.plan) :
             orders[o].routeId = r.route /\ orders[o].status = "ASSIGNED"
    BY DEF CommitReplan, ReplanAccepted
  <1>3. /\ routes'[r.route].status = "PLANNED"
        /\ routes'[r.route].revision = r.revision + 1
        /\ \A t \in Routes \ {r.route} : routes'[t] = routes[t] /\ stops'[t] = stops[t]
    BY <1>1, <1>2 DEF CommitReplan, TypeOK, RouteRow
  <1>4. \A t \in Routes, o \in Orders : /\ stops'[t][o].key = stops[t][o].key
                                        /\ stops'[t][o].status = stops[t][o].status
    <2>1. \A t \in Routes \ {r.route} : stops'[t] = stops[t]
      BY <1>3
    <2>2. \A o \in Orders :
            /\ stops[r.route][o] \in StopRow
            /\ stops'[r.route][o] = IF o \in Members(r.plan)
                                    THEN [stops[r.route][o] EXCEPT !.sequence = r.plan[o]]
                                    ELSE stops[r.route][o]
      BY <1>1 DEF CommitReplan, TypeOK
    <2> QED BY <2>1, <2>2 DEF StopRow
  <1>5. \A o \in Orders : /\ orders[o] \in OrderRow
                          /\ orders'[o] = IF o \in Members(r.plan)
                                          THEN [orders[o] EXCEPT !.stopSequence = r.plan[o]]
                                          ELSE orders[o]
    BY DEF CommitReplan, TypeOK
  <1>6. \A o \in Orders : orders'[o].routeId = orders[o].routeId
    BY <1>5 DEF OrderRow
  <1>7. r.revision + 1 # r.revision
    BY <1>1
  <1> QED BY <1>1, <1>2, <1>3, <1>4, <1>5, <1>6, <1>7

(* Creating and assigning keep the route attributes of the order.          *)
LEMMA GivenKeepsRoute ==
  ASSUME TypeOK, NEW q \in Requests, CommitCreate(q) \/ CommitAssign(q)
  PROVE  \A o \in Orders : /\ orders'[o].routeId = orders[o].routeId
                           /\ orders'[o].stopSequence = orders[o].stopSequence
  <1>1. \E p \in Orders, status \in Statuses, d \in Drivers \cup {None} :
          orders' = [orders EXCEPT ![p] = Given(@, status, d)]
    BY RequestShapes DEF CommitCreate, CommitAssign, Statuses
  <1> QED BY <1>1 DEF Given, TypeOK, OrderRow

LEMMA RouteRequestIsFresh ==
  ASSUME TypeOK, RoutesFresh, NEW q \in Requests, Read(q)
  PROVE  \A p \in Requests : requests'[p].op = "route" =>
           /\ routes[requests'[p].route].status = Absent
           /\ \A s \in Requests :
                requests'[s].op = "route" /\ requests'[s].route = requests'[p].route => s = p
  <1> DEFINE New(r) == r.op = "route" =>
               /\ routes[r.route].status = Absent
               /\ \A p \in Requests : requests[p].op = "route" => requests[p].route # r.route
  <1>1. \E r : New(r) /\ Begin(q, r)
    <2>1. ASSUME NEW o \in Orders, NEW d \in Drivers \cup {None}, ReadCreate(q, o, d)
          PROVE  \E r : New(r) /\ Begin(q, r)
      BY <2>1 DEF ReadCreate
    <2>2. ASSUME NEW o \in Orders, NEW d \in Drivers, ReadAssign(q, o, d)
          PROVE  \E r : New(r) /\ Begin(q, r)
      BY <2>2 DEF ReadAssign
    <2>3. ASSUME NEW o \in Orders, NEW next \in UpdatableStatuses, ReadStatus(q, o, next)
          PROVE  \E r : New(r) /\ Begin(q, r)
      BY <2>3 DEF ReadStatus
    <2>4. ASSUME NEW t \in Routes, NEW d \in Drivers, NEW S \in SUBSET Orders,
                 NEW plan \in Plans(S), ReadRoute(q, t, d, S, plan)
          PROVE  \E r : New(r) /\ Begin(q, r)
      BY <2>4 DEF ReadRoute
    <2>5. ASSUME NEW t \in Routes, NEW plan \in Plans(StopsOf(t)), ReadReplan(q, t, plan)
          PROVE  \E r : New(r) /\ Begin(q, r)
      BY <2>5 DEF ReadReplan
    <2>6. ASSUME NEW o \in Orders, ReadProof(q, o)
          PROVE  \E r : New(r) /\ Begin(q, r)
      BY <2>6 DEF ReadProof
    <2> QED BY <2>1, <2>2, <2>3, <2>4, <2>5, <2>6 DEF Read
  <1>2. PICK r : New(r) /\ Begin(q, r)
    BY <1>1
  <1>3. requests'[q] = r /\ \A p \in Requests \ {q} : requests'[p] = requests[p]
    BY <1>2 DEF Begin, TypeOK
  <1> QED BY <1>2, <1>3 DEF RoutesFresh

(* A step that creates no route keeps the others fresh.                    *)
LEMMA RoutesUntouched ==
  ASSUME TypeOK, RoutesFresh,
         \A q \in Requests : requests'[q] = requests[q] \/ requests'[q] = Idle,
         \A t \in Routes : /\ routes[t].status = Absent => routes'[t].status = Absent
                           /\ routes'[t].status = Absent => routes[t].status = Absent
                           /\ routes[t].status = Absent =>
                                routes'[t].revision = routes[t].revision,
         \A t \in Routes, o \in Orders : stops'[t][o].key = stops[t][o].key,
         \A o \in Orders :
           \/ orders'[o].routeId = None
           \/ /\ orders'[o].routeId = orders[o].routeId
              /\ \/ orders'[o].status = orders[o].status
                 \/ orders'[o].status \notin {Absent, "PENDING", "RESCHEDULED"}
  PROVE  RoutesFresh'
  <1>1. ASSUME NEW t \in Routes, routes'[t].status = Absent
        PROVE  routes'[t].revision = 0 /\ \A o \in Orders : stops'[t][o].key = 0
    BY <1>1 DEF RoutesFresh
  <1>2. ASSUME NEW q \in Requests, requests'[q].op = "route"
        PROVE  /\ routes'[requests'[q].route].status = Absent
               /\ \A p \in Requests :
                    requests'[p].op = "route" /\ requests'[p].route = requests'[q].route
                      => p = q
    <2>1. requests'[q] = requests[q] /\ requests[q].route \in Routes
      BY <1>2, RequestShapes DEF Idle
    <2> QED BY <1>2, <2>1 DEF RoutesFresh, Idle
  <1>3. ASSUME NEW o \in Orders
        PROVE  /\ orders'[o].routeId # None => routes'[orders'[o].routeId].status # Absent
               /\ orders'[o].status \in {Absent, "PENDING", "RESCHEDULED"}
                    => orders'[o].routeId = None
    <2>1. orders[o].routeId \in Routes \cup {None}
      BY DEF TypeOK, OrderRow
    <2> QED BY <2>1 DEF RoutesFresh
  <1> QED BY <1>1, <1>2, <1>3 DEF RoutesFresh

LEMMA RouteKeepsRoutesFresh ==
  ASSUME TypeOK, RoutesFresh, NEW q \in Requests, CommitRoute(q)
  PROVE  RoutesFresh'
  <1> DEFINE r == requests[q]
  <1>1. /\ r.route \in Routes /\ routes[r.route].status = Absent
        /\ routes'[r.route].status = "PLANNED"
        /\ \A t \in Routes \ {r.route} : routes'[t] = routes[t] /\ stops'[t] = stops[t]
        /\ \A o \in Members(r.plan) : orders'[o].routeId = r.route
        /\ \A o \in Orders \ Members(r.plan) : orders'[o] = orders[o]
    BY RouteCommitPlans
  <1>2. r.op = "route" /\ End(q)
    BY DEF CommitRoute
  <1>3. ASSUME NEW t \in Routes, routes'[t].status = Absent
        PROVE  routes'[t].revision = 0 /\ \A o \in Orders : stops'[t][o].key = 0
    <2>1. t # r.route
      BY <1>1, <1>3 DEF Absent
    <2> QED BY <1>1, <1>3, <2>1 DEF RoutesFresh
  <1>4. ASSUME NEW p \in Requests, requests'[p].op = "route"
        PROVE  /\ routes'[requests'[p].route].status = Absent
               /\ \A s \in Requests :
                    requests'[s].op = "route" /\ requests'[s].route = requests'[p].route
                      => s = p
    <2>1. p # q /\ requests'[p] = requests[p]
      BY <1>2, <1>4 DEF End, TypeOK, Idle
    <2>2. requests[p].route \in Routes /\ requests[p].route # r.route
      BY <1>2, <1>4, <2>1, RequestShapes DEF RoutesFresh
    <2>3. \A s \in Requests : requests'[s].op = "route" => requests'[s] = requests[s]
      BY <1>2 DEF End, TypeOK, Idle
    <2> QED BY <1>1, <1>4, <2>1, <2>2, <2>3 DEF RoutesFresh
  <1>5. ASSUME NEW o \in Orders
        PROVE  /\ orders'[o].routeId # None => routes'[orders'[o].routeId].status # Absent
               /\ orders'[o].status \in {Absent, "PENDING", "RESCHEDULED"}
                    => orders'[o].routeId = None
    <2>1. CASE o \in Members(r.plan)
      BY <1>1, <2>1, RouteCommitRows DEF Absent
    <2>2. CASE o \notin Members(r.plan)
      <3>1. orders'[o] = orders[o] /\ orders[o].routeId \in Routes \cup {None}
        BY <1>1, <2>2 DEF TypeOK, OrderRow
      <3> QED BY <1>1, <3>1 DEF RoutesFresh, Absent
    <2> QED BY <2>1, <2>2
  <1> QED BY <1>3, <1>4, <1>5 DEF RoutesFresh

LEMMA StatusKeepsRoutesFresh ==
  ASSUME TypeOK, RequestsLegal, RoutesFresh, NEW q \in Requests, CommitStatus(q)
  PROVE  RoutesFresh'
  <1> DEFINE r == requests[q]
  <1>1. /\ r.order \in Orders /\ r.next \in UpdatableStatuses
        /\ orders'[r.order] = OrderAfter(orders[r.order], r.next)
        /\ \A o \in Orders \ {r.order} : orders'[o] = orders[o]
    BY StatusCommitIsLegal
  <1>2. \A o \in Orders :
          \/ orders'[o].routeId = None
          \/ /\ orders'[o].routeId = orders[o].routeId
             /\ \/ orders'[o].status = orders[o].status
                \/ orders'[o].status \notin {Absent, "PENDING", "RESCHEDULED"}
    BY <1>1 DEF OrderAfter, UpdatableStatuses, Statuses, Absent, TypeOK, OrderRow
  <1>3. /\ \A t \in Routes : /\ routes'[t].revision = routes[t].revision
                             /\ routes'[t].status # routes[t].status =>
                                  /\ OnRoute(r.read) /\ r.read.routeId = t
                                  /\ routes'[t].status = "IN_PROGRESS"
        /\ \A t \in Routes, o \in Orders : stops'[t][o].key = stops[t][o].key
        /\ OnRoute(r.read) => stops[r.read.routeId][r.order].key # 0
    BY StatusCommitPlans
  <1>4. ASSUME NEW t \in Routes
        PROVE  routes[t].status = Absent <=> routes'[t].status = Absent
    BY <1>1, <1>3 DEF RoutesFresh, Absent
  <1>5. \A p \in Requests : requests'[p] = requests[p] \/ requests'[p] = Idle
    BY DEF CommitStatus, End, TypeOK
  <1> HIDE DEF r
  <1> QED BY <1>2, <1>3, <1>4, <1>5, RoutesUntouched

LEMMA RoutesFreshStep ==
  ASSUME TypeOK, RequestsLegal, RoutesFresh, [Next]_vars
  PROVE  RoutesFresh'
  <1>1. ASSUME NEW q \in Requests, CommitCreate(q) PROVE RoutesFresh'
    <2>1. \A o \in Orders : orders'[o].routeId = None \/ orders'[o] = orders[o]
      BY <1>1, CreateCommitRow, GivenKeepsRoute DEF RoutesFresh
    <2> QED BY <1>1, <2>1, RoutesUntouched DEF CommitCreate, End, TypeOK
  <1>2. ASSUME NEW q \in Requests, CommitAssign(q) PROVE RoutesFresh'
    <2>1. \A o \in Orders : orders'[o].routeId = None \/ orders'[o] = orders[o]
      BY <1>2, AssignCommitRow, GivenKeepsRoute DEF RoutesFresh, Unassigned
    <2> QED BY <1>2, <2>1, RoutesUntouched DEF CommitAssign, End, TypeOK
  <1>3. ASSUME NEW q \in Requests, CommitStatus(q) PROVE RoutesFresh'
    BY <1>3, StatusKeepsRoutesFresh
  <1>4. ASSUME NEW q \in Requests, CommitRoute(q) PROVE RoutesFresh'
    BY <1>4, RouteKeepsRoutesFresh
  <1>5. ASSUME NEW q \in Requests, CommitReplan(q) PROVE RoutesFresh'
    <2>1. \A t \in Routes : \/ routes'[t] = routes[t]
                            \/ routes[t].status = "PLANNED" /\ routes'[t].status = "PLANNED"
      BY <1>5, ReplanCommitPlans
    <2>2. /\ \A t \in Routes, o \in Orders : stops'[t][o].key = stops[t][o].key
          /\ \A o \in Orders : /\ orders'[o].routeId = orders[o].routeId
                               /\ orders'[o].status = orders[o].status
      BY <1>5, ReplanCommitPlans, ReplanCommitRows
    <2>3. \A p \in Requests : requests'[p] = requests[p] \/ requests'[p] = Idle
      BY <1>5 DEF CommitReplan, End, TypeOK
    <2> QED BY <2>1, <2>2, <2>3, RoutesUntouched DEF Absent
  <1>6. ASSUME NEW q \in Requests, CommitProof(q) \/ Drop(q) PROVE RoutesFresh'
    BY <1>6, RoutesUntouched DEF CommitProof, Drop, End, TypeOK
  <1>7. ASSUME NEW q \in Requests, Read(q) PROVE RoutesFresh'
    BY <1>7, RouteRequestIsFresh, ReadBegins DEF Begin, RoutesFresh
  <1>8. CASE \/ UNCHANGED vars
             \/ \E d \in Drivers, s \in DriverStatuses : SetDriverStatus(d, s)
    BY <1>8 DEF vars, SetDriverStatus, RoutesFresh
  <1> QED
    BY <1>1, <1>2, <1>3, <1>4, <1>5, <1>6, <1>7, <1>8 DEF Next, Commit

THEOREM RoutesAreFresh == Spec => []PlansInvariant
  <1>1. Init => RoutesFresh
    BY DEF Init, RoutesFresh, Idle, Absent
  <1>2. RoutesFresh /\ FleetInvariant /\ [Next]_vars => RoutesFresh'
    BY RoutesFreshStep DEF FleetInvariant
  <1>3. PlansInvariant <=> FleetInvariant /\ RoutesFresh
    BY DEF PlansInvariant
  <1> QED BY <1>1, <1>2, <1>3, FleetIsSafe, PTL DEF Spec

(* However requests overlap, no stop of a route that has started changes   *)
(* its position, whatever revised plan is still on its way.                *)
THEOREM StartedPlanIsFrozen == Spec => PlanFrozenOnceStarted
  <1> DEFINE Frozen(t) ==
               routes[t].status = "IN_PROGRESS" =>
                 \A o \in Orders : /\ stops'[t][o].sequence = stops[t][o].sequence
                                   /\ orders[o].routeId = t /\ orders'[o].routeId = t
                                        => orders'[o].stopSequence = orders[o].stopSequence
  <1>1. ASSUME PlansInvariant, [Next]_vars
        PROVE  \A t \in Routes : Frozen(t)
    <2> USE <1>1 DEF PlansInvariant, FleetInvariant
    <2>1. ASSUME NEW q \in Requests, CommitCreate(q) \/ CommitAssign(q)
          PROVE  \A t \in Routes : Frozen(t)
      BY <2>1, GivenKeepsRoute DEF CommitCreate, CommitAssign
    <2>2. ASSUME NEW q \in Requests, CommitStatus(q)
          PROVE  \A t \in Routes : Frozen(t)
      <3>1. \A t \in Routes, o \in Orders : stops'[t][o].sequence = stops[t][o].sequence
        BY <2>2, StatusCommitPlans
      <3>2. \A o \in Orders : \/ orders'[o].routeId = None
                              \/ orders'[o].stopSequence = orders[o].stopSequence
        BY <2>2, StatusCommitRows
      <3> QED BY <3>1, <3>2, NoneAssumption
    <2>3. ASSUME NEW q \in Requests, CommitRoute(q)
          PROVE  \A t \in Routes : Frozen(t)
      BY <2>3, RouteCommitPlans DEF Absent
    <2>4. ASSUME NEW q \in Requests, CommitReplan(q)
          PROVE  \A t \in Routes : Frozen(t)
      BY <2>4, ReplanCommitPlans
    <2>5. CASE UNCHANGED <<orders, stops>>
      BY <2>5
    <2>6. ASSUME NEW q \in Requests, CommitProof(q) \/ Drop(q) \/ Read(q)
          PROVE  UNCHANGED <<orders, stops>>
      BY <2>6, ReadBegins DEF CommitProof, Drop, Begin
    <2>7. ASSUME NEW d \in Drivers, NEW s \in DriverStatuses, SetDriverStatus(d, s)
          PROVE  UNCHANGED <<orders, stops>>
      BY <2>7 DEF SetDriverStatus
    <2>8. (UNCHANGED vars) => UNCHANGED <<orders, stops>>
      BY DEF vars
    <2> QED BY <2>1, <2>2, <2>3, <2>4, <2>5, <2>6, <2>7, <2>8 DEF Next, Commit
  <1>2. PlansInvariant /\ [Next]_vars =>
          [\A t \in Routes : routes[t].status = "IN_PROGRESS" =>
             \A o \in Orders : /\ stops'[t][o].sequence = stops[t][o].sequence
                               /\ orders[o].routeId = t /\ orders'[o].routeId = t
                                    => orders'[o].stopSequence = orders[o].stopSequence]_vars
    BY <1>1
  <1> QED BY <1>2, RoutesAreFresh, PTL DEF Spec, PlanFrozenOnceStarted

(* However requests overlap, every write of a route's positions advances   *)
(* its revision: of two plans computed from one revision one is stored.    *)
THEOREM RevisionsAdvance == Spec => PlanRevisionAdvances
  <1> DEFINE Advances(t) ==
               stops'[t] # stops[t] /\ routes[t].revision = routes'[t].revision
                 => \A o \in Orders : stops'[t][o].sequence = stops[t][o].sequence
  <1>1. ASSUME PlansInvariant, [Next]_vars
        PROVE  \A t \in Routes : Advances(t)
    <2> USE <1>1 DEF PlansInvariant, FleetInvariant
    <2>1. ASSUME NEW q \in Requests, CommitStatus(q)
          PROVE  \A t \in Routes : Advances(t)
      BY <2>1, StatusCommitPlans
    <2>2. ASSUME NEW q \in Requests, CommitRoute(q)
          PROVE  \A t \in Routes : Advances(t)
      BY <2>2, RouteCommitPlans DEF RoutesFresh
    <2>3. ASSUME NEW q \in Requests, CommitReplan(q)
          PROVE  \A t \in Routes : Advances(t)
      BY <2>3, ReplanCommitPlans
    <2>4. CASE UNCHANGED stops
      BY <2>4
    <2>5. ASSUME NEW q \in Requests,
                 CommitCreate(q) \/ CommitAssign(q) \/ CommitProof(q) \/ Drop(q) \/ Read(q)
          PROVE  UNCHANGED stops
      BY <2>5, ReadBegins DEF CommitCreate, CommitAssign, CommitProof, Drop, Begin
    <2>6. ASSUME NEW d \in Drivers, NEW s \in DriverStatuses, SetDriverStatus(d, s)
          PROVE  UNCHANGED stops
      BY <2>6 DEF SetDriverStatus
    <2>7. (UNCHANGED vars) => UNCHANGED stops
      BY DEF vars
    <2> QED BY <2>1, <2>2, <2>3, <2>4, <2>5, <2>6, <2>7 DEF Next, Commit
  <1>2. PlansInvariant /\ [Next]_vars =>
          [\A t \in Routes : stops'[t] # stops[t] /\ routes[t].revision = routes'[t].revision
             => \A o \in Orders : stops'[t][o].sequence = stops[t][o].sequence]_vars
    BY <1>1
  <1> QED BY <1>2, RoutesAreFresh, PTL DEF Spec, PlanRevisionAdvances
-----------------------------------------------------------------------------
(* One request at a time.                                                  *)

LEMMA SnapshotsOneAtATime ==
  ASSUME OneAtATime
  PROVE  Spec => []SnapshotIsCurrent
  <1>1. Init => SnapshotIsCurrent
    BY DEF Init, SnapshotIsCurrent, Idle
  <1>2. TypeOK /\ SnapshotIsCurrent /\ [Next]_vars => SnapshotIsCurrent'
    BY SnapshotStep
  <1> QED BY <1>1, <1>2, TypeCorrect, PTL DEF Spec

LEMMA TimelineStep ==
  ASSUME TypeOK, RequestsLegal, SnapshotIsCurrent, TimelineAgrees, [Next]_vars
  PROVE  TimelineAgrees'
  <1> DEFINE Tells(event, row) ==
               /\ event.type = (IF row.status = "PENDING" THEN "CREATED" ELSE row.status)
               /\ row.driverId # None => event.driverId = row.driverId
  <1>0. \A o \in Orders : Tells(timeline[o], orders[o])
    BY DEF TimelineAgrees
  <1> SUFFICES \A o \in Orders : Tells(timeline'[o], orders'[o])
    BY DEF TimelineAgrees
  <1>1. ASSUME NEW q \in Requests, CommitCreate(q)
        PROVE  \A o \in Orders : Tells(timeline'[o], orders'[o])
    BY <1>0, <1>1, CreateCommitRow DEF CommitCreate, Event, TypeOK
  <1>2. ASSUME NEW q \in Requests, CommitAssign(q)
        PROVE  \A o \in Orders : Tells(timeline'[o], orders'[o])
    BY <1>0, <1>2, AssignCommitRow DEF CommitAssign, Event, TypeOK
  <1>3. ASSUME NEW q \in Requests, CommitStatus(q)
        PROVE  \A o \in Orders : Tells(timeline'[o], orders'[o])
    <2> DEFINE r == requests[q]
    <2>1. /\ r.order \in Orders /\ r.next \in UpdatableStatuses
          /\ orders'[r.order] = OrderAfter(orders[r.order], r.next)
          /\ \A o \in Orders \ {r.order} : orders'[o] = orders[o]
      BY <1>3, StatusCommitIsLegal
    <2>2. timeline'[r.order] = Event(r.next, r.read.driverId)
      BY <1>3, <2>1 DEF CommitStatus, StatusEvent, TypeOK
    <2>3. \A o \in Orders \ {r.order} : timeline'[o] = timeline[o]
      BY <1>3, <2>1 DEF CommitStatus, TypeOK
    <2>4. orders[r.order].driverId = r.read.driverId /\ r.next # "PENDING"
      BY <1>3, <2>1 DEF SnapshotIsCurrent, CommitStatus, UpdatableStatuses
    <2>5. Tells(Event(r.next, r.read.driverId), OrderAfter(orders[r.order], r.next))
      BY <2>1, <2>4 DEF Event, OrderAfter, TypeOK, OrderRow
    <2> QED BY <1>0, <2>1, <2>2, <2>3, <2>5
  <1>4. ASSUME NEW q \in Requests, CommitRoute(q)
        PROVE  \A o \in Orders : Tells(timeline'[o], orders'[o])
    BY <1>0, <1>4, RouteCommitRows DEF CommitRoute, Event, Members
  <1>5. ASSUME NEW q \in Requests, CommitReplan(q)
        PROVE  \A o \in Orders : Tells(timeline'[o], orders'[o])
    BY <1>0, <1>5, ReplanCommitRows DEF CommitReplan
  <1>6. CASE UNCHANGED <<orders, timeline>>
    BY <1>0, <1>6
  <1>7. ASSUME NEW q \in Requests, CommitProof(q) \/ Drop(q) \/ Read(q)
        PROVE  UNCHANGED <<orders, timeline>>
    BY <1>7, ReadBegins DEF CommitProof, Drop, Begin
  <1>8. ASSUME NEW d \in Drivers, NEW s \in DriverStatuses, SetDriverStatus(d, s)
        PROVE  UNCHANGED <<orders, timeline>>
    BY <1>8 DEF SetDriverStatus
  <1>9. (UNCHANGED vars) => UNCHANGED <<orders, timeline>>
    BY DEF vars
  <1> QED BY <1>1, <1>2, <1>3, <1>4, <1>5, <1>6, <1>7, <1>8, <1>9 DEF Next, Commit

(* When requests do not overlap, the latest event of an order names its    *)
(* status and its driver.                                                  *)
THEOREM TimelineAgreesOneAtATime ==
  ASSUME OneAtATime
  PROVE  Spec => []TimelineAgrees
  <1>1. Init => TimelineAgrees
    BY DEF Init, TimelineAgrees, Event, Absent
  <1>2. FleetInvariant /\ SnapshotIsCurrent /\ TimelineAgrees /\ [Next]_vars
          => TimelineAgrees'
    BY TimelineStep DEF FleetInvariant
  <1> QED BY <1>1, <1>2, FleetIsSafe, SnapshotsOneAtATime, PTL DEF Spec

\* An order in the field was started under the key of its stop, and no plan is
\* revised after that.  Before the start it may be otherwise (StopIsAddressed).
StartedStopIsAddressed ==
  \A o \in Orders : Holds(o) /\ OnRoute(orders[o]) =>
    stops[orders[o].routeId][o].key = orders[o].stopSequence

LEMMA StopsStep ==
  ASSUME PlansInvariant, SnapshotIsCurrent, StopMirrorsOrder, StartedStopIsAddressed,
         [Next]_vars
  PROVE  StopMirrorsOrder' /\ StartedStopIsAddressed'
  <1> USE DEF PlansInvariant, FleetInvariant
  <1> DEFINE Follows(row, stop) ==
               /\ row.status # "ASSIGNED" => stop.status = row.status
               /\ row.status \in HoldingStatuses => stop.key = row.stopSequence
  <1>0. \A o \in Orders : OnRoute(orders[o]) => Follows(orders[o], stops[orders[o].routeId][o])
    BY DEF StopMirrorsOrder, StartedStopIsAddressed, Holds
  <1>1. \A o \in Orders : /\ orders[o].routeId \in Routes \cup {None}
                          /\ OnRoute(orders[o]) => orders[o].routeId \in Routes
    BY DEF TypeOK, OrderRow, OnRoute
  <1> SUFFICES \A o \in Orders :
                 OnRoute(orders'[o]) => Follows(orders'[o], stops'[orders'[o].routeId][o])
    BY DEF StopMirrorsOrder, StartedStopIsAddressed, Holds
  <1> DEFINE Kept == \A o \in Orders :
                       OnRoute(orders'[o]) => Follows(orders'[o], stops'[orders'[o].routeId][o])
  <1>2. ASSUME NEW q \in Requests, CommitCreate(q) PROVE Kept
    <2>1. stops' = stops
      BY <1>2 DEF CommitCreate
    <2>2. \A o \in Orders : \/ orders'[o] = orders[o] \/ orders'[o].status = "ASSIGNED"
                            \/ orders'[o].routeId = None
      BY <1>2, CreateCommitRow, GivenKeepsRoute DEF RoutesFresh
    <2> QED BY <1>0, <2>1, <2>2 DEF OnRoute, HoldingStatuses
  <1>3. ASSUME NEW q \in Requests, CommitAssign(q) PROVE Kept
    <2>1. stops' = stops
      BY <1>3 DEF CommitAssign
    <2>2. \A o \in Orders : orders'[o] = orders[o] \/ orders'[o].status = "ASSIGNED"
      BY <1>3, AssignCommitRow
    <2> QED BY <1>0, <2>1, <2>2 DEF HoldingStatuses
  <1>4. ASSUME NEW q \in Requests, CommitStatus(q) PROVE Kept
    <2> DEFINE r == requests[q]
    <2>1. /\ r.order \in Orders /\ r.read = orders[r.order]
          /\ CanTransition(orders[r.order].status, r.next)
          /\ \A o \in Orders \ {r.order} : orders'[o] = orders[o]
      BY <1>4, StatusCommitIsLegal DEF SnapshotIsCurrent, CommitStatus
    <2>2. \A t \in Routes, o \in Orders :
            /\ stops'[t][o].key = stops[t][o].key
            /\ stops'[t][o].status = IF OnRoute(r.read) /\ r.read.routeId = t /\ r.order = o
                                     THEN r.next ELSE stops[t][o].status
      BY <1>4, StatusCommitPlans
    <2>3. ASSUME NEW o \in Orders \ {r.order}, OnRoute(orders'[o])
          PROVE  Follows(orders'[o], stops'[orders'[o].routeId][o])
      BY <1>0, <1>1, <2>1, <2>2, <2>3
    <2>4. ASSUME OnRoute(orders'[r.order])
          PROVE  Follows(orders'[r.order], stops'[orders'[r.order].routeId][r.order])
      <3>1. /\ orders'[r.order].status = r.next
            /\ orders'[r.order].routeId = orders[r.order].routeId
            /\ orders'[r.order].stopSequence = orders[r.order].stopSequence
        BY <1>4, <2>1, <2>4, StatusCommitRows DEF OnRoute
      <3>2. OnRoute(r.read) /\ r.read.routeId \in Routes
        BY <1>1, <2>1, <2>4, <3>1 DEF OnRoute
      <3>3. stops[r.read.routeId][r.order].key = r.read.stopSequence
        BY <1>4, <3>2 DEF CommitStatus, StatusAccepted, StopExists
      <3> QED BY <2>1, <2>2, <3>1, <3>2, <3>3
    <2> QED BY <2>1, <2>3, <2>4
  <1>5. ASSUME NEW q \in Requests, CommitRoute(q) PROVE Kept
    <2> DEFINE r == requests[q]
    <2>1. /\ routes[r.route].status = Absent
          /\ \A t \in Routes \ {r.route} : stops'[t] = stops[t]
          /\ \A o \in Members(r.plan) : orders'[o].status = "ASSIGNED"
          /\ \A o \in Orders \ Members(r.plan) : orders'[o] = orders[o]
      BY <1>5, RouteCommitPlans, RouteCommitRows
    <2>2. \A o \in Orders : OnRoute(orders[o]) =>
            orders[o].routeId \in Routes \ {r.route}
      BY <1>1, <2>1 DEF RoutesFresh, OnRoute
    <2> QED BY <1>0, <2>1, <2>2 DEF HoldingStatuses
  <1>6. ASSUME NEW q \in Requests, CommitReplan(q) PROVE Kept
    <2>1. /\ \A o \in Orders : orders'[o].status = "ASSIGNED" \/ orders'[o] = orders[o]
          /\ \A t \in Routes, o \in Orders : /\ stops'[t][o].key = stops[t][o].key
                                             /\ stops'[t][o].status = stops[t][o].status
      BY <1>6, ReplanCommitPlans, ReplanCommitRows
    <2> QED BY <1>0, <1>1, <2>1 DEF HoldingStatuses
  <1>7. CASE UNCHANGED <<orders, stops>>
    BY <1>0, <1>7
  <1>8. ASSUME NEW q \in Requests, CommitProof(q) \/ Drop(q) \/ Read(q)
        PROVE  UNCHANGED <<orders, stops>>
    BY <1>8, ReadBegins DEF CommitProof, Drop, Begin
  <1>9. ASSUME NEW d \in Drivers, NEW s \in DriverStatuses, SetDriverStatus(d, s)
        PROVE  UNCHANGED <<orders, stops>>
    BY <1>9 DEF SetDriverStatus
  <1>10. (UNCHANGED vars) => UNCHANGED <<orders, stops>>
    BY DEF vars
  <1> QED
    BY <1>2, <1>3, <1>4, <1>5, <1>6, <1>7, <1>8, <1>9, <1>10 DEF Next, Commit

LEMMA StopsOneAtATime ==
  ASSUME OneAtATime
  PROVE  Spec => [](StopMirrorsOrder /\ StartedStopIsAddressed)
  <1>1. Init => StopMirrorsOrder /\ StartedStopIsAddressed
    BY DEF Init, StopMirrorsOrder, StartedStopIsAddressed, OnRoute
  <1>2. PlansInvariant /\ SnapshotIsCurrent /\ StopMirrorsOrder /\ StartedStopIsAddressed
          /\ [Next]_vars => (StopMirrorsOrder /\ StartedStopIsAddressed)'
    BY StopsStep
  <1> QED BY <1>1, <1>2, RoutesAreFresh, SnapshotsOneAtATime, PTL DEF Spec

(* When requests do not overlap, the status stored with a stop is its      *)
(* order's from the moment the order leaves ASSIGNED.                      *)
THEOREM StopsMirrorOneAtATime ==
  ASSUME OneAtATime
  PROVE  Spec => []StopMirrorsOrder
  BY StopsOneAtATime, PTL

(* When requests do not overlap, what was started can be finished: of the  *)
(* conditions of a later status transaction only the proof can fail.       *)
THEOREM StartedOrderAdvancesOneAtATime ==
  ASSUME OneAtATime
  PROVE  Spec => []StartedOrderAdvances
  <1>1. FleetInvariant /\ LockAgreement /\ StartedStopIsAddressed => StartedOrderAdvances
    <2> SUFFICES ASSUME FleetInvariant, LockAgreement, StartedStopIsAddressed,
                        NEW q \in Requests, Fresh(requests[q]), Holds(requests[q].order),
                        ProofPresent(requests[q])
                 PROVE  StatusAccepted(requests[q])
      BY DEF StartedOrderAdvances
    <2> DEFINE r == requests[q]
    <2>1. /\ r.op = "status" /\ r.order \in Orders /\ r.read = orders[r.order]
          /\ orders[r.order] \in OrderRow
      BY RequestShapes DEF Fresh, FleetInvariant, TypeOK
    <2>2. CanTransition(r.read.status, r.next)
      BY <2>1 DEF FleetInvariant, RequestsLegal
    <2>3. StatusUnchanged(r)
      BY <2>1 DEF StatusUnchanged
    <2>4. StopExists(r)
      BY <2>1 DEF StopExists, StartedStopIsAddressed
    <2>5. r.next # "IN_PROGRESS"
      BY <2>1, <2>2 DEF Holds, HoldingStatuses, CanTransition, Transitions, Statuses
    <2>6. r.read.driverId # None => drivers[r.read.driverId].activeOrderId = r.order
      BY <2>1 DEF LockAgreement, OrderRow
    <2>7. DriverAgrees(r)
      BY <2>5, <2>6 DEF DriverAgrees
    <2> QED BY <2>3, <2>4, <2>7 DEF StatusAccepted
  <1> QED BY <1>1, FleetIsSafe, LocksAgreeOneAtATime, StopsOneAtATime, PTL

-----------------------------------------------------------------------------
(* Capacity, when requests do not overlap and a listing returns all of a   *)
(* driver's orders.  Neither can be left out: two requests that read the   *)
(* same listing are both accepted, and so is one whose listing is cut off. *)

ListingsAreComplete == IsFiniteSet(Orders) /\ ListLimit >= Cardinality(Orders)

\* The orders a request is about to give, and whether it gives them to a driver.
Selected(r) == IF r.op = "route" THEN Members(r.plan) ELSE {r.order}
Gives(r) == r.op \in {"create", "assign", "route"} /\ r.driver # None

FitsStill == \A q \in Requests : Gives(requests[q]) => Fits(requests[q].driver, Selected(requests[q]))

LEMMA ReadFits ==
  ASSUME TypeOK, NEW q \in Requests, Read(q)
  PROVE  \E r : Begin(q, r) /\ (Gives(r) => Fits(r.driver, Selected(r)))
  <1> DEFINE Fit(r) == Gives(r) => Fits(r.driver, Selected(r))
  <1>1. ASSUME NEW o \in Orders, NEW d \in Drivers \cup {None}, ReadCreate(q, o, d)
        PROVE  \E r : Begin(q, r) /\ Fit(r)
    <2> DEFINE r == [op |-> "create", order |-> o, driver |-> d]
    <2>1. Begin(q, r)
      BY <1>1 DEF ReadCreate
    <2>2. Selected(r) = {o} /\ r.driver = d
      BY DEF Selected
    <2>3. Fit(r)
      BY <1>1, <2>2 DEF ReadCreate, Gives
    <2> QED BY <2>1, <2>3
  <1>2. ASSUME NEW o \in Orders, NEW d \in Drivers, ReadAssign(q, o, d)
        PROVE  \E r : Begin(q, r) /\ Fit(r)
    BY <1>2 DEF ReadAssign, Gives, Selected
  <1>3. ASSUME NEW o \in Orders, NEW next \in UpdatableStatuses, ReadStatus(q, o, next)
        PROVE  \E r : Begin(q, r) /\ Fit(r)
    BY <1>3 DEF ReadStatus, Gives
  <1>4. ASSUME NEW t \in Routes, NEW d \in Drivers, NEW S \in SUBSET Orders,
               NEW plan \in Plans(S), ReadRoute(q, t, d, S, plan)
        PROVE  \E r : Begin(q, r) /\ Fit(r)
    <2>1. Members(plan) = S
      BY DEF Plans
    <2> QED BY <1>4, <2>1 DEF ReadRoute, Gives, Selected
  <1>5. ASSUME NEW t \in Routes, NEW plan \in Plans(StopsOf(t)), ReadReplan(q, t, plan)
        PROVE  \E r : Begin(q, r) /\ Fit(r)
    BY <1>5 DEF ReadReplan, Gives
  <1>6. ASSUME NEW o \in Orders, ReadProof(q, o)
        PROVE  \E r : Begin(q, r) /\ Fit(r)
    BY <1>6 DEF ReadProof, Gives
  <1> QED BY <1>1, <1>2, <1>3, <1>4, <1>5, <1>6 DEF Read

LEMMA FitsStillStep ==
  ASSUME OneAtATime, TypeOK, FitsStill, [Next]_vars
  PROVE  FitsStill'
  <1>1. ASSUME NEW q \in Requests, Commit(q) \/ Drop(q) PROVE FitsStill'
    <2>1. End(q)
      BY <1>1 DEF Commit, CommitCreate, CommitAssign, CommitStatus, CommitRoute,
         CommitReplan, CommitProof, Drop
    <2> QED BY <2>1 DEF End, OneAtATime, FitsStill, Gives, TypeOK, Idle
  <1>2. ASSUME NEW q \in Requests, Read(q) PROVE FitsStill'
    <2>1. PICK r : Begin(q, r) /\ (Gives(r) => Fits(r.driver, Selected(r)))
      BY <1>2, ReadFits
    <2>2. orders' = orders /\ \A p \in Requests : requests'[p] = r
      BY <2>1 DEF Begin, TypeOK, OneAtATime
    <2>3. Fits(r.driver, Selected(r))' = Fits(r.driver, Selected(r))
      BY <2>2 DEF Fits, Listings, OrdersOf, Active, Selected, Members
    <2> QED BY <2>1, <2>2, <2>3 DEF FitsStill
  <1>3. ASSUME UNCHANGED <<orders, requests>> PROVE FitsStill'
    BY <1>3 DEF FitsStill, Fits, Listings, OrdersOf, Active, Gives, Selected, Members
  <1>4. ASSUME NEW d \in Drivers, NEW s \in DriverStatuses, SetDriverStatus(d, s)
        PROVE  FitsStill'
    BY <1>3, <1>4 DEF SetDriverStatus
  <1>5. CASE UNCHANGED vars
    BY <1>3, <1>5 DEF vars
  <1> QED BY <1>1, <1>2, <1>4, <1>5 DEF Next

\* A step that gives no order but those that fit leaves the driver within the capacity.
LEMMA GivenWithinCapacity ==
  ASSUME ListingsAreComplete, NEW d \in Drivers, NEW S \in SUBSET Orders, Fits(d, S),
         \A o \in Orders \ S : orders'[o] = orders[o]
  PROVE  Cardinality(Active(OrdersOf(d))') <= MaxLoad[d]
  <1>1. PICK page \in Listings(d) : Cardinality(Active(page)) + Cardinality(S) <= MaxLoad[d]
    BY DEF Fits
  <1>2. OrdersOf(d) \subseteq Orders /\ page \subseteq OrdersOf(d) /\ IsFiniteSet(Orders)
    BY DEF OrdersOf, Listings, ListingsAreComplete
  <1>3. page = OrdersOf(d)
    <2> SUFFICES ASSUME page # OrdersOf(d) PROVE FALSE
      OBVIOUS
    <2>1. Cardinality(page) = ListLimit
      BY DEF Listings
    <2>2. page \subseteq Orders /\ page # Orders
      BY <1>2
    <2>3. Cardinality(page) <= Cardinality(Orders) /\ Cardinality(Orders) # Cardinality(page)
      BY <1>2, <2>2, FS_Subset
    <2>4. Cardinality(Orders) \in Nat /\ ListLimit \in Nat
      BY <1>2, FS_CardinalityType, BoundAssumption
    <2> QED BY <2>1, <2>3, <2>4 DEF ListingsAreComplete
  <1> DEFINE A == Active(OrdersOf(d))
  <1>4. A \subseteq Orders /\ S \subseteq Orders /\ Active(OrdersOf(d))' \subseteq A \cup S
    BY DEF Active, OrdersOf
  <1>5. IsFiniteSet(A) /\ IsFiniteSet(S)
    BY <1>2, <1>4, FS_Subset
  <1> HIDE DEF A
  <1>6. /\ IsFiniteSet(A \cup S)
        /\ Cardinality(A \cup S) = Cardinality(A) + Cardinality(S) - Cardinality(A \cap S)
    BY <1>5, FS_Union
  <1>7. IsFiniteSet(A \cap S)
    BY <1>5, FS_Subset
  <1>8. /\ Cardinality(A) \in Nat /\ Cardinality(S) \in Nat /\ Cardinality(A \cap S) \in Nat
        /\ Cardinality(A \cup S) \in Nat
    BY <1>5, <1>6, <1>7, FS_CardinalityType
  <1>9. /\ IsFiniteSet(Active(OrdersOf(d))')
        /\ Cardinality(Active(OrdersOf(d))') <= Cardinality(A \cup S)
    BY <1>4, <1>6, FS_Subset
  <1>10. Cardinality(Active(OrdersOf(d))') \in Nat
    BY <1>9, FS_CardinalityType
  <1>11. Cardinality(A) + Cardinality(S) <= MaxLoad[d] /\ MaxLoad[d] \in Nat
    BY <1>1, <1>3, BoundAssumption DEF A
  <1> QED BY <1>6, <1>8, <1>9, <1>10, <1>11

LEMMA CapacityStep ==
  ASSUME ListingsAreComplete, TypeOK, RequestsLegal, FitsStill, [Next]_vars,
         NEW d \in Drivers, NEW o \in Orders, orders[o].driverId # d, orders'[o].driverId = d
  PROVE  Cardinality(Active(OrdersOf(d))') <= MaxLoad[d]
  <1>0. orders'[o] # orders[o] /\ d # None
    BY NoneAssumption
  <1>1. ASSUME NEW q \in Requests, CommitCreate(q)
        PROVE  Cardinality(Active(OrdersOf(d))') <= MaxLoad[d]
    <2>1. o = requests[q].order /\ requests[q].driver = d /\ requests[q].op = "create"
      BY <1>0, <1>1, CreateCommitRow DEF CommitCreate
    <2>2. Fits(d, {o})
      BY <1>0, <2>1 DEF FitsStill, Gives, Selected
    <2> QED BY <1>1, <2>1, <2>2, CreateCommitRow, GivenWithinCapacity
  <1>2. ASSUME NEW q \in Requests, CommitAssign(q)
        PROVE  Cardinality(Active(OrdersOf(d))') <= MaxLoad[d]
    <2>1. o = requests[q].order /\ requests[q].driver = d /\ requests[q].op = "assign"
      BY <1>0, <1>2, AssignCommitRow DEF CommitAssign
    <2>2. Fits(d, {o})
      BY <1>0, <2>1 DEF FitsStill, Gives, Selected
    <2> QED BY <1>2, <2>1, <2>2, AssignCommitRow, GivenWithinCapacity
  <1>3. ASSUME NEW q \in Requests, CommitRoute(q)
        PROVE  Cardinality(Active(OrdersOf(d))') <= MaxLoad[d]
    <2>1. /\ o \in Members(requests[q].plan) /\ requests[q].driver = d
          /\ requests[q].op = "route"
      BY <1>0, <1>3, RouteCommitRows DEF CommitRoute
    <2>2. Fits(d, Members(requests[q].plan))
      BY <1>0, <2>1 DEF FitsStill, Gives, Selected
    <2>3. Members(requests[q].plan) \in SUBSET Orders
      BY DEF Members
    <2> QED BY <1>3, <2>2, <2>3, RouteCommitRows, GivenWithinCapacity
  <1>4. ASSUME NEW q \in Requests, CommitStatus(q) PROVE FALSE
    <2>1. o = requests[q].order /\ orders'[o] = OrderAfter(orders[o], requests[q].next)
      BY <1>0, <1>4, StatusCommitIsLegal
    <2>2. orders[o] \in OrderRow
      BY DEF TypeOK
    <2> QED BY <1>0, <2>1, <2>2 DEF OrderAfter, OrderRow
  <1>5. ASSUME NEW q \in Requests, CommitReplan(q) PROVE FALSE
    BY <1>5, ReplanCommitRows
  <1>6. ASSUME NEW q \in Requests, CommitProof(q) \/ Drop(q) \/ Read(q) PROVE FALSE
    BY <1>0, <1>6, ReadBegins DEF CommitProof, Drop, Begin
  <1>7. ASSUME NEW e \in Drivers, NEW s \in DriverStatuses, SetDriverStatus(e, s) PROVE FALSE
    BY <1>0, <1>7 DEF SetDriverStatus
  <1>8. CASE UNCHANGED vars
    BY <1>0, <1>8 DEF vars
  <1> QED
    BY <1>1, <1>2, <1>3, <1>4, <1>5, <1>6, <1>7, <1>8 DEF Next, Commit

(* When requests do not overlap and a listing is long enough for every     *)
(* order there is, no step gives a driver an order beyond the capacity of  *)
(* the vehicle.                                                            *)
THEOREM CapacityOneAtATime ==
  ASSUME OneAtATime, ListingsAreComplete
  PROVE  Spec => CapacityRespected
  <1>1. Init => FitsStill
    BY DEF Init, FitsStill, Gives, Idle
  <1>2. TypeOK /\ FitsStill /\ [Next]_vars => FitsStill'
    BY FitsStillStep
  <1>3. TypeOK /\ RequestsLegal /\ FitsStill /\ [Next]_vars =>
          [\A d \in Drivers, o \in Orders :
             orders[o].driverId # d /\ orders'[o].driverId = d
               => Cardinality(Active(OrdersOf(d))') <= MaxLoad[d]]_vars
    BY CapacityStep
  <1>4. FleetInvariant => TypeOK /\ RequestsLegal
    BY DEF FleetInvariant
  <1> QED BY <1>1, <1>2, <1>3, <1>4, FleetIsSafe, PTL DEF Spec, CapacityRespected
=============================================================================
