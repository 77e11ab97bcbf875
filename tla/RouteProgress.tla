--------------------------- MODULE RouteProgress ---------------------------
(***************************************************************************)
(* Two views of orders under way.  RouteService.getRoute shows the plan    *)
(* that was stored, compared with where its orders are now                 *)
(* (RouteComparisonService); an order that is rescheduled leaves for       *)
(* another route, but the stop of the first route stays and goes on        *)
(* showing it.  OperationsService.listIssues lists the orders that need    *)
(* attention, from the orders alone.  How a status is admitted is Fleet's  *)
(* matter: here an order moves as its lifecycle allows.  All orders are on *)
(* routes; one assigned from the board has no stop that could show it.     *)
(***************************************************************************)
EXTENDS OrderLifecycle, Integers, FiniteSets

CONSTANTS
  Parcels,    \* orders
  Trips,      \* routes that may be created
  OpensAt, ClosesAt,  \* order -> timeWindowStart and timeWindowEnd; Never is none
  Offsets,    \* how long after now a stop may be planned
  Askers, AskedFor,   \* orders whose customers may ask for a window, and its end
  Soon,       \* the half hour before a window that makes an order urgent
  Limits,     \* how many issues the list may be asked for
  MaxClock,   \* bound on time
  Never, None

VARIABLES
  clock,
  parcels,    \* order -> what its row says of its progress
  trips       \* route -> its stored status and its stops with their planned arrivals

vars == <<clock, parcels, trips>>

Init ==
  /\ clock = 0
  /\ parcels = [o \in Parcels |-> [status |-> "PENDING", trip |-> None,
                                  plannedAt |-> None, arrivedAt |-> None, asked |-> FALSE]]
  /\ trips = [t \in Trips |-> [status |-> None, planned |-> <<>>]]

-----------------------------------------------------------------------------
(* Planning and delivering.                                                *)

Schedules(S) == [S -> {clock + k : k \in Offsets}]

Waits(o) == parcels[o].status \in {"PENDING", "RESCHEDULED"} /\ parcels[o].trip = None

\* An order that is given away carries the plan of its stop, and no request any more.
Placed(row, t, plannedAt) ==
  [row EXCEPT !.status = "ASSIGNED", !.trip = t, !.plannedAt = plannedAt, !.asked = FALSE]

\* Ids are fresh.
CreateRoute(S) ==
  /\ \E t \in Trips : trips[t].status = None
  /\ S # {} /\ \A o \in S : Waits(o)
  /\ \E planned \in Schedules(S) :
       LET t == CHOOSE t \in Trips : trips[t].status = None IN
       /\ trips' = [trips EXCEPT ![t] = [status |-> "PLANNED", planned |-> planned]]
       /\ parcels' = [o \in Parcels |->
                        IF o \in S THEN Placed(parcels[o], t, planned[o]) ELSE parcels[o]]
  /\ UNCHANGED clock

\* Fault: the plan of a route is revised and that of its orders is not.
PlanOfRow(o, planned) == parcels[o].plannedAt

RevisedPlan(o, planned) == planned[o]

\* Reordered or optimized anew, while every order still waits on this route.
Replan(t) ==
  /\ trips[t].status = "PLANNED"
  /\ \A o \in DOMAIN trips[t].planned : parcels[o].status = "ASSIGNED" /\ parcels[o].trip = t
  /\ \E planned \in Schedules(DOMAIN trips[t].planned) :
       /\ trips' = [trips EXCEPT ![t].planned = planned]
       /\ parcels' = [o \in Parcels |->
                        IF o \in DOMAIN planned
                        THEN [parcels[o] EXCEPT !.plannedAt = RevisedPlan(o, planned)]
                        ELSE parcels[o]]
  /\ UNCHANGED clock

\* The customer asks for another window while the order waits or is assigned.
AskReschedule(o) ==
  /\ o \in Askers /\ parcels[o].status \in {"PENDING", "ASSIGNED"}
  /\ parcels' = [parcels EXCEPT ![o].asked = TRUE]
  /\ UNCHANGED <<clock, trips>>

\* applyStatus: until an order arrives once more, its arrival is that of the last attempt.
Stamp(row, next) ==
  [row EXCEPT !.status = next,
              !.trip = IF next = "RESCHEDULED" THEN None ELSE @,
              !.plannedAt = IF next = "RESCHEDULED" THEN None ELSE @,
              !.arrivedAt = IF next = "ARRIVED" THEN clock ELSE @]

\* Fault: the route is not told that it has started.
TripAfterUntold(o, next) == trips

TripAfter(o, next) ==
  IF next = "IN_PROGRESS" /\ parcels[o].trip # None
  THEN [trips EXCEPT ![parcels[o].trip].status = "IN_PROGRESS"] ELSE trips

ChangeStatus(o, next) ==
  /\ CanTransition(parcels[o].status, next)
  /\ NeedsDriver(next) => parcels[o].trip # None
  /\ parcels' = [parcels EXCEPT ![o] = Stamp(@, next)]
  /\ trips' = TripAfter(o, next)
  /\ UNCHANGED clock

Tick ==
  /\ clock < MaxClock
  /\ clock' = clock + 1
  /\ UNCHANGED <<parcels, trips>>

-----------------------------------------------------------------------------
(* What getRoute answers.                                                  *)

Exists(t) == trips[t].status # None
On(t) == DOMAIN trips[t].planned
TerminalStatuses == {"DELIVERED", "CANCELLED", "RETURNED"}

RouteStatus(t) ==
  IF \A o \in On(t) : parcels[o].status \in TerminalStatuses THEN "COMPLETED"
  ELSE IF \E o \in On(t) : parcels[o].status \in {"IN_PROGRESS", "ARRIVED", "RETURNING"}
  THEN "IN_PROGRESS"
  ELSE trips[t].status

SlaStatus(t, o) ==
  IF ClosesAt[o] = Never THEN "NO_WINDOW"
  ELSE IF parcels[o].arrivedAt # None
  THEN IF parcels[o].arrivedAt <= ClosesAt[o] THEN "ON_TIME" ELSE "LATE"
  ELSE IF clock > ClosesAt[o] THEN "LATE"
  ELSE IF trips[t].planned[o] > ClosesAt[o] THEN "AT_RISK" ELSE "ON_TIME"

-----------------------------------------------------------------------------
(* What listIssues answers.                                                *)

\* Of the tests the first that holds decides; due is what the list is sorted by.
Issue(o) ==
  LET row == parcels[o]
      Is(type, severity) == [type |-> type, severity |-> severity, due |-> ClosesAt[o]]
  IN IF row.status \in TerminalStatuses THEN None
     ELSE IF row.asked
     THEN [Is("CUSTOMER_RESCHEDULE_REQUEST", "CRITICAL") EXCEPT !.due = AskedFor]
     ELSE IF row.status = "DELIVERY_FAILED" THEN Is("DELIVERY_EXCEPTION", "CRITICAL")
     ELSE IF row.status = "RESCHEDULED" THEN Is("RESCHEDULE_REQUIRED", "WARNING")
     ELSE IF ClosesAt[o] # Never /\ clock > ClosesAt[o] THEN Is("SLA_BREACH", "CRITICAL")
     ELSE IF ClosesAt[o] # Never /\ row.plannedAt # None /\ row.plannedAt > ClosesAt[o]
     THEN Is("SLA_RISK", "WARNING")
     ELSE IF row.trip = None /\ OpensAt[o] # Never /\ OpensAt[o] <= clock + Soon
     THEN Is("UNASSIGNED_URGENT", "WARNING")
     ELSE None

\* The rank of severities, then the end of the window; no window comes last.
Precedes(o, p) ==
  LET first == Issue(o)
      second == Issue(p)
  IN IF first.severity # second.severity THEN first.severity = "CRITICAL"
     ELSE first.due < second.due

\* The answers the sort allows, cut off at the limit; ties come in any order.
Answers(limit) ==
  LET issues == {o \in Parcels : Issue(o) # None}
  IN {Q \in SUBSET issues :
        /\ Cardinality(Q) <= limit /\ (Q # issues => Cardinality(Q) = limit)
        /\ \A o \in issues \ Q, p \in Q : ~Precedes(o, p)}

-----------------------------------------------------------------------------
Next ==
  \/ \E t \in Trips : Replan(t)
  \/ \E S \in SUBSET Parcels : CreateRoute(S)
  \/ \E o \in Parcels : \/ AskReschedule(o)
                        \/ \E next \in UpdatableStatuses : ChangeStatus(o, next)
  \/ Tick

Spec == Init /\ [][Next]_vars

-----------------------------------------------------------------------------
\* What a route shows of an order it still has is in the list of issues: an order shown
\* late, unless more of the critical ones than the list has room for come before it, and
\* one shown at risk.  The two are computed from different rows, the stop and the order.
LateIsListed ==
  \A o \in Parcels :
    LET t == parcels[o].trip IN
    t # None /\ parcels[o].status \notin TerminalStatuses =>
      /\ SlaStatus(t, o) = "LATE" =>
           \A limit \in Limits : \A Q \in Answers(limit) :
             o \in Q \/ \A p \in Q : Issue(p).severity = "CRITICAL"
      /\ SlaStatus(t, o) = "AT_RISK" => Issue(o) # None

Rank(status) == CASE status = "PLANNED" -> 1 [] status = "IN_PROGRESS" -> 2 [] OTHER -> 3

\* The status of a route never falls back, though the orders of its stops may fail,
\* leave it and be delivered by another one.
RouteNeverFallsBack ==
  [][\A t \in Trips : Exists(t) => Rank(RouteStatus(t)) <= Rank(RouteStatus(t))']_vars
=============================================================================
