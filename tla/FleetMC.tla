------------------------------ MODULE FleetMC ------------------------------
(* Fleet on small instances: orders, drivers and requests are interchangeable. *)
EXTENDS Fleet, TLC

Interchangeable ==
  Permutations(Orders) \cup Permutations(Drivers) \cup Permutations(Requests)

\* Vehicles.  Where they differ, only orders and requests are interchangeable.
EqualVehicles == [d \in Drivers |-> 2]
LightVehicles == [d \in Drivers |-> 1]
OneLightVehicle ==
  LET light == CHOOSE d \in Drivers : TRUE
  IN  [d \in Drivers |-> IF d = light THEN 1 ELSE 2]
OrdersInterchangeable == Permutations(Orders) \cup Permutations(Requests)

\* Bound: orders are followed up to the outcome of their first attempt.
FirstAttempt ==
  \A o \in Orders : orders[o].status \notin {"RESCHEDULED", "RETURNING"}

\* Bound: no driver goes offline, which only ever refuses transactions.
NobodyOffline == \A d \in Drivers : drivers[d].status # "OFFLINE"

RouteInUse ==
  \/ \E t \in Routes : routes[t].status # Absent
  \/ \E q \in Requests : requests[q].op \in {"route", "replan"}

Involved(d) ==
  \/ drivers[d] # [status |-> "AVAILABLE", activeOrderId |-> None, completedToday |-> 0]
  \/ \E o \in Orders : orders[o].driverId = d
  \/ \E q \in Requests : requests[q].op \in {"create", "assign", "route"} /\ requests[q].driver = d

\* Bound: requests compete for two drivers, or around one route of one driver.
DriversOrRoute ==
  /\ NobodyOffline
  /\ RouteInUse => FirstAttempt /\ \A d, e \in Drivers : Involved(d) /\ Involved(e) => d = e
=============================================================================
