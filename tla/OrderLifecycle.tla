--------------------------- MODULE OrderLifecycle ---------------------------
(***************************************************************************)
(* The pure rules of src/domain/order-lifecycle.ts and of the two places   *)
(* that add to it: which statuses need a driver (UpdateOrderStatusUseCase) *)
(* and which occupy a vehicle (VehicleCapacityPolicy).  No state here.     *)
(***************************************************************************)

Statuses == {"PENDING", "ASSIGNED", "IN_PROGRESS", "ARRIVED", "DELIVERED",
             "DELIVERY_FAILED", "RESCHEDULED", "CANCELLED", "RETURNING",
             "RETURNED"}

\* PATCH /orders/:id/status accepts every status but the two that creation
\* and assignment produce.
UpdatableStatuses == Statuses \ {"PENDING", "ASSIGNED"}

Transitions ==
  [PENDING         |-> {"ASSIGNED", "CANCELLED"},
   ASSIGNED        |-> {"IN_PROGRESS", "CANCELLED"},
   IN_PROGRESS     |-> {"ARRIVED", "DELIVERY_FAILED", "CANCELLED"},
   ARRIVED         |-> {"DELIVERED", "DELIVERY_FAILED"},
   DELIVERY_FAILED |-> {"RESCHEDULED", "RETURNING"},
   RESCHEDULED     |-> {"ASSIGNED", "CANCELLED"},
   CANCELLED       |-> {},
   RETURNING       |-> {"RETURNED"},
   RETURNED        |-> {},
   DELIVERED       |-> {}]

CanTransition(current, next) ==
  current \in Statuses /\ next \in Transitions[current]

\* Fault: a returned parcel does not give its driver back.
ReleasesDriverButNotReturned(status) ==
  status \in {"DELIVERED", "RESCHEDULED", "CANCELLED"}

\* The statuses whose update gives the driver back.
ReleasesDriver(status) ==
  status \in {"DELIVERED", "RESCHEDULED", "CANCELLED", "RETURNED"}

\* The statuses an order may only enter while it has a driver.
NeedsDriver(status) ==
  status \in {"IN_PROGRESS", "ARRIVED", "DELIVERED", "DELIVERY_FAILED",
              "RETURNING", "RETURNED"}

\* The statuses whose parcel counts against the vehicle's capacity.
ActiveCapacityStatuses == {"ASSIGNED", "IN_PROGRESS", "ARRIVED", "RETURNING"}

\* The place of a status in a driver's listing, which sorts by its name: with
\* 100 delivered orders a driver's assigned ones are beyond the first page.
IndexRank(status) ==
  LET ascending == <<"ABSENT", "ARRIVED", "ASSIGNED", "CANCELLED", "DELIVERED",
                     "DELIVERY_FAILED", "IN_PROGRESS", "PENDING", "RESCHEDULED",
                     "RETURNED", "RETURNING">>
  IN CHOOSE i \in DOMAIN ascending : ascending[i] = status
=============================================================================
