----------------------------- MODULE OrderCache -----------------------------
(***************************************************************************)
(* The orders a driver's device keeps for the time without a network.      *)
(* Every listing that is answered replaces them; a status that could not   *)
(* be sent is queued and then entered, by reading the orders and writing   *)
(* them back in another transaction, between which a listing may be kept.  *)
(* How the queue is replayed, step by step, is the matter of OfflineSync.  *)
(***************************************************************************)
EXTENDS OrderLifecycle, Naturals, Sequences, FiniteSets

CONSTANTS
  Orders, Assigned,              \* orders of the driver, and those of the start
  MaxTaps, MaxLoads, MaxFaults,  \* bounds: statuses tapped, listings in flight, losses
  None

VARIABLES
  rows,     \* order -> its status in the table, None before it is the driver's
  kept,     \* what IndexedDB keeps under 'orders', None at first
  seen,   \* what the page shows, None until it has loaded
  asked,    \* listings in flight
  tap,      \* the change of a status under way
  outbox,   \* changes that are queued
  network,  \* the network of the device
  taps, losses

vars == <<rows, kept, seen, asked, tap, outbox, network, taps, losses>>

NoTap == [order |-> None, status |-> None, stage |-> None, copy |-> None]

Init ==
  /\ rows = [o \in Orders |-> IF o \in Assigned THEN "ASSIGNED" ELSE None]
  /\ kept = None /\ seen = None
  /\ asked = {} /\ tap = NoTap /\ outbox = <<>>
  /\ network = TRUE /\ taps = 0 /\ losses = 0

Fault == losses < MaxFaults /\ losses' = losses + 1

Holds(orders, o) == orders # None /\ orders[o] # None
Entered(orders, o, status) ==
  IF Holds(orders, o) THEN [orders EXCEPT ![o] = status] ELSE orders

-----------------------------------------------------------------------------
(* The table.                                                              *)

AssignDriver(o) ==
  /\ rows[o] = None
  /\ rows' = [rows EXCEPT ![o] = "ASSIGNED"]
  /\ UNCHANGED <<kept, seen, asked, tap, outbox, network, taps, losses>>

\* The statuses a driver's page changes to.
Tappable == {"IN_PROGRESS", "ARRIVED", "DELIVERY_FAILED", "DELIVERED"}

\* What a change of a status leaves in the table: one that is not allowed is refused.
After(o, status) ==
  IF CanTransition(rows[o], status) THEN [rows EXCEPT ![o] = status] ELSE rows

-----------------------------------------------------------------------------
(* listOrders, for the page that asks again every so often.                *)

Becomes(l, next) == asked' = (asked \ {l}) \cup {next}

Load ==
  /\ Cardinality(asked) < MaxLoads
  /\ asked' = asked \cup {[stage |-> "sent", orders |-> None]}
  /\ UNCHANGED <<rows, kept, seen, tap, outbox, network, taps, losses>>

Serve(l) ==
  /\ network /\ l.stage = "sent"
  /\ Becomes(l, [stage |-> "answered", orders |-> rows])
  /\ UNCHANGED <<rows, kept, seen, tap, outbox, network, taps, losses>>

\* Fault: a listing is kept only when none was kept before.
CachedFirst(orders) == IF kept = None THEN orders ELSE kept

Cached(orders) == orders

\* An answer is kept before it is shown.
CacheDriverOrders(l) ==
  /\ l.stage = "answered"
  /\ kept' = Cached(l.orders)
  /\ Becomes(l, [l EXCEPT !.stage = "kept"])
  /\ UNCHANGED <<rows, seen, tap, outbox, network, taps, losses>>

Land(l) ==
  /\ l.stage = "kept"
  /\ seen' = l.orders /\ asked' = asked \ {l}
  /\ UNCHANGED <<rows, kept, tap, outbox, network, taps, losses>>

\* Without an answer the orders that are kept are shown, if there are any.
GetCachedDriverOrders(l) ==
  /\ l.stage = "sent" /\ (IF network THEN Fault ELSE UNCHANGED losses)
  /\ IF \E o \in Orders : Holds(kept, o)
     THEN Becomes(l, [stage |-> "kept", orders |-> kept]) ELSE asked' = asked \ {l}
  /\ UNCHANGED <<rows, kept, seen, tap, outbox, network, taps>>

-----------------------------------------------------------------------------
(* updateOrderStatus.                                                      *)

\* The page is about the order on the road, or else about one that waits.
OnTheRoad == {o \in Orders : Holds(seen, o) /\ seen[o] \in {"IN_PROGRESS", "ARRIVED"}}
Waiting == {o \in Orders : Holds(seen, o) /\ seen[o] = "ASSIGNED"}

\* A delivery is confirmed with a network only.
Tap(o, status) ==
  /\ tap = NoTap /\ taps < MaxTaps
  /\ o \in (IF OnTheRoad = {} THEN Waiting ELSE OnTheRoad)
  /\ CanTransition(seen[o], status) /\ (status = "DELIVERED" => network)
  /\ tap' = [order |-> o, status |-> status, stage |-> "sent", copy |-> None]
  /\ taps' = taps + 1
  /\ UNCHANGED <<rows, kept, seen, asked, outbox, network, losses>>

ServeTap ==
  /\ network /\ tap.stage = "sent"
  /\ rows' = After(tap.order, tap.status)
  /\ tap' = [tap EXCEPT !.stage = IF CanTransition(rows[tap.order], tap.status)
                                  THEN "done" ELSE "refused"]
  /\ UNCHANGED <<kept, seen, asked, outbox, network, taps, losses>>

\* The page shows the answer, be it the server's or the device's own, or an error.
TapAnswered ==
  /\ tap.stage \in {"done", "refused"}
  /\ seen' = IF tap.stage = "done" THEN Entered(seen, tap.order, tap.status) ELSE seen
  /\ tap' = NoTap
  /\ UNCHANGED <<rows, kept, asked, outbox, network, taps, losses>>

\* Without an answer the change is queued if the order is among those kept: else an error.
TapUnanswered ==
  /\ tap.stage \in {"sent", "done", "refused"} /\ tap.copy = None
  /\ IF network THEN Fault ELSE UNCHANGED losses
  /\ tap' = IF Holds(kept, tap.order) THEN [tap EXCEPT !.stage = "found"] ELSE NoTap
  /\ UNCHANGED <<rows, kept, seen, asked, outbox, network, taps>>

QueueMutation ==
  /\ tap.stage = "found"
  /\ outbox' = Append(outbox, [order |-> tap.order, status |-> tap.status])
  /\ tap' = [tap EXCEPT !.stage = "queued"]
  /\ UNCHANGED <<rows, kept, seen, asked, network, taps, losses>>

\* updateCachedOrder reads what is kept in one transaction and writes it in another.
ReadCached ==
  /\ tap.stage = "queued"
  /\ tap' = [tap EXCEPT !.stage = "copied", !.copy = kept]
  /\ UNCHANGED <<rows, kept, seen, asked, outbox, network, taps, losses>>

UpdateCachedOrder ==
  /\ tap.stage = "copied"
  /\ kept' = Entered(tap.copy, tap.order, tap.status)
  /\ tap' = [tap EXCEPT !.stage = "done"]
  /\ UNCHANGED <<rows, seen, asked, outbox, network, taps, losses>>

-----------------------------------------------------------------------------
(* The queue, the page and the network.                                    *)

Flush ==
  /\ network /\ outbox # <<>>
  /\ rows' = After(Head(outbox).order, Head(outbox).status)
  /\ outbox' = Tail(outbox)
  /\ UNCHANGED <<kept, seen, asked, tap, network, taps, losses>>

\* The page is loaded again, or the application is ended and opened; a request that was
\* sent may be served all the same.
Reload ==
  /\ Fault /\ seen' = None /\ asked' = {} /\ tap' = NoTap
  /\ \/ UNCHANGED rows
     \/ network /\ tap.stage = "sent" /\ rows' = After(tap.order, tap.status)
  /\ UNCHANGED <<kept, outbox, network, taps>>

Lose == network /\ Fault /\ network' = FALSE
        /\ UNCHANGED <<rows, kept, seen, asked, tap, outbox, taps>>
Return == ~network /\ network' = TRUE
          /\ UNCHANGED <<rows, kept, seen, asked, tap, outbox, taps, losses>>

-----------------------------------------------------------------------------
Lands == \E l \in asked : Land(l)
Caches == \E l \in asked : CacheDriverOrders(l)
Serves == \E l \in asked : Serve(l)
Works == ServeTap \/ TapAnswered \/ QueueMutation \/ ReadCached \/ UpdateCachedOrder

Next ==
  \/ \E o \in Orders : AssignDriver(o) \/ \E status \in Tappable : Tap(o, status)
  \/ Load \/ Serves \/ Caches \/ Lands \/ \E l \in asked : GetCachedDriverOrders(l)
  \/ ServeTap \/ TapAnswered \/ TapUnanswered \/ QueueMutation \/ ReadCached
  \/ UpdateCachedOrder \/ Flush \/ Reload \/ Lose \/ Return

-----------------------------------------------------------------------------
\* Whatever write of a whole list undid another, the device comes to keep, and the page to
\* show, the orders of the table, once what was queued is replayed.
CacheSettles == <>[](outbox = <<>> /\ kept = rows /\ seen = rows)
=============================================================================
