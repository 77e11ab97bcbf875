--------------------------- MODULE DispatchBoard ---------------------------
(***************************************************************************)
(* DispatchPage: a board of orders and drivers, loaded every ten seconds   *)
(* by two requests read apart, on which a dispatcher selects an order and  *)
(* a driver, assigns and starts; what is done is written into the board at *)
(* once, and a load that was read before may take it back.                 *)
(***************************************************************************)
EXTENDS FiniteSets, Naturals, Sequences

CONSTANTS
  Jobs,      \* orders
  Crew,      \* drivers, all at work; Nearest puts them in order of distance
  Nearest,   \* order -> its drivers, the nearest one first
  MaxLoads,  \* bound: loads of the board in flight
  None

VARIABLES
  jobs,     \* order -> status and driver, as stored
  crew,     \* driver -> status, as stored
  board,    \* order -> row and driver -> status as shown; None for an order not shown
  loads,    \* loads: what either request has read, or None
  pick,     \* the order and the driver selected
  work      \* the assignment or start that is under way, or None

stored == <<jobs, crew>>
vars == <<jobs, crew, board, loads, pick, work>>

\* All but the orders that are over.
Operational == {"PENDING", "ASSIGNED", "IN_PROGRESS", "ARRIVED", "DELIVERY_FAILED", "RESCHEDULED",
                "RETURNING"}
NoWork == [kind |-> None, order |-> None, driver |-> None, done |-> FALSE]
\* A load neither of whose requests is read yet.
NoLoad == [orders |-> None, drivers |-> None]

\* The drivers an order may be given to from here: those shown as available.
Available(b) == {d \in Crew : b.drivers[d] = "AVAILABLE"}

First(seq, S) ==
  LET at == {i \in DOMAIN seq : seq[i] \in S}
  IN IF at = {} THEN None ELSE seq[CHOOSE i \in at : \A j \in at : i <= j]

Shown(b) == {o \in Jobs : b.orders[o] # None}

\* The effect that runs after every change: an order has its driver selected, one that
\* has none the driver selected before, if still suggested, or the nearest.
WithDriver(b, order, driver) ==
  LET row == b.orders[order] IN
  [order |-> order,
   driver |-> IF order = None \/ order \notin Shown(b) THEN None
              ELSE IF row.driver # None THEN row.driver
              ELSE IF driver \in Available(b) THEN driver
              ELSE First(Nearest[order], Available(b))]

Shows(b, order) == board' = b /\ pick' = WithDriver(b, order, pick.driver)

\* What a load shows: orders that are over are left out.
BoardOf(orders, drivers) ==
  [orders |-> [o \in Jobs |-> IF orders[o].status \in Operational THEN orders[o] ELSE None],
   drivers |-> drivers]

Init ==
  /\ jobs = [o \in Jobs |-> [status |-> "PENDING", driver |-> None]]
  /\ crew = [d \in Crew |-> "AVAILABLE"]
  /\ board = [orders |-> [o \in Jobs |-> None], drivers |-> [d \in Crew |-> None]]
  /\ loads = {NoLoad}
  /\ pick = [order |-> None, driver |-> None]
  /\ work = NoWork
-----------------------------------------------------------------------------
(* What happens to the orders: here, and from other places.                *)

MayAssign(o, d) ==
  /\ jobs[o].status \in {"PENDING", "RESCHEDULED"}
  /\ jobs[o].driver = None
MayStart(o) == jobs[o].status = "ASSIGNED"

Assigns(o, d) ==
  /\ jobs' = [jobs EXCEPT ![o] = [status |-> "ASSIGNED", driver |-> d]]
  /\ crew' = [crew EXCEPT ![d] = "ON_DELIVERY"]

Starts(o) ==
  /\ jobs' = [jobs EXCEPT ![o].status = "IN_PROGRESS"]
  /\ crew' = [crew EXCEPT ![jobs[o].driver] = "ON_DELIVERY"]

\* Other dispatchers, drivers and route planning; a driver is free again after an end.
Elsewhere(o) ==
  /\ \/ \E d \in Crew : MayAssign(o, d) /\ Assigns(o, d)
     \/ MayStart(o) /\ Starts(o)
     \/ /\ jobs[o].status = "IN_PROGRESS"
        /\ jobs' = [jobs EXCEPT ![o].status = "DELIVERED"]
        /\ crew' = [crew EXCEPT ![jobs[o].driver] = "AVAILABLE"]
  /\ UNCHANGED <<board, loads, pick, work>>
-----------------------------------------------------------------------------
(* Loading the board.                                                      *)

\* Fault: the board is loaded only as long as it shows no order.
LoadsUntilShown == Cardinality(loads) < MaxLoads /\ Shown(board) = {}

\* The interval, the button and the reload after a refused assignment.
Loads == Cardinality(loads) < MaxLoads

Load ==
  /\ Loads
  /\ loads' = loads \cup {NoLoad}
  /\ UNCHANGED <<stored, board, pick, work>>

\* Either request is read when the server comes to it.
ReadOrders(l) ==
  /\ l.orders = None
  /\ loads' = (loads \ {l}) \cup {[l EXCEPT !.orders = jobs]}
  /\ UNCHANGED <<stored, board, pick, work>>

ReadDrivers(l) ==
  /\ l.drivers = None
  /\ loads' = (loads \ {l}) \cup {[l EXCEPT !.drivers = crew]}
  /\ UNCHANGED <<stored, board, pick, work>>

\* A selected order that is gone is replaced by one without a driver, or any other.
Land ==
  /\ \E l \in loads :
       LET b == BoardOf(l.orders, l.drivers)
           free == {o \in Shown(b) : b.orders[o].driver = None}
           next == IF pick.order \in Shown(b) THEN {pick.order}
                   ELSE IF free # {} THEN free
                   ELSE IF Shown(b) # {} THEN Shown(b) ELSE {None}
       IN /\ l.orders # None /\ l.drivers # None
          /\ loads' = loads \ {l}
          /\ \E order \in next : Shows(b, order)
  /\ UNCHANGED <<stored, work>>

LoadFails ==
  /\ \E l \in loads : loads' = loads \ {l}
  /\ UNCHANGED <<stored, board, pick, work>>
-----------------------------------------------------------------------------
(* The dispatcher.                                                         *)

\* From the queue or the map, or by choosing a queue, which may be empty.
SelectOrder ==
  /\ \E order \in Shown(board) \cup {None} :
       /\ order # pick.order
       /\ pick' = WithDriver(board, order, pick.driver)
  /\ UNCHANGED <<stored, board, loads, work>>

\* A driver on the map may be selected whatever he does; the effect does not run for it.
SelectDriver ==
  /\ \E d \in Crew \ {pick.driver} : pick' = [pick EXCEPT !.driver = d]
  /\ pick.order \in Shown(board)
  /\ UNCHANGED <<stored, board, loads, work>>

Selected == board.orders[pick.order]

\* The button for an order shown without a driver, the driver shown as available.
Assign ==
  /\ work = NoWork /\ pick.order \in Shown(board) /\ pick.driver \in Available(board)
  /\ Selected.driver = None
  /\ work' = [kind |-> "assign", order |-> pick.order, driver |-> pick.driver, done |-> FALSE]
  /\ UNCHANGED <<stored, board, loads, pick>>

\* The button, and the dialog that asks once more.
Start ==
  /\ work = NoWork /\ pick.order \in Shown(board) /\ Selected.status = "ASSIGNED"
  /\ work' = [kind |-> "start", order |-> pick.order, driver |-> Selected.driver, done |-> FALSE]
  /\ UNCHANGED <<stored, board, loads, pick>>

Serve ==
  /\ work.kind # None /\ ~work.done
  /\ IF work.kind = "assign"
     THEN MayAssign(work.order, work.driver) /\ Assigns(work.order, work.driver)
     ELSE MayStart(work.order) /\ Starts(work.order)
  /\ work' = [work EXCEPT !.done = TRUE]
  /\ UNCHANGED <<board, loads, pick>>

\* The answer goes into the board: the order as answered, and after an assignment its
\* driver as busy.
Merged ==
  LET o == work.order
      row == [status |-> IF work.kind = "assign" THEN "ASSIGNED" ELSE "IN_PROGRESS",
              driver |-> work.driver]
  IN [orders |-> IF o \in Shown(board) THEN [board.orders EXCEPT ![o] = row] ELSE board.orders,
      drivers |-> IF work.kind = "assign"
                  THEN [board.drivers EXCEPT ![work.driver] = "ON_DELIVERY"] ELSE board.drivers]

Answered ==
  /\ work.done
  /\ Shows(Merged, pick.order)
  /\ work' = NoWork
  /\ UNCHANGED <<stored, loads>>

\* Refused, or no answer; after an assignment the board is loaded.
WorkFails ==
  /\ work # NoWork
  /\ work' = NoWork
  /\ loads' = IF work.kind = "assign" /\ Loads THEN loads \cup {NoLoad} ELSE loads
  /\ UNCHANGED <<stored, board, pick>>
-----------------------------------------------------------------------------
Reads == \E l \in loads : ReadOrders(l) \/ ReadDrivers(l)
LastReads == \E l \in loads : \/ l.drivers # None /\ ReadOrders(l)
                              \/ l.orders # None /\ ReadDrivers(l)

Next ==
  \/ \E o \in Jobs : Elsewhere(o)
  \/ Load \/ Reads \/ Land \/ LoadFails
  \/ SelectOrder \/ SelectDriver \/ Assign \/ Start \/ Serve \/ Answered \/ WorkFails

\* The interval fires, and a load that is repeated does not fail for ever: at times both
\* its requests are read and answered.
Fairness ==
  SF_vars(Load) /\ SF_vars(Reads) /\ SF_vars(LastReads) /\ SF_vars(Land)

Spec == Init /\ [][Next]_vars /\ Fairness
-----------------------------------------------------------------------------
\* When nothing more is done anywhere, the board comes to show what is stored and stays
\* so, whatever loads read apart and local updates it showed before.
BoardSettles == <>[][FALSE]_stored => <>[](board = BoardOf(jobs, crew))
=============================================================================
