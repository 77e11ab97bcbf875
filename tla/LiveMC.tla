------------------------------- MODULE LiveMC -------------------------------
(***************************************************************************)
(* The position of a driver, the page of all drivers, the shell of the     *)
(* application and the orders a device keeps in one run: a behaviour       *)
(* follows one of them and the others stand still.  They do not depend on  *)
(* each other.                                                             *)
(***************************************************************************)
EXTENDS LiveLocation

CONSTANTS b1, b2, d1, d2, o1, o2

VARIABLES
  part,
  site, edge, worker, cache, page, online, faults,
  fleet, index, roster, listings, calls, form, updating, changes,
  rows, kept, seen, asked, tap, outbox, network, taps, losses

shellVars == <<site, edge, worker, cache, page, online, faults>>
fleetVars == <<fleet, index, roster, listings, calls, form, updating, changes>>
cacheVars == <<rows, kept, seen, asked, tap, outbox, network, taps, losses>>

\* One deployment in place of another, and a network that fails twice.
A == INSTANCE AppShell
       WITH Bundles <- {b1, b2}, Redeployed <- FALSE, MaxDeploys <- 2, MaxFaults <- 2

\* A driver, and one more to be registered.
F == INSTANCE FleetRoster
       WITH Drivers <- {d1, d2}, Hired <- {d1}, MaxListings <- 1, MaxChanges <- 2

\* An order of the driver, and one more to be assigned.
C == INSTANCE OrderCache
       WITH Orders <- {o1, o2}, Assigned <- {o1}, MaxTaps <- 2, MaxLoads <- 1, MaxFaults <- 1

-----------------------------------------------------------------------------
LiveInit ==
  /\ part \in {"position", "shell", "fleet", "orders"}
  /\ Init /\ F!Init /\ C!Init
  /\ A!Init /\ (part # "shell" => site.index = b1)

Tracks == part = "position" /\ Next /\ UNCHANGED <<part, shellVars, fleetVars, cacheVars>>
Serves == part = "shell" /\ A!Next /\ UNCHANGED <<part, vars, fleetVars, cacheVars>>
Hires == part = "fleet" /\ F!Next /\ UNCHANGED <<part, vars, shellVars, cacheVars>>
Keeps == part = "orders" /\ C!Next /\ UNCHANGED <<part, vars, shellVars, fleetVars>>

LiveNext == Tracks \/ Serves \/ Hires \/ Keeps

\* A page needs no more than its polls to settle, and none is open in the other parts; the
\* shell, the drivers and the orders have their fairness in their own.
LiveFairness ==
  /\ PollFairness
  /\ WF_shellVars(part = "shell" /\ A!Deploys /\ site.stage # "stable")
  /\ WF_shellVars(part = "shell" /\ A!Return)
  /\ WF_shellVars(part = "shell" /\ A!Starts)
  /\ WF_shellVars(part = "shell" /\ A!Works)
  /\ WF_fleetVars(part = "fleet" /\ \E d \in {d1, d2} : F!Follows(d))
  /\ WF_fleetVars(part = "fleet" /\ F!Poll) /\ WF_fleetVars(part = "fleet" /\ F!Reads)
  /\ SF_fleetVars(part = "fleet" /\ F!Land)
  /\ WF_cacheVars(part = "orders" /\ (C!Load \/ C!Serves \/ C!Caches))
  /\ SF_cacheVars(part = "orders" /\ C!Lands)
  /\ WF_cacheVars(part = "orders" /\ (C!Works \/ C!Return)) /\ SF_cacheVars(part = "orders" /\ C!Flush)

LiveSpec == LiveInit /\ [][LiveNext]_<<part, vars, shellVars, fleetVars, cacheVars>> /\ LiveFairness

-----------------------------------------------------------------------------
\* A driver's page comes back to the stored position, and the page of all drivers to each
\* driver once with its status, whatever posts, answers and reads overtook each other.
FleetPagesSettle == PageSettlesOnRow /\ (part = "fleet" => F!RosterSettles)

\* Whatever its worker has cached on the way, errors and pages in place of scripts included,
\* a device that launches again and again comes to run the bundle that is deployed.
ShellCatchesUp == part = "shell" => A!ShellCatchesUp

\* Whatever list a write of the device undid, statuses tapped without a network included,
\* it comes to keep and to show its orders as they are stored.
CacheSettles == part = "orders" => C!CacheSettles
=============================================================================
