----------------------------- MODULE RouteSheet -----------------------------
(***************************************************************************)
(* RouteDetailPage: a route is read once, its stops are moved on the page  *)
(* and saved, or put in order by the optimizer.  RouteService.updatePlan   *)
(* stores a plan over the revision it has read itself, and answers with    *)
(* what getRoute finds afterwards.  Another dispatcher plans the same      *)
(* route, and its driver departs.                                          *)
(***************************************************************************)
EXTENDS Naturals, SequencesExt

CONSTANTS
  Stops,
  Saves,        \* requests of this page
  MaxRevision,  \* bound: plans of the route
  None

VARIABLES
  plans,   \* the plans so far: the revision is their number
  status,  \* the route's
  sheet,   \* what the page shows
  save     \* save -> how far it is

vars == <<plans, status, sheet, save>>

Revision == Len(plans)
Orders == SetToSeqs(Stops)

Idle == [stage |-> "idle"]

\* Fault: the route is read from any replica of its partition.
FromAnyReplica == 1 .. Revision

\* The revisions a read may find: the query asks for a consistent read.
Found == {Revision}

Init ==
  /\ plans \in {<<order>> : order \in Orders} /\ status = "PLANNED"
  /\ sheet = [revision |-> 0, order |-> None, status |-> None, loading |-> TRUE, error |-> FALSE]
  /\ save = [s \in Saves |-> Idle]

-----------------------------------------------------------------------------
(* The page.                                                               *)

\* The read is answered before the page offers anything else.
Load ==
  /\ sheet.loading
  /\ \E r \in Found :
       sheet' = [revision |-> r, order |-> plans[r], status |-> status,
                 loading |-> FALSE, error |-> FALSE]
  /\ UNCHANGED <<plans, status, save>>

LoadFails ==
  /\ sheet.loading
  /\ sheet' = [sheet EXCEPT !.loading = FALSE, !.error = TRUE]
  /\ UNCHANGED <<plans, status, save>>

Retry ==
  /\ sheet.revision = 0 /\ ~sheet.loading
  /\ sheet' = [sheet EXCEPT !.loading = TRUE, !.error = FALSE]
  /\ UNCHANGED <<plans, status, save>>

Offers == sheet.revision # 0 /\ ~sheet.loading /\ sheet.status = "PLANNED"

\* Stops are moved while a save is under way, too.
Move ==
  /\ Offers
  /\ \E i \in 1 .. Len(sheet.order) - 1 :
       sheet' = [sheet EXCEPT !.order[i] = sheet.order[i + 1], !.order[i + 1] = sheet.order[i]]
  /\ UNCHANGED <<plans, status, save>>

\* The buttons are off while one is under way.
MaySave == Offers /\ \A s \in Saves : save[s] = Idle

Manual(s) == save' = [save EXCEPT ![s] = [stage |-> "sent", order |-> sheet.order]]
Auto(s) == save' = [save EXCEPT ![s] = [stage |-> "sent", order |-> None]]

Mutate(s) ==
  /\ MaySave /\ save[s] = Idle
  /\ Manual(s) \/ Auto(s)
  /\ sheet' = [sheet EXCEPT !.error = FALSE]
  /\ UNCHANGED <<plans, status>>

\* Moves made meanwhile give way to the answer.
Saved(s) ==
  /\ save[s].stage = "answered"
  /\ sheet' = [sheet EXCEPT !.revision = save[s].revision, !.order = plans[save[s].revision],
                            !.status = save[s].status]
  /\ save' = [save EXCEPT ![s] = Idle]
  /\ UNCHANGED <<plans, status>>

\* Refused, or not answered: a plan stored after that comes from elsewhere.
SaveFails(s) ==
  /\ save[s] # Idle
  /\ sheet' = [sheet EXCEPT !.error = TRUE]
  /\ save' = [save EXCEPT ![s] = Idle]
  /\ UNCHANGED <<plans, status>>

-----------------------------------------------------------------------------
(* The service.                                                            *)

LoadStored(s) ==
  /\ save[s].stage = "sent" /\ status = "PLANNED"
  /\ \E r \in Found :
       save' = [save EXCEPT ![s] = [stage |-> "loaded", order |-> @.order, base |-> r]]
  /\ UNCHANGED <<plans, status, sheet>>

\* On the condition that neither the revision nor the status has changed since.
UpdatePlan(s) ==
  /\ save[s].stage = "loaded"
  /\ save[s].base = Revision /\ status = "PLANNED" /\ Revision < MaxRevision
  /\ \E order \in IF save[s].order = None THEN Orders ELSE {save[s].order} :
       plans' = Append(plans, order)
  /\ save' = [save EXCEPT ![s] = [stage |-> "stored"]]
  /\ UNCHANGED <<status, sheet>>

\* getRoute reads the route again.
GetRoute(s) ==
  /\ save[s].stage = "stored"
  /\ \E r \in Found :
       save' = [save EXCEPT ![s] = [stage |-> "answered", revision |-> r, status |-> status]]
  /\ UNCHANGED <<plans, status, sheet>>

Elsewhere ==
  \/ /\ status = "PLANNED" /\ Revision < MaxRevision
     /\ \E order \in Orders : plans' = Append(plans, order)
     /\ UNCHANGED <<status, sheet, save>>
  \/ /\ status = "PLANNED" /\ status' = "IN_PROGRESS"
     /\ UNCHANGED <<plans, sheet, save>>

-----------------------------------------------------------------------------
Next ==
  \/ Load \/ LoadFails \/ Retry \/ Move \/ Elsewhere
  \/ \E s \in Saves : \/ Mutate(s) \/ Saved(s) \/ SaveFails(s)
                      \/ LoadStored(s) \/ UpdatePlan(s) \/ GetRoute(s)

Spec == Init /\ [][Next]_vars

-----------------------------------------------------------------------------
\* Whatever is planned elsewhere, the page goes from a plan to that plan or a later one.
ShownPlanAdvances == [][sheet'.revision >= sheet.revision]_vars
=============================================================================
