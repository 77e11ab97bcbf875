----------------------------- MODULE OrderPage -----------------------------
(***************************************************************************)
(* OrderDetailPage: one order with its driver, its timeline and its proof, *)
(* read by requests of their own, and the dispatcher's commands on it.     *)
(* The page does not poll: what it shows changes with the answer of a      *)
(* command and the load behind it.  Elsewhere drivers and dispatchers      *)
(* carry the order on.  How a status is admitted is Fleet's matter.        *)
(*                                                                         *)
(* The events of the order are read by a Query that may lag behind it; the *)
(* service adds those it infers from the order itself.  The event of the   *)
(* proof is left out.                                                      *)
(***************************************************************************)
EXTENDS OrderLifecycle, Naturals, Sequences, FiniteSets

CONSTANTS
  Drivers,
  MaxSteps,   \* bound: changes of the order
  Failed,     \* what a request that failed has read
  None

VARIABLES
  journal,  \* the order's rows so far, each with its event; the last row is stored
  proof,    \* is a proof stored?
  page,     \* what is shown: the order by its place in the journal, its timeline, ...
  flow      \* kind of command -> how far it and the load behind it are

stored == <<journal, proof>>
vars == <<journal, proof, page, flow>>

Now == Len(journal)
Row == journal[Now]

\* The confirmation dialog starts a delivery, the other buttons change a status.
Kinds == {"start", "change"}

Idle == [stage |-> "idle", next |-> None, row |-> 0, events |-> None, driver |-> None,
         proof |-> None]
Loading == [Idle EXCEPT !.stage = "order"]

\* The page is opened on an order that may have come a long way.
Init ==
  /\ journal \in {<<[status |-> "PENDING", driver |-> None, exception |-> FALSE]>>,
                  <<[status |-> "ASSIGNED", driver |-> CHOOSE d \in Drivers : TRUE,
                     exception |-> FALSE]>>}
  /\ proof = FALSE
  /\ page = [order |-> 0, events |-> None, driver |-> None, proof |-> FALSE, url |-> FALSE,
             loading |-> TRUE, error |-> FALSE, dialog |-> FALSE, overlapped |-> FALSE]
  /\ flow = [k \in Kinds |-> IF k = "start" THEN Loading ELSE Idle]

-----------------------------------------------------------------------------
(* The order.                                                              *)

Admits(next) ==
  /\ Now < MaxSteps
  /\ CanTransition(Row.status, next)
  /\ next = "DELIVERED" => proof

\* updateStatus: a rescheduled order is nobody's; a reason given stays with the order.
Update(next) ==
  journal' = Append(journal,
                    [status |-> next,
                     driver |-> IF next = "RESCHEDULED" THEN None ELSE Row.driver,
                     exception |-> next \in {"DELIVERY_FAILED", "CANCELLED"} \/ Row.exception])

\* assign forgets the reason.
Assign(d) == journal' = Append(journal, [status |-> "ASSIGNED", driver |-> d, exception |-> FALSE])

\* The driver, another dispatcher, or an assignment.
Elsewhere ==
  /\ \/ /\ Now < MaxSteps /\ Row.status \in {"PENDING", "RESCHEDULED"}
        /\ \E d \in Drivers : Assign(d)
        /\ UNCHANGED proof
     \/ /\ \E next \in UpdatableStatuses : Admits(next) /\ Update(next)
        /\ UNCHANGED proof
     \/ /\ Row.status = "ARRIVED" /\ proof' = TRUE
        /\ UNCHANGED journal
  /\ UNCHANGED <<page, flow>>

-----------------------------------------------------------------------------
(* The timeline: the kinds of events in it.                                *)

\* The event stored with a row.
EventOf ==
  [PENDING |-> "ORDER_CREATED", ASSIGNED |-> "DRIVER_ASSIGNED", IN_PROGRESS |-> "DELIVERY_STARTED",
   ARRIVED |-> "DRIVER_ARRIVED", DELIVERED |-> "DELIVERY_COMPLETED",
   DELIVERY_FAILED |-> "DELIVERY_FAILED", RESCHEDULED |-> "DELIVERY_RESCHEDULED",
   CANCELLED |-> "ORDER_CANCELLED", RETURNING |-> "RETURN_STARTED", RETURNED |-> "ORDER_RETURNED"]

\* The statuses that an event is inferred from; the second ones need a reason as well.
TellsOf ==
  [DELIVERY_STARTED |-> {"IN_PROGRESS", "ARRIVED", "DELIVERED", "DELIVERY_FAILED", "RETURNING",
                         "RETURNED"},
   DRIVER_ARRIVED |-> {"ARRIVED", "DELIVERED"}, DELIVERY_COMPLETED |-> {"DELIVERED"}]
TellsOfReason ==
  [DELIVERY_FAILED |-> {"DELIVERY_FAILED", "RESCHEDULED", "RETURNING", "RETURNED"},
   DELIVERY_RESCHEDULED |-> {"RESCHEDULED"}, ORDER_CANCELLED |-> {"CANCELLED"},
   RETURN_STARTED |-> {"RETURNING", "RETURNED"}, ORDER_RETURNED |-> {"RETURNED"}]

Inferred(row) ==
  {"ORDER_CREATED"}
    \cup {type \in {"DRIVER_ASSIGNED"} : row.driver # None}
    \cup {type \in DOMAIN TellsOf : row.status \in TellsOf[type]}
    \cup {type \in DOMAIN TellsOfReason : row.exception /\ row.status \in TellsOfReason[type]}

Recorded(seen) == {EventOf[journal[i].status] : i \in 1 .. seen}

\* Fault: events are inferred only for an order that has none.
TimelineOfLegacy(of, seen) == IF seen = 0 THEN Inferred(journal[of]) ELSE Recorded(seen)

\* Every event that is not among those found is inferred.
Timeline(of, seen) == Recorded(seen) \cup Inferred(journal[of])

-----------------------------------------------------------------------------
(* Commands.                                                               *)

\* Nothing but a skeleton is shown before the first order and during a load.
Visible == page.order # 0 /\ ~page.loading
Status == journal[page.order].status

Busy(k) == flow[k].stage # "idle"

\* The buttons of the page.
Offered(status) ==
  CASE status = "PENDING" -> {"CANCELLED"}
    [] status = "ASSIGNED" -> {"CANCELLED"}
    [] status = "IN_PROGRESS" -> {"DELIVERY_FAILED", "CANCELLED"}
    [] status = "ARRIVED" -> {"DELIVERY_FAILED"}
    [] status = "DELIVERY_FAILED" -> {"RESCHEDULED", "RETURNING"}
    [] status = "RETURNING" -> {"RETURNED"}
    [] OTHER -> {}

Send(k, next) ==
  /\ ~Busy(k)
  /\ flow' = [flow EXCEPT ![k] = [Idle EXCEPT !.stage = "sent", !.next = next]]

OpenDialog ==
  /\ Visible /\ Status = "ASSIGNED" /\ ~page.dialog
  /\ page' = [page EXCEPT !.dialog = TRUE]
  /\ UNCHANGED <<stored, flow>>

\* Its Cancel button is never disabled.
CloseDialog ==
  /\ page.dialog
  /\ page' = [page EXCEPT !.dialog = FALSE]
  /\ UNCHANGED <<stored, flow>>

\* The dialog asks no more than whether this start is under way.
StartDelivery ==
  /\ Visible /\ page.dialog
  /\ Send("start", "IN_PROGRESS")
  /\ page' = [page EXCEPT !.overlapped = @ \/ Busy("change")]
  /\ UNCHANGED stored

ChangeStatus ==
  /\ Visible /\ ~page.dialog
  /\ \E next \in Offered(Status) : Send("change", next)
  /\ page' = [page EXCEPT !.error = FALSE, !.overlapped = @ \/ Busy("start")]
  /\ UNCHANGED stored

\* Served as what the order has become allows.
Serve(k) ==
  /\ flow[k].stage = "sent"
  /\ Admits(flow[k].next) /\ Update(flow[k].next)
  /\ flow' = [flow EXCEPT ![k].stage = "served", ![k].row = Now + 1]
  /\ UNCHANGED <<proof, page>>

\* The answered row is shown, and the page loaded.
Answered(k) ==
  /\ flow[k].stage = "served"
  /\ page' = [page EXCEPT !.order = flow[k].row, !.loading = TRUE, !.error = FALSE,
                          !.dialog = @ /\ k # "start"]
  /\ flow' = [flow EXCEPT ![k] = Loading]
  /\ UNCHANGED stored

\* Refused, or no answer.
CommandFails(k) ==
  /\ flow[k].stage \in {"sent", "served"}
  /\ page' = [page EXCEPT !.error = TRUE]
  /\ flow' = [flow EXCEPT ![k] = Idle]
  /\ UNCHANGED stored

\* The tracking link could not be copied; nothing else comes of copying it.
CopyFails ==
  /\ page.order # 0
  /\ page' = [page EXCEPT !.error = TRUE]
  /\ UNCHANGED <<stored, flow>>

-----------------------------------------------------------------------------
(* The load.                                                               *)

LoadOrder(k) ==
  /\ flow[k].stage = "order"
  /\ flow' = [flow EXCEPT ![k].stage = "details", ![k].row = Now]
  /\ page' = [page EXCEPT !.order = Now]
  /\ UNCHANGED stored

\* The order cannot be read: an error, beside the order there was.
LoadFails(k) ==
  /\ flow[k].stage = "order"
  /\ flow' = [flow EXCEPT ![k] = Idle]
  /\ page' = [page EXCEPT !.loading = FALSE, !.error = TRUE]
  /\ UNCHANGED stored

\* Of the events the first ones are found, for the order as it has become by now; the proof
\* as it is when read; the driver is asked for by the order that was loaded.
ReadDetail(k) ==
  /\ flow[k].stage = "details"
  /\ \/ /\ flow[k].events = None
        /\ \E read \in {[of |-> of, types |-> Timeline(of, seen)] :
                        of \in flow[k].row .. Now, seen \in 0 .. Now} \cup {Failed} :
             flow' = [flow EXCEPT ![k].events = read]
     \/ /\ flow[k].proof = None
        /\ \E p \in {proof, Failed} : flow' = [flow EXCEPT ![k].proof = p]
     \/ /\ flow[k].driver = None /\ journal[flow[k].row].driver # None
        /\ \E d \in {journal[flow[k].row].driver, Failed} : flow' = [flow EXCEPT ![k].driver = d]
  /\ UNCHANGED <<stored, page>>

\* All of them are settled; a proof that was read is followed by its address.
ShowDetails(k) ==
  LET l == flow[k] IN
  /\ l.stage = "details" /\ l.events # None /\ l.proof # None
  /\ journal[l.row].driver # None => l.driver # None
  /\ page' = [page EXCEPT !.events = IF l.events = Failed THEN None ELSE l.events,
                          !.driver = IF l.driver = Failed THEN None ELSE l.driver,
                          !.proof = l.proof = TRUE, !.url = @ /\ l.proof = TRUE,
                          !.loading = @ /\ l.proof = TRUE]
  /\ flow' = [flow EXCEPT ![k] = IF l.proof = TRUE THEN [Idle EXCEPT !.stage = "url"] ELSE Idle]
  /\ UNCHANGED stored

ShowUrl(k) ==
  /\ flow[k].stage = "url"
  /\ \E url \in BOOLEAN : page' = [page EXCEPT !.url = url, !.loading = FALSE]
  /\ flow' = [flow EXCEPT ![k] = Idle]
  /\ UNCHANGED stored

\* The button of the error shown in place of an order.
Retry ==
  /\ page.order = 0 /\ ~page.loading
  /\ page' = [page EXCEPT !.loading = TRUE, !.error = FALSE]
  /\ flow' = [flow EXCEPT !["start"] = Loading]
  /\ UNCHANGED stored

-----------------------------------------------------------------------------
Next ==
  \/ Elsewhere \/ OpenDialog \/ CloseDialog \/ StartDelivery \/ ChangeStatus \/ CopyFails \/ Retry
  \/ \E k \in Kinds : \/ Serve(k) \/ Answered(k) \/ CommandFails(k)
                      \/ LoadOrder(k) \/ LoadFails(k) \/ ReadDetail(k) \/ ShowDetails(k) \/ ShowUrl(k)

Spec == Init /\ [][Next]_vars

-----------------------------------------------------------------------------
DetailsMatch ==
  /\ page.events # None =>
       /\ page.events.of >= page.order
       /\ EventOf[journal[page.events.of].status] \in page.events.types
  /\ page.driver \in {None, journal[page.order].driver}
  /\ page.url => page.proof

\* Whatever of it failed or was behind, a page that is at rest and reports no error shows
\* the driver of the order it shows, or none, and a timeline that has what brought the
\* order there, or to where it has gone since.
PageAgrees ==
  Visible /\ (\A k \in Kinds : ~Busy(k)) /\ ~page.error /\ ~page.overlapped => DetailsMatch
=============================================================================
