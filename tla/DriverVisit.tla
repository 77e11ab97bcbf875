----------------------------- MODULE DriverVisit -----------------------------
(***************************************************************************)
(* A driver's visit: DriverPage with the order it shows, the delivery      *)
(* workflow and the capture of the proof, against the server.  The page    *)
(* loads the order every ten seconds and changes its copy at once when a   *)
(* tap is answered or queued; the form lives as long as the order is       *)
(* shown.  How the queue is flushed is OfflineSync's matter, and who else  *)
(* may move the order is Fleet's: here a dispatcher may only give a failed *)
(* order to the same driver again.                                         *)
(***************************************************************************)
EXTENDS OrderLifecycle, Naturals, Sequences, FiniteSets, SequencesExt

CONSTANTS
  Photos,      \* numbered in the order they are taken in
  MaxVisits,   \* bound: how often the driver is given the order
  MaxFaults,   \* bound: failures and changes of mind
  MaxUploads,  \* bound: uploads under way
  MaxQueue,    \* bound: taps queued on the device
  None

\* The form, and an upload under way.
FormState ==
  [arrived : BOOLEAN, file : Photos \cup {None}, object : Photos \cup {None},
   registered : BOOLEAN,
   phase : {"idle", "uploading", "registering", "ready", "confirming",
            "upload-error", "confirm-error"},
   lookup : BOOLEAN, found : Photos \cup {None}]

UploadState ==
  [photo : Photos \cup {None}, shot : Photos \cup {None}, here : BOOLEAN,
   at : {"uploading", "registering", "registered"}]

ASSUME NoneAssumption == None \notin FormState /\ None \notin UploadState

VARIABLES
  order, proof,      \* the server's: the status and the registered photo
  stored,            \* photos in the bucket
  shown, recent,     \* the page's: the status, None before the first load, and whether the
                     \* order was delivered just now
  loads,             \* answers to GET /orders on their way
  form,              \* the state of useDeliveryWorkflow and useProofOfDelivery, or None
  change, uploads,   \* the status request and the uploads under way
  queue, draft,      \* on the device: queued taps, and the photo kept as a draft
  visit, faults,     \* see the bounds
  disturbed          \* history: a photo left the screen under an upload, or by a late draft

server == <<order, proof, stored>>
page == <<shown, recent, form>>
device == <<queue, draft>>
history == <<visit, faults, disturbed>>
vars == <<server, page, loads, change, uploads, device, history>>

-----------------------------------------------------------------------------
(* The page                                                                *)

\* Fault: an order that has arrived is not among those the page picks from.
DisplayedUnlessArrived(status, just) == just \/ status \in {"ASSIGNED", "IN_PROGRESS"}

Displayed(status, just) == just \/ status \in {"ASSIGNED", "IN_PROGRESS", "ARRIVED"}

\* lookup: the registered proof is being asked for; found: the draft that is being read.
Mount(status) ==
  [arrived |-> status = "ARRIVED", file |-> None, object |-> None, registered |-> FALSE,
   phase |-> "idle", lookup |-> status = "ARRIVED", found |-> draft]

\* The effects of a status that changes under the form.
Follow(f, status) ==
  IF f = None THEN Mount(status)
  ELSE [f EXCEPT !.arrived = @ \/ status = "ARRIVED",
                 !.lookup = IF status = shown THEN @ ELSE status = "ARRIVED"]

\* The form, become f, is shown a status; one that goes leaves its requests alone.
Shows(f, status, just) ==
  /\ shown' = status /\ recent' = just
  /\ form' = IF Displayed(status, just) THEN Follow(f, status) ELSE None

Mine(task) == task # None /\ task.here /\ form # None
Left(task) == IF task = None \/ form' # None THEN task ELSE [task EXCEPT !.here = FALSE]
UploadsLeft(S) == {Left(u) : u \in S}

Fault == faults < MaxFaults /\ faults' = faults + 1

Init ==
  /\ order = "ASSIGNED" /\ proof = None /\ stored = {}
  /\ shown = None /\ recent = FALSE /\ form = None
  /\ loads = {} /\ change = None /\ uploads = {}
  /\ queue = <<>> /\ draft = None
  /\ visit = 1 /\ faults = 0 /\ disturbed = FALSE

Poll ==
  /\ loads = {}
  /\ loads' = {order}
  /\ UNCHANGED <<server, page, change, uploads, device, history>>

Land ==
  /\ \E status \in loads : Shows(form, status, recent) /\ loads' = loads \ {status}
  /\ change' = Left(change) /\ uploads' = UploadsLeft(uploads)
  /\ UNCHANGED <<server, device, history>>

\* From the receipt to the next delivery.
Continue ==
  /\ recent /\ shown = "DELIVERED"
  /\ Shows(form, shown, FALSE)
  /\ change' = Left(change) /\ uploads' = UploadsLeft(uploads)
  /\ UNCHANGED <<server, loads, device, history>>

\* The page is loaded again: what it knew and waited for is gone.
Reload ==
  /\ shown # None /\ Fault
  /\ shown' = None /\ recent' = FALSE /\ form' = None
  /\ loads' = {} /\ change' = None /\ uploads' = {}
  /\ UNCHANGED <<server, device, visit, disturbed>>

-----------------------------------------------------------------------------
(* useDeliveryWorkflow                                                     *)

Open == form # None /\ shown # "DELIVERED"

Offered(status) ==
  CASE status = "IN_PROGRESS" -> shown = "ASSIGNED"
    [] status = "ARRIVED" -> shown # "ASSIGNED" /\ ~form.arrived
    [] status = "DELIVERED" -> form.arrived /\ form.registered /\ form.phase # "confirming"
    [] status = "DELIVERY_FAILED" -> shown \in {"IN_PROGRESS", "ARRIVED"}

\* Bound: a tap waits for the one before it.
Tap(status) ==
  /\ Open /\ change = None /\ Offered(status)
  /\ change' = [status |-> status, done |-> FALSE, here |-> TRUE]
  /\ form' = IF status = "DELIVERED" THEN [form EXCEPT !.phase = "confirming"] ELSE form
  /\ UNCHANGED <<server, shown, recent, loads, uploads, device, history>>

Accepts(status) == CanTransition(order, status) /\ (status = "DELIVERED" => proof # None)

Serve ==
  /\ change # None /\ ~change.done /\ Accepts(change.status)
  /\ order' = change.status
  /\ change' = [change EXCEPT !.done = TRUE]
  /\ UNCHANGED <<proof, stored, page, loads, uploads, device, history>>

\* What is told to the page when a tap was answered or queued.
Told ==
  LET f == IF Mine(change) /\ change.status = "ARRIVED" THEN [form EXCEPT !.arrived = TRUE]
           ELSE form
  IN /\ Shows(f, change.status, recent \/ change.status = "DELIVERED")
     /\ change' = None /\ uploads' = UploadsLeft(uploads)

Answered ==
  /\ change # None /\ change.done
  /\ Told
  /\ UNCHANGED <<server, loads, device, history>>

\* No answer: the tap is queued, whatever became of it, and treated as answered.
Unanswered ==
  /\ change # None /\ Len(queue) < MaxQueue /\ Fault
  /\ queue' = Append(queue, change.status)
  /\ Told
  /\ UNCHANGED <<server, loads, draft, visit, disturbed>>

AfterFailure(f) == [f EXCEPT !.phase = "confirm-error"]

Unsettled ==
  /\ form' = IF Mine(change) /\ change.status = "DELIVERED" THEN AfterFailure(form) ELSE form
  /\ change' = None
  /\ UNCHANGED <<server, shown, recent, loads, uploads, device, visit, disturbed>>

Refused ==
  /\ change # None /\ ~change.done /\ ~Accepts(change.status)
  /\ Unsettled /\ UNCHANGED faults

Fails == change # None /\ Unsettled /\ Fault

\* The queue, which OfflineSync flushes in order: what the server refuses is discarded.
Flush ==
  /\ queue # <<>>
  /\ order' = IF Accepts(Head(queue)) THEN Head(queue) ELSE order
  /\ queue' = Tail(queue)
  /\ UNCHANGED <<proof, stored, page, loads, change, uploads, draft, history>>

\* A dispatcher reschedules the order and gives it to the driver again.
AssignAgain ==
  /\ order = "DELIVERY_FAILED" /\ visit < MaxVisits
  /\ order' = "ASSIGNED" /\ visit' = visit + 1
  /\ UNCHANGED <<proof, stored, page, loads, change, uploads, device, faults, disturbed>>

-----------------------------------------------------------------------------
(* useProofOfDelivery                                                      *)

Capturing == Open /\ form.arrived /\ ~form.registered
Uploading == form.phase \in {"uploading", "registering"}

\* The registered proof is looked up when the order is shown as arrived.
LookUp ==
  /\ form # None /\ form.lookup /\ proof # None
  /\ form' = [form EXCEPT !.lookup = FALSE, !.registered = TRUE, !.phase = "ready"]
  /\ UNCHANGED <<server, shown, recent, loads, change, uploads, device, history>>

LookUpFails ==
  /\ form # None /\ form.lookup
  /\ form' = [form EXCEPT !.lookup = FALSE]
  /\ IF proof = None THEN UNCHANGED faults ELSE Fault
  /\ UNCHANGED <<server, shown, recent, loads, change, uploads, device, visit, disturbed>>

\* The draft that was on the device when the form was mounted takes the place of
\* whatever is on the screen, and is saved as a draft once more.
RecoverDraft ==
  /\ form # None /\ form.found # None
  /\ form' = [form EXCEPT !.file = form.found, !.found = None]
  /\ draft' = IF form.registered THEN draft ELSE form.found
  /\ disturbed' = (disturbed \/ form.file \notin {None, form.found})
  /\ UNCHANGED <<server, shown, recent, loads, change, uploads, queue, visit, faults>>

\* Fault: the object of the photo before is kept.
PhotographedAgain(f, photo) == [f EXCEPT !.file = photo, !.phase = "idle"]

Photographed(f, photo) == [f EXCEPT !.file = photo, !.object = None, !.phase = "idle"]

Taken == stored \cup {form.file, form.found, draft} \cup {u.photo : u \in uploads}

\* The effect keeps the photo as a draft.
SelectProof(photo) ==
  /\ Capturing /\ ~Uploading /\ form.phase # "confirming" /\ photo # form.file
  /\ \A p \in Photos : p < photo => p \in Taken
  /\ form' = Photographed(form, photo)
  /\ draft' = photo
  /\ IF form.file = None THEN UNCHANGED faults ELSE Fault
  /\ UNCHANGED <<server, shown, recent, loads, change, uploads, queue, visit, disturbed>>

\* Remove is offered while the photo is uploaded, and does not stop the upload.
RemoveProof ==
  /\ Capturing /\ form.file # None /\ Fault
  /\ form' = [form EXCEPT !.file = None, !.object = None, !.phase = "idle"]
  /\ draft' = None
  /\ disturbed' = (disturbed \/ uploads # {})
  /\ UNCHANGED <<server, shown, recent, loads, change, uploads, queue, visit>>

\* An object that was uploaded before is only registered; shot: the photo on the screen.
Upload ==
  /\ Capturing /\ form.file # None /\ ~Uploading
  /\ Cardinality(uploads) < MaxUploads
  /\ LET again == form.object # None
         photo == IF again THEN form.object ELSE form.file
     IN /\ uploads' = uploads \cup {[photo |-> photo, shot |-> form.file, here |-> TRUE,
                                     at |-> IF again THEN "registering" ELSE "uploading"]}
        /\ form' = [form EXCEPT !.phase = IF again THEN "registering" ELSE "uploading"]
  /\ UNCHANGED <<server, shown, recent, loads, change, device, history>>

Becomes(u, at) == uploads' = (uploads \ {u}) \cup {[u EXCEPT !.at = at]}

\* The object is in the bucket and the page goes on to register it.
Put(u) ==
  /\ u.at = "uploading"
  /\ stored' = stored \cup {u.photo}
  /\ Becomes(u, "registering")
  /\ form' = IF Mine(u) THEN [form EXCEPT !.object = u.photo, !.phase = "registering"] ELSE form
  /\ UNCHANGED <<order, proof, shown, recent, loads, change, device, history>>

\* A proof is registered for an order that has arrived and an object that is stored.
Register(u) ==
  /\ u.at = "registering" /\ order = "ARRIVED" /\ u.photo \in stored
  /\ proof' = u.photo
  /\ Becomes(u, "registered")
  /\ UNCHANGED <<order, stored, page, loads, change, device, history>>

\* The draft is removed; when that fails the error is shown, though the proof is secured.
Registered(u) ==
  /\ u.at = "registered"
  /\ uploads' = uploads \ {u}
  /\ \E removed \in BOOLEAN :
       /\ IF removed THEN UNCHANGED faults ELSE Fault
       /\ draft' = IF removed THEN None ELSE draft
       /\ form' = IF Mine(u)
                  THEN [form EXCEPT !.registered = TRUE,
                                    !.phase = IF removed THEN "ready" ELSE "upload-error"]
                  ELSE form
  /\ UNCHANGED <<server, shown, recent, loads, change, queue, visit, disturbed>>

\* Refused, or no answer at any stage.
UploadFails(u) ==
  /\ IF u.at = "registering" /\ order # "ARRIVED" THEN UNCHANGED faults ELSE Fault
  /\ uploads' = uploads \ {u}
  /\ form' = IF Mine(u) THEN [form EXCEPT !.phase = "upload-error"] ELSE form
  /\ UNCHANGED <<server, shown, recent, loads, change, device, visit, disturbed>>

-----------------------------------------------------------------------------
\* What the driver and the form do.
Works ==
  \/ \E status \in {"IN_PROGRESS", "ARRIVED", "DELIVERED"} : Tap(status)
  \/ LookUp \/ LookUpFails \/ RecoverDraft
  \/ \E photo \in Photos : SelectProof(photo)
  \/ Upload
  \/ \E u \in uploads : Put(u) \/ Register(u) \/ Registered(u) \/ UploadFails(u)

Next ==
  \/ Works \/ Serve \/ Answered \/ Refused \/ Flush
  \/ Poll \/ Land \/ Continue \/ Reload
  \/ Tap("DELIVERY_FAILED") \/ Unanswered \/ Fails \/ RemoveProof \/ AssignAgain

\* The driver goes on with the delivery, what was sent is answered, the queue is flushed
\* and the page loads the order; faults are finitely many because of their bound.
Fairness ==
  /\ WF_vars(Works) /\ WF_vars(Serve) /\ WF_vars(Answered \/ Refused) /\ WF_vars(Flush)
  /\ WF_vars(Poll) /\ WF_vars(Land)

Spec == Init /\ [][Next]_vars /\ Fairness

\* Bound: behaviours are followed to the start of the second visit.
FirstVisit == visit = 1
-----------------------------------------------------------------------------
\* What is sent to be registered is the photo that was on the screen when the driver
\* pressed Upload, on a retry too, unless a photo was removed under an upload or a
\* draft came late.
UploadIsReviewed == ~disturbed => \A u \in uploads : u.photo = u.shot

\* A driver who goes on gets to the end of the visit: no failure, lost answer, reload or
\* stale list leaves the page without the button that comes next.
VisitEnds == <>(order \in {"DELIVERED", "DELIVERY_FAILED"})
=============================================================================
