-------------------------- MODULE CustomerTracking --------------------------
(***************************************************************************)
(* The public side of an order: TrackingService (the tracking payload,     *)
(* feedback, reschedule requests) and TrackingPage in the customer's       *)
(* browser, with the order moves they race with.  The payload is put       *)
(* together from several awaited reads, so a payload may mix two moments;  *)
(* the page polls on an interval without waiting for the previous answer,  *)
(* so answers may land out of order.                                       *)
(***************************************************************************)
EXTENDS TrackedOrders, FiniteSets

CONSTANTS Tabs,      \* browser tabs showing the tracking page
          MaxLoads   \* bound: requests for the payload a tab has in flight

VARIABLES tab,      \* tab -> the page's state
          load,     \* tab -> the requests for the payload in flight; equal ones count once
          post      \* tab, form -> a submission in flight, or None

pageVars == <<tab, load, post>>
vars == <<orderVars, pageVars>>
Forms == {"feedback", "reschedule"}

PagesInit ==
  /\ tab = [p \in Tabs |-> [token |-> None, order |-> None, view |-> None]]
  /\ load = [p \in Tabs |-> {}]
  /\ post = [p \in Tabs |-> [f \in Forms |-> None]]

Init == OrdersInit /\ PagesInit

-----------------------------------------------------------------------------
(* The timeline of a payload.                                              *)

\* What the row implies and the stored events lack is added (orders written
\* before events were).
Timeline(row, recorded) ==
  recorded
  \cup {"ORDER_CREATED"}
  \cup (IF NeedsDriver(row.status) \/ row.status = "ASSIGNED" THEN {"DRIVER_ASSIGNED"} ELSE {})
  \cup (IF NeedsDriver(row.status) THEN {"DELIVERY_STARTED"} ELSE {})
  \cup (IF row.status \in {"ARRIVED", "DELIVERED"} THEN {"DRIVER_ARRIVED"} ELSE {})
  \cup (IF row.status = "DELIVERED" THEN {"PROOF_UPLOADED", "DELIVERY_COMPLETED"} ELSE {})

-----------------------------------------------------------------------------
(* A request for the payload: sent, the order read, the rest read, landed. *)

Open(p) ==
  /\ tab[p].token = None
  /\ \E l \in links : tab' = [tab EXCEPT ![p].token = l.token, ![p].order = l.order]
  /\ load' = [load EXCEPT ![p] = {[stage |-> "sent"]}]
  /\ UNCHANGED <<tokenVars, order, change, post>>

\* Fault: polling stops with the delivery.
MayPollUntilDelivered(p) ==
  /\ tab[p].token # None
  /\ tab[p].view # None => tab[p].view.status # "DELIVERED"

\* The interval, and the retry button: whatever is in flight or shown.
MayPoll(p) == tab[p].token # None

Poll(p) ==
  /\ MayPoll(p)
  /\ Cardinality(load[p]) < MaxLoads
  /\ load' = [load EXCEPT ![p] = @ \cup {[stage |-> "sent"]}]
  /\ UNCHANGED <<tokenVars, order, change, tab, post>>

\* resolveToken, then the order's row.  An expired link is an error (LoadFails).
ReadOrder(p) ==
  /\ [stage |-> "sent"] \in load[p]
  /\ LET o == tab[p].order
         read == [stage |-> "order", view |->
                   [status |-> order[o].status, request |-> order[o].request,
                    feedback |-> None, proof |-> FALSE, timeline |-> {}]]
     IN  /\ Resolves(tab[p].token, o)
         /\ load' = [load EXCEPT ![p] = (@ \ {[stage |-> "sent"]}) \cup {read}]
  /\ UNCHANGED <<tokenVars, order, change, tab, post>>

\* The parallel reads that follow: events, proof and feedback.
Payload(view, row) ==
  [view EXCEPT !.feedback = row.feedback, !.proof = row.proof,
               !.timeline = Timeline(view, row.events)]

ReadRest(p) ==
  /\ \E l \in load[p] :
       /\ l.stage = "order"
       /\ load' = [load EXCEPT ![p] = (@ \ {l}) \cup
            {[stage |-> "answer", view |-> Payload(l.view, order[tab[p].order])]}]
  /\ UNCHANGED <<tokenVars, order, change, tab, post>>

\* The answer is shown, even when a later request was answered before.
Show(p) ==
  /\ \E l \in load[p] :
       /\ l.stage = "answer"
       /\ tab' = [tab EXCEPT ![p].view = l.view]
       /\ load' = [load EXCEPT ![p] = @ \ {l}]
  /\ UNCHANGED <<tokenVars, order, change, post>>

\* A 404, a timeout or a lost answer keeps what the page shows, under a banner.
LoadFails(p) ==
  /\ \E l \in load[p] : load' = [load EXCEPT ![p] = @ \ {l}]
  /\ UNCHANGED <<tokenVars, order, change, tab, post>>

-----------------------------------------------------------------------------
(* The two forms.                                                          *)

\* Which form the page offers for what it shows.
Offers(view, form) ==
  \/ form = "feedback" /\ view.status = "DELIVERED" /\ view.feedback = None
  \/ form = "reschedule" /\ view.status \in {"PENDING", "ASSIGNED"} /\ view.request = None

Press(p, form) ==
  /\ tab[p].view # None /\ Offers(tab[p].view, form)
  /\ post[p][form] = None
  /\ \E v \in IF form = "feedback" THEN Ratings ELSE Windows :
       post' = [post EXCEPT ![p][form] = [stage |-> "sent", value |-> v]]
  /\ UNCHANGED <<tokenVars, order, change, tab, load>>

\* What is read before the transaction: the token, and for feedback the order.
Admits(p, form) ==
  /\ Resolves(tab[p].token, tab[p].order)
  /\ form = "feedback" => order[tab[p].order].status = "DELIVERED"

ReadPost(p, form) ==
  /\ post[p][form] # None /\ post[p][form].stage = "sent"
  /\ IF Admits(p, form) THEN post' = [post EXCEPT ![p][form].stage = "commit"]
                         ELSE post' = [post EXCEPT ![p][form] = None]
  /\ UNCHANGED <<tokenVars, order, change, tab, load>>

\* Fault: a second rating replaces the first.
AcceptsAgain(row, form) == form = "feedback" \/ row.status \in {"PENDING", "ASSIGNED"}

\* The transaction's condition: no feedback yet, or an order nobody started.
Accepts(row, form) ==
  IF form = "feedback" THEN row.feedback = None ELSE row.status \in {"PENDING", "ASSIGNED"}

CommitPost(p, form) ==
  LET o == tab[p].order  v == post[p][form].value IN
  /\ post[p][form] # None /\ post[p][form].stage = "commit"
  /\ IF Accepts(order[o], form)
     THEN /\ order' = IF form = "feedback"
                      THEN [order EXCEPT ![o].feedback = v, ![o].thanked = @ + 1]
                      ELSE [order EXCEPT ![o].request = v]
          /\ post' = [post EXCEPT ![p][form].stage = "done"]
     ELSE /\ post' = [post EXCEPT ![p][form] = None]
          /\ UNCHANGED order
  /\ UNCHANGED <<tokenVars, change, tab, load>>

\* The answer is merged into what the page shows; a refusal or a lost answer
\* only changes the message under the form.
AnswerPost(p, form) ==
  /\ post[p][form] # None /\ post[p][form].stage = "done"
  /\ \/ tab' = [tab EXCEPT ![p].view =
            IF form = "feedback" THEN [@ EXCEPT !.feedback = post[p][form].value]
                                 ELSE [@ EXCEPT !.request = post[p][form].value]]
     \/ UNCHANGED tab
  /\ post' = [post EXCEPT ![p][form] = None]
  /\ UNCHANGED <<tokenVars, order, change, load>>

-----------------------------------------------------------------------------
\* A message with the link reaches the customer.
Text(o) == order[o] # None /\ TextLink(o) /\ UNCHANGED <<order, change, pageVars>>

Next ==
  \/ OrderStep /\ UNCHANGED pageVars
  \/ \E o \in Orders : Text(o)
  \/ \E p \in Tabs : \/ Open(p) \/ Poll(p)
                     \/ ReadOrder(p) \/ ReadRest(p) \/ Show(p) \/ LoadFails(p)
  \/ \E p \in Tabs, f \in Forms : Press(p, f) \/ ReadPost(p, f) \/ CommitPost(p, f) \/ AnswerPost(p, f)

\* The interval keeps firing, and a request that is possible again and again is
\* not lost at the same place every time.  Submissions owe nobody anything.
Fairness ==
  \A p \in Tabs : WF_vars(Poll(p)) /\ SF_vars(ReadOrder(p))
                  /\ SF_vars(ReadRest(p)) /\ SF_vars(Show(p))

Spec == Init /\ [][Next]_vars /\ Fairness

-----------------------------------------------------------------------------
View == [status : Statuses, request : Windows \cup {None}, feedback : Ratings \cup {None},
         proof : BOOLEAN, timeline : SUBSET Milestones]
Request == [stage : {"sent"}] \cup [stage : {"order", "answer"}, view : View]
Submission(form) == [stage : {"sent", "commit", "done"},
                     value : IF form = "feedback" THEN Ratings ELSE Windows]

TypeOK ==
  /\ OrdersTypeOK
  /\ tab \in [Tabs -> [token : Tokens \cup {None}, order : Orders \cup {None},
                       view : View \cup {None}]]
  /\ load \in [Tabs -> SUBSET Request]
  /\ DOMAIN post = Tabs
  /\ \A p \in Tabs : /\ DOMAIN post[p] = Forms
                    /\ \A f \in Forms : post[p][f] \in Submission(f) \cup {None}

\* Feedback belongs to a delivered order, once: the status is read before the
\* transaction and only the absence of feedback is checked inside it, with two
\* tabs, lost answers and repeated presses in between.
FeedbackOnceAfterDelivery ==
  \A o \in Orders : order[o] # None =>
    /\ order[o].thanked = IF order[o].feedback = None THEN 0 ELSE 1
    /\ order[o].feedback # None => order[o].status = "DELIVERED"

\* Stored feedback ends up on every page whose link stays good, and stays there:
\* answers that were read before it may still land, but only finitely many.
PageSettlesOnFeedback ==
  \A p \in Tabs, o \in Orders :
    <>[](tab[p].order = o /\ order[o] # None /\ order[o].feedback # None
         /\ Resolves(tab[p].token, o)
         => tab[p].view # None /\ tab[p].view.feedback = order[o].feedback)
=============================================================================
