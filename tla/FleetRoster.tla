---------------------------- MODULE FleetRoster ----------------------------
(***************************************************************************)
(* The page of all drivers (FleetPage, CreateDriverDialog) over the        *)
(* drivers' rows (DriverService).  A listing is three queries, one for     *)
(* each status, of an index that follows the table; listings are asked for *)
(* every fifteen seconds without waiting, and land among the answers to    *)
(* changes of a status and to registrations.                               *)
(***************************************************************************)
EXTENDS Naturals, Sequences, FiniteSets

CONSTANTS
  Drivers, Hired,            \* all drivers, and those of the start
  MaxListings, MaxChanges,   \* bounds: in flight, and of all kinds together
  None

VARIABLES
  fleet,     \* driver -> its status, None before it is registered
  index,     \* driver -> the partition of GSI2 that lists it
  roster,    \* driver -> the statuses of its rows on the page
  listings,  \* listings in flight: partitions not read yet, rows found
  calls,     \* registrations and changes in flight
  form,      \* the dialog of a new driver
  updating,  \* the driver whose control is disabled
  changes    \* how much was changed

storeVars == <<fleet, index>>
pageVars == <<roster, form, updating>>
vars == <<storeVars, pageVars, listings, calls, changes>>

Statuses == {"AVAILABLE", "ON_DELIVERY", "OFFLINE"}
Unlisted == [d \in Drivers |-> <<>>]

Init ==
  /\ fleet = [d \in Drivers |-> IF d \in Hired THEN "AVAILABLE" ELSE None] /\ index = fleet
  /\ roster = Unlisted /\ form = "closed" /\ updating = None
  /\ listings = {} /\ calls = {} /\ changes = 0

Counts == changes < MaxChanges /\ changes' = changes + 1

-----------------------------------------------------------------------------
(* The rows.                                                               *)

\* Dispatch, deliveries and the driver change a status too.
ChangesElsewhere(d, s) ==
  /\ fleet[d] \notin {None, s} /\ Counts
  /\ fleet' = [fleet EXCEPT ![d] = s]
  /\ UNCHANGED <<index, pageVars, listings, calls>>

\* The index follows.
Follows(d) ==
  /\ index[d] # fleet[d]
  /\ index' = [index EXCEPT ![d] = fleet[d]]
  /\ UNCHANGED <<fleet, pageVars, listings, calls, changes>>

\* A registration or a change of status reaches the table, whatever the driver does.
Commit(c) ==
  /\ c.stage \in {"sent", "late"}
  /\ fleet' = [fleet EXCEPT ![c.driver] = c.status]
  /\ calls' = (calls \ {c}) \cup {[c EXCEPT !.stage = "done"] : x \in {"sent"} \cap {c.stage}}
  /\ UNCHANGED <<index, pageVars, listings, changes>>

-----------------------------------------------------------------------------
(* The listing.                                                            *)

\* Fault: the timer is cleared once the drivers are there.
PollsUntilShown == roster = Unlisted

Polls == TRUE

Poll ==
  /\ Polls /\ Cardinality(listings) < MaxListings
  /\ listings' = listings \cup {[left |-> Statuses, rows |-> Unlisted]}
  /\ UNCHANGED <<storeVars, pageVars, calls, changes>>

Found(l, s) ==
  [d \in Drivers |-> IF index[d] = s THEN Append(l.rows[d], s) ELSE l.rows[d]]

\* The three queries are on their way together and see the index at their own moments.
Read(l, s) ==
  /\ s \in l.left
  /\ listings' = (listings \ {l}) \cup {[left |-> l.left \ {s}, rows |-> Found(l, s)]}
  /\ UNCHANGED <<storeVars, pageVars, calls, changes>>

Reads == \E l \in listings, s \in Statuses : Read(l, s)

Land ==
  /\ \E l \in listings : /\ l.left = {}
                         /\ roster' = l.rows /\ listings' = listings \ {l}
  /\ UNCHANGED <<storeVars, form, updating, calls, changes>>

\* A query fails or the answer is lost; the page hears of it after the reads, or never.
ListingFails ==
  /\ \E l \in listings : l.left = {} /\ listings' = listings \ {l}
  /\ UNCHANGED <<storeVars, pageVars, calls, changes>>

-----------------------------------------------------------------------------
(* What the dispatcher does.                                               *)

Sends(kind, d, s) ==
  calls' = calls \cup {[kind |-> kind, driver |-> d, status |-> s, stage |-> "sent", open |-> TRUE]}

\* One control is disabled at a time, that of the driver chosen last.
ChooseStatus(d, s) ==
  /\ \E i \in DOMAIN roster[d] : roster[d][i] # s
  /\ updating # d /\ Counts
  /\ Sends("status", d, s) /\ updating' = d
  /\ UNCHANGED <<storeVars, roster, form, listings>>

OpenForm ==
  /\ form = "closed" /\ form' = "open"
  /\ UNCHANGED <<storeVars, roster, updating, listings, calls, changes>>

\* The dialog can be left while its driver is being registered.
CloseForm ==
  /\ form # "closed" /\ form' = "closed"
  /\ calls' = {[c EXCEPT !.open = (@ /\ c.kind # "register")] : c \in calls}
  /\ UNCHANGED <<storeVars, roster, updating, listings, changes>>

\* The identifier is new.
Submit(d) ==
  /\ form = "open" /\ Counts
  /\ fleet[d] = None /\ \A c \in calls : c.driver # d
  /\ Sends("register", d, "AVAILABLE") /\ form' = "busy"
  /\ UNCHANGED <<storeVars, roster, updating, listings>>

\* The rows of the driver are replaced.
Changed(c) ==
  /\ c.kind = "status"
  /\ roster' = [roster EXCEPT ![c.driver] = [i \in DOMAIN @ |-> c.status]]
  /\ updating' = None /\ UNCHANGED form

\* A row is added, be one there or not, and whichever dialog is open is closed.
Registered(c) ==
  /\ c.kind = "register"
  /\ roster' = [roster EXCEPT ![c.driver] = <<c.status>> \o @]
  /\ form' = "closed" /\ UNCHANGED updating

Answer(c) ==
  /\ c.stage = "done" /\ (Changed(c) \/ Registered(c))
  /\ calls' = calls \ {c}
  /\ UNCHANGED <<storeVars, listings, changes>>

\* It fails, or its answer is lost and it may still be done.
CallFails(c) ==
  /\ c.stage \in {"sent", "done"}
  /\ calls' \in {calls \ {c}}
       \cup {(calls \ {c}) \cup {[c EXCEPT !.stage = "late"]} : x \in {"sent"} \cap {c.stage}}
  /\ IF c.kind = "status" THEN updating' = None /\ UNCHANGED form
     ELSE /\ form' = IF c.open THEN "open" ELSE form
          /\ UNCHANGED updating
  /\ UNCHANGED <<storeVars, roster, listings, changes>>

-----------------------------------------------------------------------------
Next ==
  \/ \E d \in Drivers, s \in Statuses : ChangesElsewhere(d, s) \/ ChooseStatus(d, s)
  \/ \E d \in Drivers : Follows(d) \/ Submit(d)
  \/ \E c \in calls : Commit(c) \/ Answer(c) \/ CallFails(c)
  \/ Poll \/ Reads \/ Land \/ ListingFails
  \/ OpenForm \/ CloseForm

\* The timer goes on, queries end, the index follows, and not every listing is lost.
Fairness ==
  /\ WF_vars(\E d \in Drivers : Follows(d))
  /\ WF_vars(Poll) /\ WF_vars(Reads) /\ SF_vars(Land)

Spec == Init /\ [][Next]_vars /\ Fairness

-----------------------------------------------------------------------------
TypeOK ==
  /\ fleet \in [Drivers -> Statuses \cup {None}] /\ index \in [Drivers -> Statuses \cup {None}]
  /\ \A d \in Drivers : \A i \in DOMAIN roster[d] : roster[d][i] \in Statuses
  /\ form \in {"closed", "open", "busy"} /\ updating \in Drivers \cup {None}

\* Whatever overtook what, the page comes to show each driver once, with its status.
RosterSettles ==
  []<>(\A d \in Drivers : roster[d] = IF fleet[d] = None THEN <<>> ELSE <<fleet[d]>>)
=============================================================================
