----------------------------- MODULE DriverPush -----------------------------
(***************************************************************************)
(* Push messages to a driver: the switch of DriverProfilePage on a device, *)
(* the subscriptions PushService keeps, and the notices an assignment or a *)
(* route sends to all of them without waiting.  A notice works on the list *)
(* it has read, which may lag, while devices come and go; a request the    *)
(* page gave up, or left behind, may still be carried out.                 *)
(***************************************************************************)
EXTENDS FiniteSets, Naturals

CONSTANTS
  Devices,     \* devices of one driver, each with the page open once
  Endpoints,   \* addresses the browsers' push services hand out, each once
  MaxNotices,  \* bound: notices under way
  None

VARIABLES
  device,   \* device -> the endpoint its browser is subscribed to, or None
  used,     \* endpoints handed out
  gone,     \* endpoints that answer 404 or 410 from now on
  rows,     \* endpoints stored for the driver
  shown,    \* device -> whether its page shows the switch on
  switch,   \* device -> what its switch is doing, and to which endpoint
  late,     \* requests nobody waits for that the server may still carry out
  notices,  \* notices under way: the endpoints left to send to
  kept      \* history: device -> the endpoint it was last turned on with, None once
            \* it is being turned off

vars == <<device, used, gone, rows, shown, switch, late, notices, kept>>

Still == [at |-> "still", endpoint |-> None]

Init ==
  /\ device = [d \in Devices |-> None] /\ used = {} /\ gone = {} /\ rows = {}
  /\ shown = [d \in Devices |-> FALSE] /\ switch = [d \in Devices |-> Still]
  /\ late = {} /\ notices = {} /\ kept = [d \in Devices |-> None]

-----------------------------------------------------------------------------
(* The switch.  It goes by what the page shows, not by the browser.        *)

Does(d, at, endpoint) == switch' = [switch EXCEPT ![d] = [at |-> at, endpoint |-> endpoint]]
Rests(d) == switch' = [switch EXCEPT ![d] = Still]

\* A browser that is subscribed already keeps its endpoint.
Enable(d) ==
  /\ switch[d] = Still /\ ~shown[d]
  /\ \E e \in IF device[d] = None THEN Endpoints \ used ELSE {device[d]} :
       /\ device' = [device EXCEPT ![d] = e]
       /\ used' = used \cup {e}
       /\ Does(d, "storing", e)
  /\ UNCHANGED <<gone, rows, shown, late, notices, kept>>

Subscribe(d) ==
  /\ switch[d].at = "storing"
  /\ rows' = rows \cup {switch[d].endpoint}
  /\ shown' = [shown EXCEPT ![d] = TRUE]
  /\ kept' = [kept EXCEPT ![d] = switch[d].endpoint]
  /\ Rests(d)
  /\ UNCHANGED <<device, used, gone, late, notices>>

\* With no subscription left in the browser there is nothing to ask the server.
Disable(d) ==
  /\ switch[d] = Still /\ shown[d]
  /\ kept' = [kept EXCEPT ![d] = None]
  /\ IF device[d] = None
     THEN shown' = [shown EXCEPT ![d] = FALSE] /\ UNCHANGED switch
     ELSE Does(d, "deleting", device[d]) /\ UNCHANGED shown
  /\ UNCHANGED <<device, used, gone, rows, late, notices>>

Unsubscribe(d) ==
  /\ switch[d].at = "deleting"
  /\ rows' = rows \ {switch[d].endpoint}
  /\ Does(d, "unsubscribing", switch[d].endpoint)
  /\ UNCHANGED <<device, used, gone, shown, late, notices, kept>>

\* Fault: the row is deleted and the browser left subscribed.
LeftSubscribed(d) == UNCHANGED <<device, gone>>

Unsubscribed(d) ==
  /\ device' = [device EXCEPT ![d] = None]
  /\ gone' = gone \cup {switch[d].endpoint}

LeaveBrowser(d) ==
  /\ switch[d].at = "unsubscribing"
  /\ Unsubscribed(d)
  /\ shown' = [shown EXCEPT ![d] = FALSE]
  /\ Rests(d)
  /\ UNCHANGED <<used, rows, late, notices, kept>>

\* The request the switch waits for, if it does.
Awaited(d) ==
  IF switch[d].at \in {"storing", "deleting"} THEN {<<switch[d].at, switch[d].endpoint>>} ELSE {}

\* An error or ten seconds: the switch stays as it is shown.
SwitchFails(d) ==
  /\ switch[d] # Still
  /\ late' = late \cup Awaited(d)
  /\ Rests(d)
  /\ UNCHANGED <<device, used, gone, rows, shown, notices, kept>>

\* The page is left and opened again, and looks at the browser before the switch is
\* touched.  Should what it left behind still unsubscribe the browser, that is a lapse.
Reopen(d) ==
  /\ late' = late \cup Awaited(d)
  /\ Rests(d)
  /\ shown' = [shown EXCEPT ![d] = device[d] # None]
  /\ UNCHANGED <<device, used, gone, rows, notices, kept>>

\* The server comes to a request that was given up.
ServeLate ==
  /\ \E request \in late :
       /\ late' = late \ {request}
       /\ rows' = IF request[1] = "storing" THEN rows \cup {request[2]} ELSE rows \ {request[2]}
  /\ UNCHANGED <<device, used, gone, shown, switch, notices, kept>>

\* The browser drops its subscription.
Lapse(d) ==
  /\ device[d] # None
  /\ gone' = gone \cup {device[d]}
  /\ device' = [device EXCEPT ![d] = None]
  /\ UNCHANGED <<used, rows, shown, switch, late, notices, kept>>

\* The push service gives up an endpoint, and the browser does not know.
Expire(e) ==
  /\ e \in used \ gone
  /\ gone' = gone \cup {e}
  /\ UNCHANGED <<device, used, rows, shown, switch, late, notices, kept>>

-----------------------------------------------------------------------------
(* Notices.                                                                *)

\* notifyDriver queries the rows, which may lag, and sends to all of them.
NotifyDriver ==
  /\ Cardinality(notices) < MaxNotices
  /\ \E read \in SUBSET used \ {{}} : notices' = notices \cup {read}
  /\ UNCHANGED <<device, used, gone, rows, shown, switch, late, kept>>

Drops(e) == e \in gone

\* Sent, refused for good, or failed in a way that is only logged.
SendNotification ==
  /\ \E left \in notices, failed \in BOOLEAN : \E e \in left :
       /\ e \in gone => failed
       /\ rows' = IF failed /\ Drops(e) THEN rows \ {e} ELSE rows
       /\ notices' = (notices \ {left}) \cup ({left \ {e}} \ {{}})
  /\ UNCHANGED <<device, used, gone, shown, switch, late, kept>>

-----------------------------------------------------------------------------
Next ==
  \/ \E d \in Devices : \/ Enable(d) \/ Subscribe(d) \/ Disable(d) \/ Unsubscribe(d)
                        \/ LeaveBrowser(d) \/ SwitchFails(d) \/ Reopen(d) \/ Lapse(d)
  \/ \E e \in Endpoints : Expire(e)
  \/ ServeLate \/ NotifyDriver \/ SendNotification

Spec == Init /\ [][Next]_vars
-----------------------------------------------------------------------------
\* A switch turned on and not touched since is kept: while its browser is subscribed and
\* the endpoint lives, the row is there, whatever requests given up are carried out late,
\* on this device or another, and whatever notices fail on the rows they have read.
SwitchedOnIsStored ==
  \A d \in Devices :
    kept[d] # None /\ kept[d] = device[d] /\ kept[d] \notin gone => kept[d] \in rows
=============================================================================
