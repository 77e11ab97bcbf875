---------------------------- MODULE LiveLocation ----------------------------
(***************************************************************************)
(* A driver's position on its way to a dispatcher's screen.  The device    *)
(* sends a fix (useDriverLocationTracking), the API stores it and then     *)
(* posts it to the listed WebSocket connections (DriverService,            *)
(* RealtimeBroadcaster); a page holds a socket opened with a one-time      *)
(* ticket (useDriverLocationStream, the connections Lambda) and polls the  *)
(* driver's row beside it (FleetDetailPage).  Fixes are numbered in the    *)
(* order the device took them; requests, posts and polled answers overlap  *)
(* and land in any order.                                                  *)
(***************************************************************************)
EXTENDS Naturals, FiniteSets

CONSTANTS Pages,        \* open driver pages of dispatchers
          Connections,  \* connection identifiers; one that is over stands for a new one
          MaxFixes,     \* bound: the device sends so many fixes
          MaxLoads,     \* bound: polls a page has in flight
          None

ASSUME BoundAssumption == MaxFixes \in Nat /\ MaxLoads \in Nat
ASSUME NoneAssumption == None \notin Connections /\ None \notin Nat

VARIABLES
  fix,       \* fix -> how far it got on the device
  api,       \* the fixes the API works on; equal calls count once
  row,       \* the driver's stored position, 0 before the first
  history,   \* the fixes in the location history
  listed,    \* the WS_CONNECTIONS items
  gate,      \* connection -> its handshake and socket
  stream,    \* page -> the state of its stream hook
  shown,     \* page -> the position it shows, or None
  load       \* page -> answers to its polls on their way; equal ones count once

fixVars == <<fix, api, row, history>>
streamVars == <<listed, gate, stream>>
pageVars == <<shown, load>>
vars == <<fixVars, streamVars, pageVars>>

Fixes == 1 .. MaxFixes
FixStages == {"new", "sent", "queued", "refused", "done"}
Calls == Fixes \X {"asked", "stored"}
Handshake == [handler : {"connect", "answer", "done"}, socket : {"opening", "open", "closed"}]
Stream == [phase : {"off", "asking", "opening", "connected", "waiting"},
           conn : Connections \cup {None}]

Over == [handler |-> "done", socket |-> "closed"]
Off == [phase |-> "off", conn |-> None]

Init ==
  /\ fix = [f \in Fixes |-> "new"] /\ api = {} /\ row = 0 /\ history = {}
  /\ listed = {}
  /\ gate = [c \in Connections |-> Over]
  /\ stream = [p \in Pages |-> Off]
  /\ shown = [p \in Pages |-> None]
  /\ load = [p \in Pages |-> {}]

-----------------------------------------------------------------------------
(* The device.  Ten seconds between two fixes do not order their answers,  *)
(* and `retry` lifts them.                                                 *)

SendFix(f) ==
  /\ fix[f] = "new" /\ \A g \in 1 .. f - 1 : fix[g] # "new"
  /\ fix' = [fix EXCEPT ![f] = "sent"]
  /\ api' = api \cup {<<f, "asked">>}
  /\ UNCHANGED <<row, history, streamVars, pageVars>>

\* A fix that met no network joins the offline queue; the screen calls it updated.
Unanswered == "queued"

\* The device has no answer: the request is lost, or it is not and the API goes on with it.
NetworkFails(f) ==
  /\ fix[f] = "sent"
  /\ fix' = [fix EXCEPT ![f] = Unanswered]
  /\ api' \in {api, api \ {<<f, "asked">>}}
  /\ UNCHANGED <<row, history, streamVars, pageVars>>

\* The queue is flushed from its oldest entry, under a new idempotency key, be the fix
\* stored by the request before or not.
Replay(f) ==
  /\ fix[f] = "queued" /\ \A g \in 1 .. f - 1 : fix[g] # "queued"
  /\ fix' = [fix EXCEPT ![f] = "sent"]
  /\ api' = api \cup {<<f, "asked">>}
  /\ UNCHANGED <<row, history, streamVars, pageVars>>

-----------------------------------------------------------------------------
(* The API: store, then tell the listed connections, then answer, whether  *)
(* or not the device still waits.                                          *)

Hears(f, answer) == fix' = [fix EXCEPT ![f] = IF @ = "sent" THEN answer ELSE @]

\* One transaction: the driver's row is overwritten, whatever fix it holds.
Store(f) ==
  /\ <<f, "asked">> \in api
  /\ api' = (api \ {<<f, "asked">>}) \cup {<<f, "stored">>}
  /\ row' = f
  /\ history' = history \cup {f}
  /\ UNCHANGED <<fix, streamVars, pageVars>>

\* The store refuses or fails: the device shows an error and drops the fix.
Refuse(f) ==
  /\ <<f, "asked">> \in api
  /\ api' = api \ {<<f, "asked">>}
  /\ Hears(f, "refused")
  /\ UNCHANGED <<row, history, streamVars, pageVars>>

\* Fault: the connections are told before the position is stored.
PublishesEarly(f) == <<f, "asked">> \in api \/ <<f, "stored">> \in api

Publishes(f) == <<f, "stored">> \in api

\* The listed connections are read and posted to.  A post reaches the page behind
\* an open socket, which shows it however old its fix; a connection that is gone,
\* or whose handshake is not answered yet, loses its item; any other failure, of
\* the query too, is swallowed.
Publish(f) ==
  /\ Publishes(f)
  /\ api' = api \ {<<f, "stored">>}
  /\ IF <<f, "stored">> \in api THEN Hears(f, "done") ELSE UNCHANGED fix
  /\ \E reached \in SUBSET listed :
       /\ listed' = listed \ {c \in reached : gate[c].socket # "open"}
       /\ shown' = [p \in Pages |->
            IF /\ shown[p] # None /\ stream[p].conn \in reached
               /\ gate[stream[p].conn].socket = "open"
            THEN f ELSE shown[p]]
  /\ UNCHANGED <<row, history, gate, stream, load>>

-----------------------------------------------------------------------------
(* The stream hook of a page, and the Lambda that admits its connection.   *)

Mount(p) ==
  /\ stream[p].phase = "off"
  /\ stream' = [stream EXCEPT ![p].phase = "asking"]
  /\ UNCHANGED <<fixVars, listed, gate, pageVars>>

\* POST /realtime/ticket stores a ticket; its answer opens a socket with it.
OpenSocket(p) ==
  /\ stream[p].phase = "asking"
  /\ \E c \in Connections :
       /\ gate[c] = Over /\ c \notin listed
       /\ \A q \in Pages : stream[q].conn # c
       /\ gate' = [gate EXCEPT ![c] = [handler |-> "connect", socket |-> "opening"]]
       /\ stream' = [stream EXCEPT ![p] = [phase |-> "opening", conn |-> c]]
  /\ UNCHANGED <<fixVars, listed, pageVars>>

AfterFailedTicket == "waiting"

TicketFails(p) ==
  /\ stream[p].phase = "asking"
  /\ stream' = [stream EXCEPT ![p].phase = AfterFailedTicket]
  /\ UNCHANGED <<fixVars, listed, gate, pageVars>>

\* $connect deletes the ticket's item, finds it good and lists the connection.
Connect(c) ==
  /\ gate[c].handler = "connect"
  /\ gate' = [gate EXCEPT ![c].handler = "answer"]
  /\ listed' = listed \cup {c}
  /\ UNCHANGED <<fixVars, stream, pageVars>>

\* The handshake is answered, if its caller still waits.
Admit(c) ==
  /\ gate[c].handler = "answer"
  /\ gate' = [gate EXCEPT ![c].handler = "done",
                          ![c].socket = IF @ = "opening" THEN "open" ELSE @]
  /\ UNCHANGED <<fixVars, listed, stream, pageVars>>

\* The ticket is gone or older than a minute, or a call of the handler fails or
\* times out, before or after the connection was listed: the socket is refused.
Turn(c) ==
  /\ gate[c].handler # "done"
  /\ gate' = [gate EXCEPT ![c] = Over]
  /\ UNCHANGED <<fixVars, listed, stream, pageVars>>

OnOpen(p) ==
  /\ stream[p].phase = "opening" /\ gate[stream[p].conn].socket = "open"
  /\ stream' = [stream EXCEPT ![p].phase = "connected"]
  /\ UNCHANGED <<fixVars, listed, gate, pageVars>>

\* The network or the gateway (idle, two hours) cuts a connection; $disconnect
\* is sent for an open one, and may fail.
Cut(c) ==
  /\ gate[c].socket # "closed"
  /\ gate' = [gate EXCEPT ![c].socket = "closed"]
  /\ listed' \in {listed} \cup (IF gate[c].socket = "open" THEN {listed \ {c}} ELSE {})
  /\ UNCHANGED <<fixVars, stream, pageVars>>

OnClose(p) ==
  /\ stream[p].conn # None /\ gate[stream[p].conn].socket = "closed"
  /\ stream' = [stream EXCEPT ![p] = [phase |-> "waiting", conn |-> None]]
  /\ UNCHANGED <<fixVars, listed, gate, pageVars>>

\* The timer of five or ten seconds.
Retry(p) ==
  /\ stream[p].phase = "waiting"
  /\ stream' = [stream EXCEPT ![p].phase = "asking"]
  /\ UNCHANGED <<fixVars, listed, gate, pageVars>>

\* Leaving the page clears the timer and closes the socket; what was shown goes.
Unmount(p) ==
  /\ stream[p].phase # "off"
  /\ stream' = [stream EXCEPT ![p] = Off]
  /\ gate' = IF stream[p].conn = None THEN gate
             ELSE [gate EXCEPT ![stream[p].conn].socket = "closed"]
  /\ shown' = [shown EXCEPT ![p] = None]
  /\ load' = [load EXCEPT ![p] = {}]
  /\ UNCHANGED <<fixVars, listed>>

\* An item expires two hours after admission, which no connection outlives.
ExpireListing(c) ==
  /\ c \in listed /\ gate[c] = Over
  /\ listed' = listed \ {c}
  /\ UNCHANGED <<fixVars, gate, stream, pageVars>>

-----------------------------------------------------------------------------
(* The page's polls.                                                       *)

Polls(p) == stream[p].phase # "off"

Poll(p) ==
  /\ Polls(p) /\ Cardinality(load[p]) < MaxLoads
  /\ load' = [load EXCEPT ![p] = @ \cup {row}]
  /\ UNCHANGED <<fixVars, streamVars, shown>>

\* An answer replaces the driver shown, even after a newer message.
Show(p) ==
  /\ \E r \in load[p] :
       /\ shown' = [shown EXCEPT ![p] = r]
       /\ load' = [load EXCEPT ![p] = @ \ {r}]
  /\ UNCHANGED <<fixVars, streamVars>>

LoadFails(p) ==
  /\ \E r \in load[p] : load' = [load EXCEPT ![p] = @ \ {r}]
  /\ UNCHANGED <<fixVars, streamVars, shown>>

-----------------------------------------------------------------------------
Next ==
  \/ \E f \in Fixes : \/ SendFix(f) \/ NetworkFails(f) \/ Replay(f)
                      \/ Store(f) \/ Refuse(f) \/ Publish(f)
  \/ \E p \in Pages : \/ Mount(p) \/ OpenSocket(p) \/ TicketFails(p) \/ OnOpen(p)
                      \/ OnClose(p) \/ Retry(p) \/ Unmount(p)
                      \/ Poll(p) \/ Show(p) \/ LoadFails(p)
  \/ \E c \in Connections : \/ Connect(c) \/ Admit(c) \/ Turn(c)
                            \/ Cut(c) \/ ExpireListing(c)

\* The timer of the polls fires, and not every answer is lost.
PollFairness == \A p \in Pages : WF_vars(Poll(p)) /\ SF_vars(Show(p))

Spec == Init /\ [][Next]_vars /\ PollFairness

-----------------------------------------------------------------------------
TypeOK ==
  /\ fix \in [Fixes -> FixStages] /\ api \subseteq Calls
  /\ row \in Fixes \cup {0} /\ history \subseteq Fixes
  /\ listed \subseteq Connections
  /\ gate \in [Connections -> Handshake]
  /\ stream \in [Pages -> Stream]
  /\ shown \in [Pages -> Fixes \cup {0, None}]
  /\ load \in [Pages -> SUBSET (Fixes \cup {0})]

\* A dispatcher never sees a position that was not stored: persistence is the
\* source of truth, and a post may outlive the request that failed.
ShownIsStored ==
  \A p \in Pages : shown[p] \notin {None, 0} => shown[p] \in history

\* A page that stays open comes back to the stored position, whatever posts and
\* polled answers overtook each other.
PageSettlesOnRow ==
  \A p \in Pages : []<>(stream[p].phase = "off" \/ shown[p] = row)
=============================================================================
