------------------------------ MODULE Session ------------------------------
(***************************************************************************)
(* Accounts on one tab of one device: signing in by way of Cognito, the    *)
(* pages a role opens, signing out, and the device's outbox, which belongs *)
(* to nobody.  What a driver taps is sent, or queued when no answer comes  *)
(* and sent by a flush under whatever token the tab has by then; the API   *)
(* admits a request by that token and the order's driver.  How an order    *)
(* takes a status, and how often, is Fleet's and OfflineSync's matter.     *)
(***************************************************************************)
EXTENDS Naturals, SequencesExt

CONSTANTS
  Drivers,      \* accounts of the DRIVER group, by username
  Admins,       \* accounts of the ADMIN group
  Orders,
  MaxTaps,      \* bound: what drivers tap
  MaxSessions,  \* bound: how often somebody signs in
  MaxFaults,    \* bound: answers that do not come, tokens that expire, pages reloaded
  None

VARIABLES
  tab,       \* the page shown, its user, its flush, how far a logout is
  token,     \* sessionStorage: whose access token, and has it not expired?
  outbox,    \* IndexedDB: mutations by createdAt
  requests,  \* PATCH /orders/:id/status under way
  holder,    \* order -> its driver
  past       \* history: taps, sessions, faults, who held what, what logouts forgot

device == <<tab, token, outbox>>
vars == <<tab, token, outbox, requests, holder, past>>

Accounts == Drivers \cup Admins

\* The groups a page behind ProtectedRoute is for.
Allowed(at) == CASE at = "driver" -> Drivers
                 [] at = "admin" -> Admins
                 [] OTHER -> Accounts \cup {None}

Fresh(at) == [at |-> at, code |-> None, user |-> None, loading |-> TRUE, queue |-> <<>>,
              leaving |-> "no"]

Init ==
  /\ tab = Fresh("home") /\ token = None
  /\ outbox = <<>> /\ requests = {}
  /\ holder \in [Orders -> Drivers]
  /\ past = [taps |-> 0, sessions |-> 0, faults |-> 0, forgotten |-> {},
             held |-> {<<o, holder[o]>> : o \in Orders}]

\* A page that is left takes its flush with it; its requests are at the server.
Unload(at) ==
  /\ tab' = Fresh(at)
  /\ requests' = {[r EXCEPT !.from = "gone"] : r \in requests}

Fault == past.faults < MaxFaults /\ past' = [past EXCEPT !.faults = @ + 1]

-----------------------------------------------------------------------------
(* Pages.                                                                  *)

\* An address typed, or the page reloaded.
Visit ==
  /\ tab.at # "away" /\ Fault
  /\ \E at \in {"home", "login", "driver"} : Unload(at)
  /\ UNCHANGED <<token, outbox, holder>>

\* A link, or what the login page does once there is a user.
Open ==
  /\ tab.at \notin {"away", "callback"}
  /\ \E at \in {"driver", "admin"} \ {tab.at} : tab' = [tab EXCEPT !.at = at]
  /\ UNCHANGED <<token, outbox, requests, holder, past>>

\* The provider asks for the stored user when it is mounted.
RestoreUser ==
  /\ tab.at # "away" /\ tab.loading
  /\ tab' = [tab EXCEPT !.loading = FALSE,
                        !.user = IF token # None /\ token.fresh THEN token.who ELSE @]
  /\ UNCHANGED <<token, outbox, requests, holder, past>>

\* A protected page is not for nobody; for the wrong group it is a 403.
ToLogin ==
  /\ tab.at \in {"driver", "admin"} /\ ~tab.loading /\ tab.user = None
  /\ tab' = [tab EXCEPT !.at = "login"]
  /\ UNCHANGED <<token, outbox, requests, holder, past>>

Renders(at) == tab.at = at /\ ~tab.loading /\ tab.user \in Allowed(at)

Login ==
  /\ tab.at = "login" /\ tab.user = None /\ past.sessions < MaxSessions
  /\ Unload("away")
  /\ UNCHANGED <<token, outbox, holder, past>>

\* Cognito sends the browser back with a code, or with an error.
Return ==
  /\ tab.at = "away"
  /\ \E a \in Accounts \cup {None} : tab' = [Fresh("callback") EXCEPT !.code = a]
  /\ UNCHANGED <<token, outbox, requests, holder, past>>

\* signinRedirectCallback stores the token and the callback page opens the role's page.
CompleteLogin ==
  /\ tab.at = "callback" /\ tab.code # None
  /\ token' = [who |-> tab.code, fresh |-> TRUE]
  /\ tab' = [tab EXCEPT !.at = IF tab.code \in Admins THEN "admin" ELSE "driver",
                        !.user = tab.code, !.code = None]
  /\ past' = [past EXCEPT !.sessions = @ + 1]
  /\ UNCHANGED <<outbox, requests, holder>>

\* The token is not renewed; the page goes on showing its user.
Expire ==
  /\ token # None /\ token.fresh
  /\ token' = [token EXCEPT !.fresh = FALSE]
  /\ Fault
  /\ UNCHANGED <<tab, outbox, requests, holder>>

\* Fault: logging out leaves the queue.
Kept == outbox

Cleared == <<>>

\* Logout clears the device's stores, forgets the token and leaves the application.
ClearOfflineData ==
  /\ Renders("driver") \/ Renders("admin")
  /\ tab.leaving = "no"
  /\ outbox' = Cleared
  /\ tab' = [tab EXCEPT !.leaving = "cleared"]
  /\ past' = [past EXCEPT !.forgotten = @ \cup {<<m.id, past.sessions>> : m \in ToSet(outbox)}]
  /\ UNCHANGED <<token, requests, holder>>

RemoveUser ==
  /\ tab.leaving = "cleared"
  /\ token' = None
  /\ tab' = [tab EXCEPT !.leaving = "removed", !.user = None]
  /\ UNCHANGED <<outbox, requests, holder, past>>

Leave ==
  /\ tab.leaving = "removed"
  /\ Unload("home")
  /\ UNCHANGED <<token, outbox, holder, past>>

-----------------------------------------------------------------------------
(* Taps and the flush.                                                     *)

\* getAccessToken: none once it has expired.
Bearer == IF token # None /\ token.fresh THEN token.who ELSE None

\* At most one request of the driver's buttons and one of the flush.
Waiting(from) == {r \in requests : r.from = from}

Request(m, from) ==
  requests' = requests \cup {[m |-> m, as |-> Bearer, session |-> past.sessions,
                              from |-> from, stage |-> "sent"]}

\* A driver acts on an order of his list, which may be old.
Tap ==
  /\ Renders("driver") /\ Waiting("tap") = {} /\ past.taps < MaxTaps
  /\ \E o \in Orders :
       /\ <<o, tab.user>> \in past.held
       /\ Request([id |-> past.taps + 1, by |-> tab.user, order |-> o], "tap")
  /\ past' = [past EXCEPT !.taps = @ + 1]
  /\ UNCHANGED <<device, holder>>

TapAnswered(r) ==
  /\ r.from = "tap" /\ r.stage = "answered"
  /\ requests' = requests \ {r}
  /\ UNCHANGED <<device, holder, past>>

\* No answer: it is queued, and the request may still be at the server.
TapUnanswered(r) ==
  /\ r.from = "tap"
  /\ outbox' = Append(outbox, r.m)
  /\ requests' = (requests \ {r}) \cup {[r EXCEPT !.from = "gone"]}
  /\ Fault
  /\ UNCHANGED <<tab, token, holder>>

\* When the page has loaded, whoever is signed in by then, or the browser is online again.
Flush ==
  /\ tab.at # "away" /\ tab.queue = <<>> /\ outbox # <<>>
  /\ tab' = [tab EXCEPT !.queue = outbox]
  /\ UNCHANGED <<token, outbox, requests, holder, past>>

Replay ==
  /\ tab.queue # <<>> /\ Waiting("flush") = {}
  /\ Request(Head(tab.queue), "flush")
  /\ UNCHANGED <<device, holder, past>>

\* By its id: it may not be there any more.
RemoveQueuedMutation(id) ==
  IF \E m \in ToSet(outbox) : m.id = id
  THEN \E i \in DOMAIN outbox : outbox[i].id = id /\ outbox' = RemoveAt(outbox, i)
  ELSE UNCHANGED outbox

\* Done or discarded, a refusal for want of a token with the others.
FlushAnswered(r) ==
  /\ r.from = "flush" /\ r.stage = "answered"
  /\ RemoveQueuedMutation(r.m.id)
  /\ tab' = [tab EXCEPT !.queue = Tail(@)]
  /\ requests' = requests \ {r}
  /\ UNCHANGED <<token, holder, past>>

FlushUnanswered(r) ==
  /\ r.from = "flush"
  /\ tab' = [tab EXCEPT !.queue = <<>>]
  /\ requests' = (requests \ {r}) \cup {[r EXCEPT !.from = "gone"]}
  /\ Fault
  /\ UNCHANGED <<token, outbox, holder>>

-----------------------------------------------------------------------------
(* The API.                                                                *)

\* authenticate, requireRole and requireOrderOwnerOrAdmin.
Admits(r) == r.as \in Admins \/ r.as = holder[r.m.order]

Authorize(r) ==
  /\ r.stage = "sent"
  /\ requests' = (requests \ {r}) \cup
                 {[r EXCEPT !.stage = IF Admits(r) THEN "admitted" ELSE "answered"]}
  /\ UNCHANGED <<device, holder, past>>

\* The handler, some time after the order was read for the guard.
Handle(r) ==
  /\ r.stage = "admitted"
  /\ requests' = (requests \ {r}) \cup {[r EXCEPT !.stage = "answered"]}
  /\ UNCHANGED <<device, holder, past>>

\* An answer to a page that is gone.
Unheard(r) ==
  /\ r.from = "gone" /\ r.stage = "answered"
  /\ requests' = requests \ {r}
  /\ UNCHANGED <<device, holder, past>>

\* A dispatcher gives the order to another driver.
Reassign ==
  /\ \E o \in Orders, d \in Drivers :
       /\ holder[o] # d
       /\ holder' = [holder EXCEPT ![o] = d]
       /\ past' = [past EXCEPT !.held = @ \cup {<<o, d>>}]
  /\ UNCHANGED <<device, requests>>

-----------------------------------------------------------------------------
Next ==
  \/ Visit \/ Open \/ RestoreUser \/ ToLogin \/ Login \/ Return \/ CompleteLogin
  \/ Expire \/ ClearOfflineData \/ RemoveUser \/ Leave
  \/ Tap \/ Flush \/ Replay \/ Reassign
  \/ \E r \in requests : \/ TapAnswered(r) \/ TapUnanswered(r)
                         \/ FlushAnswered(r) \/ FlushUnanswered(r)
                         \/ Authorize(r) \/ Handle(r) \/ Unheard(r)

Spec == Init /\ [][Next]_vars

-----------------------------------------------------------------------------
\* What the queue held when somebody logged out is not sent in a later session.
EndsWithItsSession(r) ==
  \A f \in past.forgotten : r.m.id = f[1] => r.session <= f[2]

\* What a driver left on the device is taken from another driver only for an order that
\* was given to that driver as well.
FromItsDriver(r) == r.as \in Admins \/ <<r.m.order, r.as>> \in past.held

\* Neither a logout, an expired token nor the next account on the device lets a queued
\* status into the API for an order in the wrong hands, or after it was cleared.
AdmittedInItsPlace ==
  \A r \in requests : r.stage = "admitted" => EndsWithItsSession(r) /\ FromItsDriver(r)
=============================================================================
