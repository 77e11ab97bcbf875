------------------------------ MODULE OrderDesk ------------------------------
(***************************************************************************)
(* The order desk: OrdersPage with its list, its selection and its three   *)
(* dialogs, and the requests they send: a form, a file whose rows the      *)
(* server takes one by one, or the orders of a route.                      *)
(*                                                                         *)
(* A dialog can be closed, or time out, while its request goes on: what    *)
(* the server still does then, and what the page still does with a late    *)
(* answer, are part of the model.                                          *)
(***************************************************************************)
EXTENDS Naturals, Sequences, FiniteSets, SequencesExt

CONSTANTS
  Ids,       \* order identifiers
  MaxRows,   \* bound: rows of an imported file
  MaxLoads,  \* bound: loads of the list in flight
  MaxSends,  \* bound: requests sent
  None

VARIABLES
  table,     \* identifier -> status of the order, or None
  list,      \* identifier -> the statuses in which the order is on screen, one per line
  loads,     \* GET /orders in flight: the table as it was when each was asked
  sends,     \* the other requests
  dialog,    \* the dialog that is open, and the request it waits for
  selected   \* orders ticked

vars == <<table, list, loads, sends, dialog, selected>>

\* Statuses of an order that waits for a driver.  Of the others ASSIGNED stands for all.
Free == {"PENDING", "RESCHEDULED"}

Closed == [kind |-> None, send |-> 0]
Empty == [o \in Ids |-> <<>>]

Init ==
  /\ table = [o \in Ids |-> None]
  /\ list = Empty /\ loads = {table}
  /\ sends = <<>> /\ dialog = Closed /\ selected = {}

-----------------------------------------------------------------------------
(* The list.                                                               *)

\* Beyond the bound a load fails at once.
WithLoad == IF Cardinality(loads) < MaxLoads THEN loads \cup {table} ELSE loads

\* Every 15 seconds, whether or not an earlier load has been answered, and on a retry.
Poll ==
  /\ Cardinality(loads) < MaxLoads
  /\ loads' = WithLoad
  /\ UNCHANGED <<table, list, sends, dialog, selected>>

\* What a load finds of `was` as it was and of `is` as it is.
Found(load, was, is) ==
  [o \in Ids |-> SetToSeq(((IF o \in was THEN {load[o]} ELSE {})
                            \cup (IF o \in is THEN {table[o]} ELSE {})) \ {None})]

\* Fault: a load only adds the orders the list does not have.
Adds(rows) == [o \in Ids |-> IF list[o] = <<>> THEN rows[o] ELSE list[o]]

Replaces(rows) == rows

\* The index is asked for each status by a query of its own and follows the table when it
\* comes to it: an order that has changed since is found as it was, as it is, both or not
\* at all.
Land ==
  /\ \E load \in loads, was, is \in SUBSET Ids :
       /\ \A o \in Ids : load[o] = table[o] => o \in was
       /\ loads' = loads \ {load}
       /\ list' = Replaces(Found(load, was, is))
  /\ UNCHANGED <<table, sends, dialog, selected>>

\* The error is shown beside the list there was.
LoadFails ==
  /\ \E load \in loads : loads' = loads \ {load}
  /\ UNCHANGED <<table, list, sends, dialog, selected>>

-----------------------------------------------------------------------------
(* The dispatcher.                                                         *)

\* The box of an order shown as taken is off, ticked or not.
Toggle(o) ==
  /\ dialog = Closed
  /\ ToSet(list[o]) \cap Free # {}
  /\ selected' = IF o \in selected THEN selected \ {o} ELSE selected \cup {o}
  /\ UNCHANGED <<table, list, loads, sends, dialog>>

OpenDialog(kind) ==
  /\ dialog = Closed
  /\ kind = "route" => selected # {}
  /\ dialog' = [Closed EXCEPT !.kind = kind]
  /\ UNCHANGED <<table, list, loads, sends, selected>>

CloseDialog ==
  /\ dialog # Closed
  /\ dialog' = Closed
  /\ UNCHANGED <<table, list, loads, sends, selected>>

\* left: rows to take, or 1 for a route; orders: those of the route, or the order created;
\* done: the answer is a success; heard: the page still goes by it.
Request(kind, left, orders) ==
  [kind |-> kind, left |-> left, orders |-> orders, done |-> FALSE, heard |-> TRUE]

\* Neither the server nor the page has anything left to do.
Over == [Request(None, 0, {}) EXCEPT !.heard = FALSE]

\* The button of a dialog that waits is off; nothing keeps a form or a file from being
\* sent again after an error, or after the dialog was closed.
Submit ==
  /\ dialog.kind # None /\ dialog.send = 0
  /\ Len(sends) < MaxSends
  /\ \E left \in IF dialog.kind = "import" THEN 1 .. MaxRows ELSE {1} :
       sends' = Append(sends, Request(dialog.kind, left,
                                      IF dialog.kind = "route" THEN selected ELSE {}))
  /\ dialog' = [dialog EXCEPT !.send = Len(sends) + 1]
  /\ UNCHANGED <<table, list, loads, selected>>

-----------------------------------------------------------------------------
(* The server, whether or not anybody waits.                               *)

\* The request after the server took `left` of it.
Taken(i, left, done, orders) ==
  sends' = [sends EXCEPT ![i] =
    IF ~@.heard /\ left = 0 THEN Over
    ELSE [@ EXCEPT !.left = left, !.done = done, !.orders = orders]]

\* The next identifier is a new one.
Fresh == LET free == {o \in Ids : table[o] = None}
         IN IF free = {} THEN {} ELSE {CHOOSE o \in free : TRUE}

\* The next row is created, refused, or created and reported as failed, the table having
\* answered too late.  The answer to an import only counts the rows.
TakeRow(i) ==
  /\ sends[i].kind # "route" /\ sends[i].left > 0
  /\ \E new \in SUBSET Fresh, reported \in BOOLEAN :
       /\ new = {} => ~reported
       /\ table' = [o \in Ids |-> IF o \in new THEN "PENDING" ELSE table[o]]
       /\ IF sends[i].kind = "import" THEN Taken(i, sends[i].left - 1, TRUE, {})
          ELSE Taken(i, 0, reported, IF reported THEN new ELSE {})
  /\ UNCHANGED <<list, loads, dialog, selected>>

CreateRoute(i) ==
  /\ sends[i].kind = "route" /\ sends[i].left > 0
  /\ \A o \in sends[i].orders : table[o] \in Free
  /\ table' = [o \in Ids |-> IF o \in sends[i].orders THEN "ASSIGNED" ELSE table[o]]
  /\ Taken(i, 0, TRUE, {})
  /\ UNCHANGED <<list, loads, dialog, selected>>

\* Another dispatcher gives the order to a driver, or it is to be delivered another day.
Elsewhere(o) ==
  /\ table[o] # None
  /\ table' = [table EXCEPT ![o] = IF @ \in Free THEN "ASSIGNED" ELSE "RESCHEDULED"]
  /\ UNCHANGED <<list, loads, sends, dialog, selected>>

-----------------------------------------------------------------------------
(* The answers.                                                            *)

Succeeded(i, kind) == sends[i].kind = kind /\ sends[i].heard /\ sends[i].done /\ sends[i].left = 0

\* The request is forgotten and the dialog of its kind closed, be it another one by now.
Answered(i) ==
  /\ sends' = [sends EXCEPT ![i] = Over]
  /\ dialog' = IF dialog.kind = sends[i].kind THEN Closed ELSE dialog

\* The order is put on top of the list, be it there already or not.
OrderCreated(i) ==
  /\ Succeeded(i, "create") /\ Answered(i)
  /\ list' = [o \in Ids |-> IF o \in sends[i].orders THEN <<"PENDING">> \o list[o] ELSE list[o]]
  /\ UNCHANGED <<table, loads, selected>>

OrdersImported(i) ==
  /\ Succeeded(i, "import") /\ Answered(i)
  /\ loads' = WithLoad
  /\ UNCHANGED <<table, list, selected>>

\* The page is left for the route's.  Who comes back finds it anew, and no answer to what
\* it had sent changes it but that to a route, which leads away once more.
RouteCreated(i) ==
  /\ Succeeded(i, "route")
  /\ sends' = [j \in DOMAIN sends |->
       IF j = i \/ (sends[j].kind # "route" /\ sends[j].left = 0) THEN Over
       ELSE [sends[j] EXCEPT !.heard = @ /\ sends[j].kind = "route"]]
  /\ list' = Empty /\ loads' = {table} /\ dialog' = Closed /\ selected' = {}
  /\ UNCHANGED table

\* Refused, lost or given up after ten seconds, while the server may go on with it.  The
\* dialog stays as it is, if it is still open, and so does the selection.
RequestFails(i) ==
  /\ sends[i].heard
  /\ sends' = [sends EXCEPT ![i] = IF @.left = 0 THEN Over ELSE [@ EXCEPT !.heard = FALSE]]
  /\ dialog' = IF dialog.send = i THEN [dialog EXCEPT !.send = 0] ELSE dialog
  /\ UNCHANGED <<table, list, loads, selected>>

-----------------------------------------------------------------------------
Kinds == {"create", "import", "route"}

Next ==
  \/ Poll \/ Land \/ LoadFails \/ Submit \/ CloseDialog
  \/ \E o \in Ids : Toggle(o) \/ Elsewhere(o)
  \/ \E kind \in Kinds : OpenDialog(kind)
  \/ \E i \in DOMAIN sends : \/ TakeRow(i) \/ CreateRoute(i) \/ RequestFails(i)
                             \/ OrderCreated(i) \/ OrdersImported(i) \/ RouteCreated(i)

\* The interval fires, and not every load fails.
Fairness == SF_vars(Poll) /\ SF_vars(Land)

Spec == Init /\ [][Next]_vars /\ Fairness
-----------------------------------------------------------------------------
\* When the orders change no more, the list comes to show each of them once and as it is
\* stored, and stays so, whatever loads, late answers, closed dialogs and an order put on
\* top of a list that had it already made of it before.
ListSettles ==
  <>[][FALSE]_table
    => <>[](list = [o \in Ids |-> IF table[o] = None THEN <<>> ELSE <<table[o]>>])
=============================================================================
