------------------------ MODULE DeliveryNotification ------------------------
(***************************************************************************)
(* The delivery notification function: the table's stream of order         *)
(* changes, batches of it handed to the function, and the customer's text  *)
(* messages.  The stream is delivered at least once: a batch is retried    *)
(* from the record the handler names, or from its start when the function  *)
(* dies, until its retries are used up.  One await is one step.            *)
(***************************************************************************)
EXTENDS TrackedOrders, Sequences

CONSTANTS Reachable,   \* orders whose customerPhone is a valid number
          MaxChanges,  \* bound: changes of orders
          MaxMessages, \* bound: messages the provider takes
          MaxBatch,    \* batchSize
          Retries      \* retryAttempts

VARIABLES stream,    \* the MODIFY records of order rows, oldest first
          position,  \* the first record no batch has settled
          batchEnd,  \* the last record of the batch at hand, or 0
          attempts,  \* failed attempts at this batch
          at,        \* the record the running handler is at, or 0
          stage,     \* where in the record it is
          link,      \* the link read for the message: a token or None
          secret,    \* the container's cached secret: unset, loaded, rejected
          sms,       \* what the provider accepted, in order
          log,       \* record -> the notification events stored for it
          dropped    \* records given up by the event source

functionVars == <<position, batchEnd, attempts, at, stage, link, secret, sms, log, dropped>>
vars == <<orderVars, stream, functionVars>>

FunctionInit ==
  /\ stream = <<>>
  /\ position = 1 /\ batchEnd = 0 /\ attempts = 0
  /\ at = 0 /\ stage = "idle" /\ link = None /\ secret = "unset"
  /\ sms = <<>> /\ log = [i \in 1..MaxChanges |-> {}] /\ dropped = {}

Init == OrdersInit /\ FunctionInit

-----------------------------------------------------------------------------
\* The statuses a customer is told about.
MessageStatuses == {"IN_PROGRESS", "ARRIVED", "DELIVERED", "DELIVERY_FAILED", "RESCHEDULED"}

\* A record that leads to a message.  Others (also route and driver rows, which
\* carry a status but no phone) are passed over.
Notifiable(record) ==
  /\ record.to \in MessageStatuses /\ record.to # record.from
  /\ record.order \in Reachable

\* Order moves leave a record when they change the row itself; the proof and
\* the events are items of their own.
Change ==
  /\ OrderStep
  /\ LET changed == {o \in Orders : /\ order[o] # None /\ order'[o] # order[o]
                                    /\ order'[o].status # order[o].status} IN
     /\ Len(stream) + (IF changed = {} THEN 0 ELSE 1) <= MaxChanges
     /\ stream' = IF changed = {} THEN stream
                  ELSE LET o == CHOOSE o \in changed : TRUE IN
                       Append(stream, [order |-> o, from |-> order[o].status,
                                       to |-> order'[o].status])
  /\ UNCHANGED functionVars

-----------------------------------------------------------------------------
(* The event source.                                                       *)

\* Fault: retries are not limited (the event source's default).
CountedNever == attempts

\* Every failed invocation counts against retryAttempts.
Counted == attempts + 1

\* A new batch, or the failed one again.
Invoke ==
  /\ at = 0 /\ position <= Len(stream)
  /\ \/ attempts = 0
        /\ \E e \in position..Len(stream) : e < position + MaxBatch /\ batchEnd' = e
     \/ attempts \in 1..Retries /\ UNCHANGED batchEnd
  /\ at' = position /\ stage' = "record"
  /\ UNCHANGED <<orderVars, stream, position, attempts, link, secret, sms, log, dropped>>

\* Retries used up: a piece of the batch, bisected down to the failing record
\* or not, is discarded.
GiveUp ==
  /\ at = 0 /\ attempts > Retries
  /\ \E d \in position..batchEnd :
       /\ dropped' = dropped \cup (position..d)
       /\ position' = d + 1
  /\ attempts' = 0 /\ batchEnd' = 0
  /\ UNCHANGED <<orderVars, stream, at, stage, link, secret, sms, log>>

\* The function times out or its container dies: nothing was reported, so the
\* batch starts over, in a new container.
Die ==
  /\ at # 0
  /\ at' = 0 /\ stage' = "idle" /\ link' = None /\ secret' = "unset"
  /\ attempts' = Counted
  /\ UNCHANGED <<orderVars, stream, position, batchEnd, sms, log, dropped>>

\* An idle container is reclaimed.
Recycle ==
  /\ at = 0 /\ secret # "unset" /\ secret' = "unset"
  /\ UNCHANGED <<orderVars, stream, position, batchEnd, attempts, at, stage, link, sms, log, dropped>>

-----------------------------------------------------------------------------
(* The handler, record by record.                                          *)

Record == stream[at]
NextRecord == at' = at + 1 /\ stage' = "record" /\ link' = None

\* Nothing to tell.
PassOver ==
  /\ stage = "record" /\ at <= batchEnd /\ ~Notifiable(Record)
  /\ NextRecord
  /\ UNCHANGED <<orderVars, stream, position, batchEnd, attempts, secret, sms, log, dropped>>

\* getForOrder: the order's token, when it is good.
ReadLink ==
  /\ stage = "record" /\ at <= batchEnd /\ Notifiable(Record)
  /\ IF Unexpired(Record.order)
     THEN TextLink(Record.order) /\ link' = current[Record.order].token
     ELSE UNCHANGED tokenVars /\ link' = None
  /\ stage' = "send"
  /\ UNCHANGED <<order, change, stream, position, batchEnd, attempts, at, secret, sms, log, dropped>>

\* The provider takes the message; its answer may still be lost.
Send ==
  /\ stage = "send" /\ secret # "rejected" /\ secret' = "loaded"
  /\ Len(sms) < MaxMessages
  /\ sms' = Append(sms, [record |-> at, link |-> link])
  /\ stage' \in {"sent", "failed"}
  /\ UNCHANGED <<orderVars, stream, position, batchEnd, attempts, at, link, log, dropped>>

\* The provider refuses, or the secret cannot be read.  A rejected read stays
\* cached (configurationPromise ??=): the container never sends again.
SendFails ==
  /\ stage = "send"
  /\ \/ secret = "unset" /\ secret' \in {"rejected", "loaded"}
     \/ secret # "unset" /\ UNCHANGED secret
  /\ stage' = "failed"
  /\ UNCHANGED <<orderVars, stream, position, batchEnd, attempts, at, link, sms, log, dropped>>

\* Where an event of this record is stored: a delivered order dates it by
\* deliveredAt, so a later one replaces it; others are dated by the attempt.
Logged(type) ==
  [log EXCEPT ![at] = IF Record.to = "DELIVERED" THEN {type} ELSE @ \cup {type}]

RecordSent ==
  /\ stage = "sent"
  /\ \/ log' = Logged("SMS_NOTIFICATION_SENT") /\ NextRecord
     \/ stage' = "failed" /\ UNCHANGED <<at, link, log>>
  /\ UNCHANGED <<orderVars, stream, position, batchEnd, attempts, secret, sms, dropped>>

\* Fault: a failed record is logged and the batch reported as done.
ReportsNothing ==
  /\ position' = batchEnd + 1 /\ attempts' = 0 /\ batchEnd' = 0
  /\ at' = 0 /\ stage' = "idle" /\ link' = None

\* The handler returns the failed record's sequence number: the batch is
\* retried from it.
ReportsFailure ==
  /\ position' = at /\ attempts' = Counted /\ UNCHANGED batchEnd
  /\ at' = 0 /\ stage' = "idle" /\ link' = None

\* Anything that throws: a failure event is tried, and the handler returns.
Fail ==
  /\ stage = "failed"
  /\ log' \in {log, Logged("SMS_NOTIFICATION_FAILED")}
  /\ ReportsFailure
  /\ UNCHANGED <<orderVars, stream, secret, sms, dropped>>

Done ==
  /\ at > batchEnd /\ stage = "record"
  /\ position' = batchEnd + 1 /\ batchEnd' = 0 /\ attempts' = 0
  /\ at' = 0 /\ stage' = "idle"
  /\ UNCHANGED <<orderVars, stream, link, secret, sms, log, dropped>>

Handler == PassOver \/ ReadLink \/ Send \/ SendFails \/ RecordSent \/ Fail \/ Done

Next == Change \/ Invoke \/ GiveUp \/ Die \/ Recycle \/ Handler

\* The event source keeps invoking, and a running handler goes on or dies.
Fairness == WF_vars(Invoke) /\ WF_vars(GiveUp) /\ WF_vars(Handler \/ Die)

Spec == Init /\ [][Next]_vars /\ Fairness

-----------------------------------------------------------------------------
Accepted(i) == \E n \in DOMAIN sms : sms[n].record = i

\* A change a customer should hear of is told or given up by the event source
\* after its retries; a handler that fails never lets a record slip by.
NothingSilentlyLost ==
  \A i \in 1..(position - 1) :
    Notifiable(stream[i]) => Accepted(i) \/ i \in dropped

\* No change holds up the stream for ever, whatever the provider does.
StreamDrains == <>[](position > Len(stream))
=============================================================================
