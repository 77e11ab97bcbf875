---------------------------- MODULE OfflineSync ----------------------------
(***************************************************************************)
(* The driver application and one order.  A status the driver taps is sent *)
(* at once; if no answer comes it is queued in IndexedDB under a new       *)
(* Idempotency-Key, and flush passes replay the queue when the page loads  *)
(* or the browser goes online.  The server is Idempotency, with the        *)
(* order's lifecycle for a handler.  Any answer can be lost or late, and   *)
(* the dispatcher moves the order too.                                     *)
(***************************************************************************)
EXTENDS OrderLifecycle, Integers, SequencesExt

CONSTANTS
  Taps,            (* what the driver asks for: each tap is one status      *)
  Flushes,         (* flush passes that may overlap                         *)
  WorkflowSteps,   (* the statuses the driver's workflow offers             *)
  MaxRuns,         (* bound: see Idempotency                                *)
  MaxFaults        (* bound: what goes wrong in one behaviour               *)

ASSUME FlushesAssumption == "first" \notin Flushes   (* names of calls differ *)
ASSUME WorkflowStepsAssumption == WorkflowSteps \subseteq UpdatableStatuses
ASSUME MaxFaultsAssumption == MaxRuns \in Nat /\ MaxFaults \in Nat

VARIABLES
  records, calls, runs, late,  (* the server's, see Idempotency            *)
  order,     (* the order's status in the table                            *)
  shown,     (* the status the application shows                           *)
  taps,      (* what became of each tap                                    *)
  outbox,    (* the queued taps by createdAt                               *)
  flushes,   (* the passes under way                                       *)
  applied,   (* history: the keys whose operation took effect              *)
  refused,   (* history: the keys whose operation the handler refused      *)
  faults     (* how much has gone wrong so far                             *)

server == <<records, calls, runs, late>>
client == <<shown, taps, outbox, flushes>>
vars == <<records, calls, runs, late, order, shown, taps, outbox, flushes, applied,
          refused, faults>>

\* A tap is sent under a key of its own, and queued under another.
FirstKey(t) == <<t, "first">>
QueuedKey(t) == <<t, "queued">>
Keys == Taps \X {"first", "queued"}

\* Bound: one call of a tap at a time from the button and from each pass.
Calls == Taps \X ({"first"} \cup Flushes)

Server == INSTANCE Idempotency WITH Operations <- WorkflowSteps, Bodiless <- {}
-----------------------------------------------------------------------------
Untried == [state |-> "untried"]
Tap == {Untried} \cup
       [state : {"trying", "accepted", "rejected", "queued"}, status : WorkflowSteps]

\* left: what the pass still has of the queue as it read it, the mutation it
\* is sending first.
NoPass == [at |-> "none"]
Pass == {NoPass} \cup
        [at : {"next", "waiting"}, left : Seq(Taps), completed : SUBSET Taps]

Init ==
  /\ Server!Init
  /\ order = "ASSIGNED"
  /\ shown = "ASSIGNED"
  /\ taps = [t \in Taps |-> Untried]
  /\ outbox = <<>>
  /\ flushes = [f \in Flushes |-> NoPass]
  /\ applied = {}
  /\ refused = {}
  /\ faults = 0

\* A lost request, a late answer, a dead process, a failed write, a closed page.
Fault == faults < MaxFaults /\ faults' = faults + 1
NoFault == UNCHANGED faults

\* No answer comes: the call is lost, or takes longer than ten seconds.
Unanswered(call) == IF call.at = "dead" THEN NoFault ELSE Fault
-----------------------------------------------------------------------------
(* The outbox of IndexedDB *)

QueueMutation(t) == outbox' = Append(outbox, t)
GetQueuedMutations == outbox

\* By its id: another pass may have removed it before.
RemoveQueuedMutation(t) ==
  IF Contains(outbox, t)
  THEN \E i \in DOMAIN outbox : outbox[i] = t /\ outbox' = RemoveAt(outbox, i)
  ELSE UNCHANGED outbox
-----------------------------------------------------------------------------
(* updateOrderStatus of the orders client *)

Becomes(t, state) == taps' = [taps EXCEPT ![t].state = state]

TapStatus(t, s) ==
  /\ taps[t] = Untried
  /\ \A u \in Taps : taps[u].state # "trying"
  /\ CanTransition(shown, s)
  /\ taps' = [taps EXCEPT ![t] = [state |-> "trying", status |-> s]]
  /\ Server!Send(<<t, "first">>, FirstKey(t), s)
  /\ UNCHANGED <<order, shown, outbox, flushes, applied, refused, faults>>

TapAnswered(t) ==
  LET call == calls[<<t, "first">>] IN
  /\ taps[t].state = "trying"
  /\ call.at = "answered"
  /\ \/ call.answer.kind = "ok" /\ Becomes(t, "accepted") /\ shown' = taps[t].status
     \/ call.answer.kind # "ok" /\ Becomes(t, "rejected") /\ UNCHANGED shown
  /\ UNCHANGED <<server, order, outbox, flushes, applied, refused, faults>>

TapUnanswered(t) ==
  /\ taps[t].state = "trying"
  /\ Unanswered(calls[<<t, "first">>])
  /\ Becomes(t, "queued")
  /\ shown' = taps[t].status
  /\ QueueMutation(t)
  /\ UNCHANGED <<server, order, flushes, applied, refused>>

\* The list of orders is loaded again, every so often.
Refresh ==
  /\ shown # order
  /\ shown' = order
  /\ UNCHANGED <<server, order, taps, outbox, flushes, applied, refused, faults>>
-----------------------------------------------------------------------------
(* OfflineSyncEngine.flush *)

StartFlush(f) ==
  /\ flushes[f] = NoPass
  /\ outbox # <<>>
  /\ flushes' = [flushes EXCEPT ![f] = [at |-> "next", left |-> GetQueuedMutations,
                                        completed |-> {}]]
  /\ UNCHANGED <<server, order, shown, taps, outbox, applied, refused, faults>>

Current(f) == Head(flushes[f].left)
CallOf(f) == <<Current(f), f>>

Replay(f) ==
  /\ flushes[f].at = "next"
  /\ flushes[f].left # <<>>
  /\ calls[CallOf(f)] = Server!Idle
  /\ Server!Send(CallOf(f), QueuedKey(Current(f)), taps[Current(f)].status)
  /\ flushes' = [flushes EXCEPT ![f].at = "waiting"]
  /\ UNCHANGED <<order, shown, taps, outbox, applied, refused, faults>>

\* Fault: a conflict is kept for another pass.
RetryLaterOnConflict(answer) == answer.kind \notin {"ok", "refused"}

\* decideSyncFailure: what is not retried later is discarded.
RetryLater(answer) == answer.kind = "failed"

\* Fault: an operation in progress counts as done.
CompletesInProgress(answer) == answer.kind \in {"ok", "inProgress"}

Completes(answer) == answer.kind = "ok"

Passed(f, completed) ==
  flushes' = [flushes EXCEPT ![f] = [at |-> "next", left |-> Tail(@.left),
                                     completed |-> @.completed \cup completed]]

\* Fault: a pass leaves a mutation for later and goes on with the next one.
SkipsOne(f) == Passed(f, {})

\* The first mutation to be retried later is where the pass stops.
BreaksOff(f) ==
  flushes' = [flushes EXCEPT ![f] = [at |-> "next", left |-> <<>>, completed |-> @.completed]]

ReplayAnswered(f) ==
  LET answer == calls[CallOf(f)].answer IN
  /\ flushes[f].at = "waiting"
  /\ calls[CallOf(f)].at = "answered"
  /\ \/ RetryLater(answer) /\ BreaksOff(f) /\ UNCHANGED outbox
     \/ /\ ~RetryLater(answer)
        /\ Passed(f, IF Completes(answer) THEN {Current(f)} ELSE {})
        /\ RemoveQueuedMutation(Current(f))
  /\ UNCHANGED <<server, order, shown, taps, applied, refused, faults>>

ReplayUnanswered(f) ==
  /\ flushes[f].at = "waiting"
  /\ Unanswered(calls[CallOf(f)])
  /\ BreaksOff(f)
  /\ UNCHANGED <<server, order, shown, taps, outbox, applied, refused>>

Stops(f) ==
  /\ flushes' = [flushes EXCEPT ![f] = NoPass]
  /\ UNCHANGED <<server, order, shown, taps, outbox, applied, refused>>

EndFlush(f) == flushes[f].at = "next" /\ flushes[f].left = <<>> /\ Stops(f) /\ NoFault

\* The page is closed under the pass; the queue stays.
ClosePage(f) == flushes[f] # NoPass /\ Stops(f) /\ Fault
-----------------------------------------------------------------------------
(* The server and the dispatcher *)

\* The handler of a status update, as far as one order goes.
Applies(c) ==
  /\ CanTransition(order, calls[c].op)
  /\ order' = calls[c].op
  /\ applied' = applied \cup {calls[c].key}
  /\ UNCHANGED refused

Run(c) == Server!Run(c) /\ Applies(c) /\ NoFault /\ UNCHANGED client

FailLate(c) == Server!FailLate(c) /\ Applies(c) /\ Fault /\ UNCHANGED client

Refuse(c) ==
  /\ Server!Refuse(c)
  /\ ~CanTransition(order, calls[c].op)
  /\ refused' = refused \cup {calls[c].key}
  /\ NoFault
  /\ UNCHANGED <<order, applied>> /\ UNCHANGED client

Undisturbed == UNCHANGED <<order, applied, refused>> /\ UNCHANGED client

Begin(c) ==
  /\ Server!Claim(c) \/ Server!Collide(c) \/ Server!LookUp(c)
  /\ NoFault /\ Undisturbed

Close(c) == (Server!Complete(c) \/ Server!Abandon(c)) /\ NoFault /\ Undisturbed

Break(c) ==
  /\ \/ Server!BeginFails(c) \/ Server!Fail(c)
     \/ Server!CompleteFails(c) \/ Server!AbandonFails(c)
     \/ Server!Die(c)
  /\ Fault /\ Undisturbed

Expire(k) == Server!Expire(k) /\ NoFault /\ Undisturbed

\* Nobody waits for the answer of this call.
Unawaited(c) ==
  IF c[2] = "first" THEN taps[c[1]].state # "trying"
  ELSE flushes[c[2]].at = "waiting" => Current(c[2]) # c[1]

Retire(c) == Server!Retire(c) /\ Unawaited(c) /\ NoFault /\ Undisturbed

\* The dispatcher changes the order, and can give it to the driver again.
Dispatch(s) ==
  /\ CanTransition(order, s)
  /\ order' = s
  /\ UNCHANGED <<server, shown, taps, outbox, flushes, applied, refused, faults>>

Next ==
  \/ \E t \in Taps : TapAnswered(t) \/ TapUnanswered(t)
  \/ \E t \in Taps, s \in WorkflowSteps : TapStatus(t, s)
  \/ Refresh
  \/ \E f \in Flushes : \/ StartFlush(f) \/ Replay(f) \/ ReplayAnswered(f)
                        \/ ReplayUnanswered(f) \/ EndFlush(f) \/ ClosePage(f)
  \/ \E c \in Calls : \/ Begin(c) \/ Run(c) \/ FailLate(c) \/ Refuse(c)
                      \/ Close(c) \/ Break(c) \/ Retire(c)
  \/ \E k \in Keys : Expire(k)
  \/ \E s \in Statuses : Dispatch(s)

Spec == Init /\ [][Next]_vars
-----------------------------------------------------------------------------
(* Fairness.  A pass starts again and again: the page is loaded or the      *)
(* browser goes online; and what has been started goes on.  Nothing is      *)
(* assumed of the driver, the dispatcher or the expiry of records, and      *)
(* faults are finitely many because of their bound.                         *)

Fairness ==
  /\ \A f \in Flushes : /\ WF_vars(StartFlush(f)) /\ WF_vars(EndFlush(f))
                        /\ WF_vars(Replay(f))
                        /\ WF_vars(ReplayAnswered(f) \/ ReplayUnanswered(f))
  /\ \A c \in Taps \X Flushes : /\ WF_vars(Begin(c)) /\ WF_vars(Run(c) \/ Refuse(c))
                                /\ WF_vars(Close(c)) /\ WF_vars(Retire(c))

FairSpec == Spec /\ Fairness
-----------------------------------------------------------------------------
(* Properties *)

TypeOK ==
  /\ Server!TypeOK
  /\ order \in Statuses /\ shown \in Statuses
  /\ taps \in [Taps -> Tap]
  /\ outbox \in Seq(Taps)
  /\ flushes \in [Flushes -> Pass]
  /\ applied \subseteq Keys /\ refused \subseteq Keys
  /\ faults \in 0 .. MaxFaults

\* What a pass reports to the page as completed has taken effect, although the
\* answer may be a replay, a second pass may be at the same mutation, and the
\* process that applied it may be gone.
CompletedIsApplied ==
  \A f \in Flushes : flushes[f] # NoPass =>
    \A t \in flushes[f].completed : QueuedKey(t) \in applied

Queued == ToSet(outbox)

\* A mutation leaves the queue when the server has applied or refused it.
DiscardedIsSettled ==
  \A t \in Taps : taps[t].state = "queued" /\ t \notin Queued
    => QueuedKey(t) \in applied \cup refused

\* The queue is flushed in order, by overlapping passes too: no mutation leaves it
\* while one that was queued before it stays for another pass.
FlushedInOrder ==
  [][\A i, j \in DOMAIN outbox :
       i < j /\ Contains(outbox', outbox[i]) => Contains(outbox', outbox[j])]_vars

\* What the driver did once takes effect once.
TapAppliedOnce ==
  \A t \in Taps : ~({FirstKey(t), QueuedKey(t)} \subseteq applied)

\* While the driver comes back online and failures come to an end, whatever was
\* queued leaves the queue: no answer, not even that of a dead process's record,
\* keeps a mutation there.
QueueDrains == \A t \in Taps : t \in Queued ~> t \notin Queued
=============================================================================
