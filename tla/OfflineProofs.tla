---------------------------- MODULE OfflineProofs ----------------------------
(***************************************************************************)
(* Proofs about the driver application's outbox, for any number of taps,   *)
(* overlapping passes and faults: what a pass reports as done was applied, *)
(* the queue is flushed in order, and the middleware keeps its promises.   *)
(***************************************************************************)
EXTENDS OfflineSync, SequenceTheorems, TLAPS

-----------------------------------------------------------------------------
(* The server's part.  A call carries the key of its tap and its sender,   *)
(* and a success, given or stored, is one of a key that was applied.       *)

KeyOf(c) == IF c[2] = "first" THEN FirstKey(c[1]) ELSE QueuedKey(c[1])

CallsKeyed ==
  /\ DOMAIN calls = Calls /\ DOMAIN records = Keys
  /\ \A c \in Calls : calls[c] # Server!Idle => calls[c].key = KeyOf(c)

SuccessesApplied ==
  /\ \A k \in Keys : records[k].status = "COMPLETED" => k \in applied
  /\ \A c \in Calls : /\ calls[c].at \in {"closing", "answered"}
                      /\ calls[c].answer.kind = "ok"
                      => calls[c].key \in applied

ServerInvariant == CallsKeyed /\ SuccessesApplied

LEMMA KeysOfCalls ==
  ASSUME NEW c \in Calls
  PROVE  KeyOf(c) \in Keys
  BY FlushesAssumption DEF Calls, KeyOf, Keys, FirstKey, QueuedKey

(* One call goes on: only its own key's record can change, and neither its *)
(* answer nor that record says more than that the key was applied.         *)
GoesOn(c) ==
  LET k == calls[c].key IN
  /\ calls[c].at # "idle"
  /\ DOMAIN calls' = Calls /\ \A d \in Calls : d # c => calls'[d] = calls[d]
  /\ calls'[c].key = k
  /\ calls'[c].at \in {"closing", "answered"} /\ calls'[c].answer.kind = "ok" => k \in applied'
  /\ DOMAIN records' = Keys /\ \A j \in Keys : j # k => records'[j] = records[j]
  /\ records'[k] = records[k] \/ (records'[k].status = "COMPLETED" => k \in applied')
  /\ applied \subseteq applied'

LEMMA CallGoesOn ==
  ASSUME ServerInvariant, NEW c \in Calls, GoesOn(c)
  PROVE  ServerInvariant'
  <1>1. calls[c].key \in Keys /\ calls[c].key = KeyOf(c)
    BY KeysOfCalls DEF ServerInvariant, CallsKeyed, Server!Idle, GoesOn
  <1>2. CallsKeyed'
    BY <1>1 DEF ServerInvariant, CallsKeyed, GoesOn
  <1>3. \A k \in Keys : records'[k].status = "COMPLETED" => k \in applied'
    BY <1>1 DEF ServerInvariant, SuccessesApplied, GoesOn
  <1>4. \A d \in Calls : /\ calls'[d].at \in {"closing", "answered"}
                         /\ calls'[d].answer.kind = "ok"
                         => calls'[d].key \in applied'
    BY DEF ServerInvariant, SuccessesApplied, GoesOn
  <1> QED BY <1>2, <1>3, <1>4 DEF ServerInvariant, SuccessesApplied

LEMMA Shapes ==
  /\ \A place, call : /\ Server!At(place, call).at = place
                      /\ Server!At(place, call).key = call.key
  /\ \A place, call, answer : /\ Server!With(place, call, answer).at = place
                              /\ Server!With(place, call, answer).key = call.key
                              /\ Server!With(place, call, answer).answer = answer
  /\ \A kind : Server!Error(kind).kind = kind
  /\ \A op : Server!InProgress(op).status # "COMPLETED"
  /\ Server!Missing.status # "COMPLETED"
  BY DEF Server!At, Server!With, Server!Error, Server!InProgress, Server!Missing

LEMMA BeginKeepsServer ==
  ASSUME ServerInvariant, NEW c \in Calls, Begin(c)
  PROVE  ServerInvariant'
  <1> DEFINE call == calls[c]
  <1>1. applied' = applied
    BY DEF Begin, Undisturbed
  <1>2. CASE Server!Claim(c)
    BY <1>1, <1>2, Shapes, CallGoesOn
       DEF Server!Claim, Server!Moves, GoesOn, ServerInvariant, CallsKeyed
  <1>3. CASE Server!Collide(c)
    BY <1>1, <1>3, Shapes, CallGoesOn
       DEF Server!Collide, Server!Moves, GoesOn, ServerInvariant, CallsKeyed
  <1>4. CASE Server!LookUp(c)
    <2> DEFINE answer == Server!AnswerFrom(records[call.key], call.op)
    <2>1. calls' = [calls EXCEPT ![c] = Server!With("answered", call, answer)] /\ records' = records
          /\ call.at = "colliding"
      BY <1>4 DEF Server!LookUp, Server!Answers
    <2>2. answer.kind = "ok" => call.key \in applied
      <3>1. call.key \in Keys
        BY <2>1, KeysOfCalls DEF ServerInvariant, CallsKeyed, Server!Idle
      <3>2. answer.kind = "ok" => records[call.key].status = "COMPLETED"
        BY DEF Server!AnswerFrom, Server!Error
      <3> QED BY <3>1, <3>2 DEF ServerInvariant, SuccessesApplied
    <2> HIDE DEF answer
    <2> QED BY <1>1, <2>1, <2>2, Shapes, CallGoesOn DEF GoesOn, ServerInvariant, CallsKeyed
  <1> QED BY <1>2, <1>3, <1>4 DEF Begin

LEMMA HandlerKeepsServer ==
  ASSUME ServerInvariant, NEW c \in Calls, Run(c) \/ FailLate(c) \/ Refuse(c)
  PROVE  ServerInvariant'
  <1>1. CASE Run(c)
    <2>1. calls[c].key \in applied' /\ applied \subseteq applied'
      BY <1>1 DEF Run, Applies
    <2> QED BY <1>1, <2>1, Shapes, CallGoesOn
       DEF Run, Server!Run, Server!Closes, GoesOn, ServerInvariant, CallsKeyed
  <1>2. CASE FailLate(c)
    <2>1. applied \subseteq applied'
      BY <1>2 DEF FailLate, Applies
    <2> QED BY <1>2, <2>1, Shapes, CallGoesOn
       DEF FailLate, Server!FailLate, Server!Closes, GoesOn, ServerInvariant, CallsKeyed
  <1>3. CASE Refuse(c)
    BY <1>3, Shapes, CallGoesOn
       DEF Refuse, Server!Refuse, Server!Closes, GoesOn, ServerInvariant, CallsKeyed
  <1> QED BY <1>1, <1>2, <1>3

LEMMA CloseKeepsServer ==
  ASSUME ServerInvariant, NEW c \in Calls, Close(c)
  PROVE  ServerInvariant'
  <1>1. applied' = applied
    BY DEF Close, Undisturbed
  <1>2. CASE Server!Complete(c)
    <2>1. calls[c].key \in applied
      BY <1>2 DEF Server!Complete, ServerInvariant, SuccessesApplied
    <2> QED BY <1>1, <1>2, <2>1, Shapes, CallGoesOn
       DEF Server!Complete, Server!Answers, GoesOn, ServerInvariant, CallsKeyed
  <1>3. CASE Server!Abandon(c)
    BY <1>1, <1>3, Shapes, CallGoesOn
       DEF Server!Abandon, Server!Answers, Server!GivesBack, GoesOn, ServerInvariant, CallsKeyed
  <1> QED BY <1>2, <1>3 DEF Close

LEMMA BreakKeepsServer ==
  ASSUME ServerInvariant, NEW c \in Calls, Break(c)
  PROVE  ServerInvariant'
  <1>1. applied' = applied
    BY DEF Break, Undisturbed
  <1>2. CASE Server!BeginFails(c)
    <2>1. /\ DOMAIN records' = Keys /\ \A j \in Keys : j # calls[c].key => records'[j] = records[j]
          /\ \/ records'[calls[c].key] = records[calls[c].key]
             \/ records'[calls[c].key].status # "COMPLETED"
      <3>1. CASE UNCHANGED records
        BY <3>1 DEF ServerInvariant, CallsKeyed
      <3>2. CASE records' = [records EXCEPT ![calls[c].key] = Server!InProgress(calls[c].op)]
        <4>1. calls[c].key \in Keys
          BY <1>2, KeysOfCalls DEF Server!BeginFails, ServerInvariant, CallsKeyed, Server!Idle
        <4> QED BY <3>2, <4>1, Shapes DEF ServerInvariant, CallsKeyed
      <3> QED BY <1>2, <3>1, <3>2 DEF Server!BeginFails
    <2> QED
      BY <1>1, <1>2, <2>1, Shapes, CallGoesOn
         DEF Server!BeginFails, Server!Answers, GoesOn, ServerInvariant, CallsKeyed
  <1>3. CASE Server!Fail(c)
    BY <1>1, <1>3, Shapes, CallGoesOn
       DEF Server!Fail, Server!Closes, GoesOn, ServerInvariant, CallsKeyed
  <1>4. CASE Server!CompleteFails(c)
    <2>1. calls[c].key \in applied
      BY <1>4 DEF Server!CompleteFails, ServerInvariant, SuccessesApplied
    <2> QED BY <1>1, <1>4, <2>1, Shapes, CallGoesOn
       DEF Server!CompleteFails, Server!Answers, GoesOn, ServerInvariant, CallsKeyed
  <1>5. CASE Server!AbandonFails(c)
    BY <1>1, <1>5, Shapes, CallGoesOn
       DEF Server!AbandonFails, Server!Answers, Server!GivesBack, GoesOn, ServerInvariant, CallsKeyed
  <1>6. CASE Server!Die(c)
    BY <1>1, <1>6, Shapes, CallGoesOn
       DEF Server!Die, Server!Moves, GoesOn, ServerInvariant, CallsKeyed
  <1> QED BY <1>2, <1>3, <1>4, <1>5, <1>6 DEF Break

LEMMA ExpireKeepsServer ==
  ASSUME ServerInvariant, NEW k \in Keys, Expire(k)
  PROVE  ServerInvariant'
  BY Shapes DEF Expire, Server!Expire, Undisturbed, ServerInvariant, CallsKeyed, SuccessesApplied

LEMMA RetireKeepsServer ==
  ASSUME ServerInvariant, NEW c \in Calls, Retire(c)
  PROVE  ServerInvariant'
  BY DEF Retire, Server!Retire, Server!Idle, Undisturbed, ServerInvariant, CallsKeyed,
         SuccessesApplied

LEMMA SendKeepsServer ==
  ASSUME ServerInvariant, NEW c \in Calls, NEW op, Server!Send(c, KeyOf(c), op), UNCHANGED applied
  PROVE  ServerInvariant'
  BY DEF Server!Send, ServerInvariant, CallsKeyed, SuccessesApplied

-----------------------------------------------------------------------------
(* The outbox.  A mutation is in it once.  A pass works through the queue  *)
(* as it read it, and meanwhile other passes take mutations out and taps   *)
(* put some in at the end: what precedes a mutation in the queue precedes  *)
(* it in the pass, so the one a pass is sending is the first that is left. *)

LEMMA RemoveAtProperties ==
  ASSUME NEW S, NEW s \in Seq(S), NEW i \in 1..Len(s)
  PROVE  /\ RemoveAt(s, i) \in Seq(S) /\ Len(RemoveAt(s, i)) = Len(s) - 1
         /\ \A j \in 1..(Len(s) - 1) : RemoveAt(s, i)[j] = IF j < i THEN s[j] ELSE s[j + 1]
  <1> DEFINE before == SubSeq(s, 1, i - 1)
             after == SubSeq(s, i + 1, Len(s))
  <1>1. /\ before \in Seq(S) /\ Len(before) = i - 1
        /\ \A j \in 1..(i - 1) : before[j] = s[j]
    <2>1. \A j \in 1..(i - 1) : s[j] \in S
      OBVIOUS
    <2> QED BY <2>1, SubSeqProperties
  <1>2. /\ after \in Seq(S) /\ Len(after) = Len(s) - i
        /\ \A j \in 1..(Len(s) - i) : after[j] = s[i + j]
    <2>1. \A j \in (i + 1)..Len(s) : s[j] \in S
      OBVIOUS
    <2> QED BY <2>1, SubSeqProperties
  <1> HIDE DEF before, after
  <1>3. /\ before \o after \in Seq(S) /\ Len(before \o after) = Len(s) - 1
        /\ \A j \in 1..(Len(s) - 1) :
             (before \o after)[j] = IF j <= i - 1 THEN before[j] ELSE after[j - (i - 1)]
    <2>1. before \in Seq(S) /\ after \in Seq(S)
      BY <1>1, <1>2
    <2>2. /\ before \o after \in Seq(S) /\ Len(before \o after) = Len(before) + Len(after)
          /\ \A j \in 1..(Len(before) + Len(after)) :
               (before \o after)[j] =
                 IF j <= Len(before) THEN before[j] ELSE after[j - Len(before)]
      BY <2>1, ConcatProperties
    <2>3. Len(before) = i - 1 /\ (i - 1) + Len(after) = Len(s) - 1
      BY <1>1, <1>2
    <2> QED BY <2>2, <2>3
  <1>4. ASSUME NEW j \in 1..(Len(s) - 1)
        PROVE  (before \o after)[j] = IF j < i THEN s[j] ELSE s[j + 1]
    <2>1. CASE j < i
      BY <1>1, <1>3, <2>1
    <2>2. CASE ~(j < i)
      <3>1. j - (i - 1) \in 1..(Len(s) - i) /\ i + (j - (i - 1)) = j + 1
        BY <2>2
      <3> QED BY <1>2, <1>3, <2>2, <3>1
    <2> QED BY <2>1, <2>2
  <1> QED BY <1>3, <1>4 DEF RemoveAt, before, after

IsQueued(t) == taps[t].state = "queued"

QueueTypeOK ==
  /\ taps \in [Taps -> Tap]
  /\ outbox \in Seq(Taps)
  /\ flushes \in [Flushes -> Pass]

QueuedOnce == \A i, j \in 1..Len(outbox) : outbox[i] = outbox[j] => i = j

\* The queue and the passes are about taps that were queued.
OnlyQueued ==
  /\ \A i \in 1..Len(outbox) : IsQueued(outbox[i])
  /\ \A f \in Flushes : flushes[f] # NoPass =>
       \A k \in 1..Len(flushes[f].left) : IsQueued(flushes[f].left[k])

WaitsForOne == \A f \in Flushes : flushes[f].at = "waiting" => flushes[f].left # <<>>

Ordered(left, queue) ==
  \A k \in 1..Len(left), j \in 1..Len(queue) :
    left[k] = queue[j] => \A i \in 1..(j - 1) : \E l \in 1..(k - 1) : left[l] = queue[i]

InQueueOrder == \A f \in Flushes : flushes[f] # NoPass => Ordered(flushes[f].left, outbox)

QueueInvariant == QueueTypeOK /\ QueuedOnce /\ OnlyQueued /\ WaitsForOne /\ InQueueOrder

OfflineInvariant == ServerInvariant /\ QueueInvariant /\ CompletedIsApplied

LEMMA OfflineInitially == Init => OfflineInvariant
  <1> SUFFICES ASSUME Init PROVE OfflineInvariant
    OBVIOUS
  <1>1. ServerInvariant
    BY Shapes DEF Init, Server!Init, ServerInvariant, CallsKeyed, SuccessesApplied, Server!Idle
  <1>2. QueueInvariant
    BY DEF Init, QueueInvariant, QueueTypeOK, QueuedOnce, OnlyQueued, WaitsForOne, InQueueOrder,
           NoPass, Tap, Pass
  <1>3. CompletedIsApplied
    BY DEF Init, CompletedIsApplied
  <1> QED BY <1>1, <1>2, <1>3 DEF OfflineInvariant

-----------------------------------------------------------------------------
(* The steps of the application. *)

LEMMA OthersKeepQueue ==
  ASSUME QueueInvariant, UNCHANGED client
  PROVE  QueueInvariant'
  BY DEF QueueInvariant, QueueTypeOK, QueuedOnce, OnlyQueued, IsQueued, WaitsForOne, InQueueOrder,
         client

LEMMA CompletedStaysApplied ==
  ASSUME CompletedIsApplied, applied \subseteq applied', UNCHANGED flushes
  PROVE  CompletedIsApplied'
  BY DEF CompletedIsApplied

\* A tap changes what became of it, and was not queued before.
LEMMA TapKeepsQueue ==
  ASSUME QueueInvariant, NEW t \in Taps, ~IsQueued(t), NEW tap \in Tap,
         taps' = [taps EXCEPT ![t] = tap], UNCHANGED <<outbox, flushes>>
  PROVE  QueueInvariant'
  <1>1. QueueTypeOK'
    BY DEF QueueInvariant, QueueTypeOK
  <1>2. \A u \in Taps : IsQueued(u) => IsQueued(u)'
    BY DEF QueueInvariant, QueueTypeOK, IsQueued
  <1>3. \A i \in 1..Len(outbox) : outbox[i] \in Taps
    BY DEF QueueInvariant, QueueTypeOK
  <1>4. \A f \in Flushes : flushes[f] # NoPass =>
          \A k \in 1..Len(flushes[f].left) : flushes[f].left[k] \in Taps
    BY DEF QueueInvariant, QueueTypeOK, Pass
  <1>5. OnlyQueued'
    BY <1>2, <1>3, <1>4 DEF QueueInvariant, OnlyQueued
  <1> QED BY <1>1, <1>5 DEF QueueInvariant, QueuedOnce, WaitsForOne, InQueueOrder

LEMMA TapStatusKeeps ==
  ASSUME OfflineInvariant, NEW t \in Taps, NEW s \in WorkflowSteps, TapStatus(t, s)
  PROVE  OfflineInvariant'
  <1> DEFINE c == <<t, "first">>
  <1>1. c \in Calls /\ KeyOf(c) = FirstKey(t)
    BY DEF Calls, KeyOf
  <1>2. ServerInvariant'
    <2>1. Server!Send(c, KeyOf(c), s) /\ UNCHANGED applied
      BY <1>1 DEF TapStatus
    <2> QED BY <1>1, <2>1, SendKeepsServer DEF OfflineInvariant
  <1>3. QueueInvariant'
    <2> DEFINE tap == [state |-> "trying", status |-> s]
    <2>1. tap \in Tap /\ ~IsQueued(t)
      BY DEF Tap, TapStatus, IsQueued, Untried
    <2>2. taps' = [taps EXCEPT ![t] = tap] /\ UNCHANGED <<outbox, flushes>>
      BY DEF TapStatus
    <2> HIDE DEF tap
    <2> QED BY <2>1, <2>2, TapKeepsQueue DEF OfflineInvariant
  <1>4. CompletedIsApplied'
    BY CompletedStaysApplied DEF OfflineInvariant, TapStatus
  <1> QED BY <1>2, <1>3, <1>4 DEF OfflineInvariant

LEMMA TryingIsATap ==
  ASSUME QueueTypeOK, NEW t \in Taps, taps[t].state = "trying",
         NEW state \in {"accepted", "rejected", "queued"}
  PROVE  [taps[t] EXCEPT !.state = state] \in Tap
  BY DEF QueueTypeOK, Tap, Untried

LEMMA TapAnsweredKeeps ==
  ASSUME OfflineInvariant, NEW t \in Taps, TapAnswered(t)
  PROVE  OfflineInvariant'
  <1>1. ServerInvariant'
    BY DEF OfflineInvariant, TapAnswered, server, ServerInvariant, CallsKeyed, SuccessesApplied
  <1>2. QueueInvariant'
    <2>1. PICK state \in {"accepted", "rejected"} : Becomes(t, state)
      BY DEF TapAnswered
    <2> DEFINE tap == [taps[t] EXCEPT !.state = state]
    <2>2. tap \in Tap /\ ~IsQueued(t)
      BY TryingIsATap DEF OfflineInvariant, QueueInvariant, TapAnswered, IsQueued
    <2>3. taps' = [taps EXCEPT ![t] = tap] /\ UNCHANGED <<outbox, flushes>>
      BY <2>1 DEF TapAnswered, Becomes
    <2> HIDE DEF tap
    <2> QED BY <2>2, <2>3, TapKeepsQueue DEF OfflineInvariant
  <1>3. CompletedIsApplied'
    BY CompletedStaysApplied DEF OfflineInvariant, TapAnswered
  <1> QED BY <1>1, <1>2, <1>3 DEF OfflineInvariant

LEMMA TapUnansweredKeeps ==
  ASSUME OfflineInvariant, NEW t \in Taps, TapUnanswered(t)
  PROVE  OfflineInvariant'
  <1>1. ServerInvariant'
    BY DEF OfflineInvariant, TapUnanswered, server, ServerInvariant, CallsKeyed, SuccessesApplied
  <1>2. QueueInvariant'
    <2> USE DEF OfflineInvariant, QueueInvariant
    <2> DEFINE tap == [taps[t] EXCEPT !.state = "queued"]
    <2>1. tap \in Tap /\ ~IsQueued(t) /\ tap.state = "queued"
      BY TryingIsATap DEF TapUnanswered, IsQueued, QueueTypeOK, Tap, Untried
    <2>2. taps' = [taps EXCEPT ![t] = tap] /\ outbox' = Append(outbox, t) /\ UNCHANGED flushes
      BY DEF TapUnanswered, Becomes, QueueMutation
    <2> HIDE DEF tap
    <2>3. QueueTypeOK'
      BY <2>1, <2>2 DEF QueueTypeOK
    <2>4. \A u \in Taps : IsQueued(u) => IsQueued(u)' /\ u # t
      BY <2>1, <2>2 DEF QueueTypeOK, IsQueued
    <2>5. /\ Len(outbox') = Len(outbox) + 1 /\ outbox'[Len(outbox) + 1] = t
          /\ \A i \in 1..Len(outbox) : outbox'[i] = outbox[i] /\ outbox[i] \in Taps /\ outbox[i] # t
      BY <2>2, <2>4 DEF QueueTypeOK, OnlyQueued
    <2>6. IsQueued(t)'
      BY <2>1, <2>2 DEF QueueTypeOK, IsQueued
    <2>7. ASSUME NEW f \in Flushes, flushes[f] # NoPass, NEW k \in 1..Len(flushes[f].left)
          PROVE  flushes[f].left[k] \in Taps /\ IsQueued(flushes[f].left[k])' /\ flushes[f].left[k] # t
      <3>1. flushes[f].left[k] \in Taps
        BY <2>7 DEF QueueTypeOK, Pass
      <3> QED BY <2>2, <2>4, <2>7, <3>1 DEF OnlyQueued
    <2>8. \A i \in 1..Len(outbox') : i \in 1..Len(outbox) \/ i = Len(outbox) + 1
      BY <2>5 DEF QueueTypeOK
    <2>9. QueuedOnce'
      BY <2>5, <2>8 DEF QueuedOnce
    <2>10. OnlyQueued'
      BY <2>2, <2>4, <2>5, <2>6, <2>7, <2>8 DEF OnlyQueued
    <2>11. InQueueOrder'
      <3> SUFFICES ASSUME NEW f \in Flushes, flushes[f] # NoPass,
                          NEW k \in 1..Len(flushes[f].left), NEW j \in 1..Len(outbox'),
                          flushes[f].left[k] = outbox'[j], NEW i \in 1..(j - 1)
                   PROVE  \E l \in 1..(k - 1) : flushes[f].left[l] = outbox'[i]
        BY <2>2 DEF InQueueOrder, Ordered
      <3>1. j \in 1..Len(outbox)
        BY <2>5, <2>7, <2>8
      <3>2. outbox'[i] = outbox[i] /\ outbox'[j] = outbox[j]
        BY <2>5, <3>1
      <3> QED BY <3>1, <3>2 DEF InQueueOrder, Ordered
    <2> QED BY <2>2, <2>3, <2>9, <2>10, <2>11 DEF WaitsForOne
  <1>3. CompletedIsApplied'
    BY CompletedStaysApplied DEF OfflineInvariant, TapUnanswered
  <1> QED BY <1>1, <1>2, <1>3 DEF OfflineInvariant

-----------------------------------------------------------------------------
(* The steps of a pass. *)

\* The thinner queue lacks what the queue has at place p, and nothing if p is past
\* its end.
Thinned(queue, thinner, p) ==
  /\ Len(thinner) \in Nat
  /\ \A j \in 1..Len(thinner) :
       /\ j < p => thinner[j] = queue[j] /\ j \in 1..Len(queue)
       /\ j >= p => thinner[j] = queue[j + 1] /\ j + 1 \in 1..Len(queue)

LEMMA OrderedThinned ==
  ASSUME NEW left, NEW queue, NEW thinner, NEW p \in Nat,
         Ordered(left, queue), Thinned(queue, thinner, p)
  PROVE  Ordered(left, thinner)
  <1> USE DEF Thinned
  <1> SUFFICES ASSUME NEW k \in 1..Len(left), NEW j \in 1..Len(thinner), left[k] = thinner[j],
                      NEW i \in 1..(j - 1)
               PROVE  \E l \in 1..(k - 1) : left[l] = thinner[i]
    BY DEF Ordered
  <1>1. i \in 1..Len(thinner) /\ i \in Nat /\ j \in Nat
    OBVIOUS
  <1>2. CASE j < p
    <2>1. thinner[j] = queue[j] /\ thinner[i] = queue[i] /\ j \in 1..Len(queue) /\ i \in 1..(j - 1)
      BY <1>1, <1>2
    <2> QED BY <2>1 DEF Ordered
  <1>3. CASE j >= p
    <2>1. thinner[j] = queue[j + 1] /\ j + 1 \in 1..Len(queue)
      BY <1>3
    <2>2. PICK m \in 1..((j + 1) - 1) : thinner[i] = queue[m]
      <3>1. CASE i < p
        BY <1>1, <3>1
      <3>2. CASE i >= p
        BY <1>1, <3>2
      <3> QED BY <1>1, <3>1, <3>2
    <2>3. \E l \in 1..(k - 1) : left[l] = queue[m]
      BY <2>1 DEF Ordered
    <2> QED BY <2>2, <2>3
  <1> QED BY <1>1, <1>2, <1>3

LEMMA OrderedTail ==
  ASSUME NEW left \in Seq(Taps), left # <<>>, NEW queue \in Seq(Taps), Ordered(left, queue),
         \A j \in 1..Len(queue) : queue[j] # Head(left)
  PROVE  Ordered(Tail(left), queue)
  <1>1. /\ Tail(left) \in Seq(Taps) /\ Len(Tail(left)) = Len(left) - 1 /\ Head(left) = left[1]
        /\ \A k \in 1..Len(Tail(left)) : Tail(left)[k] = left[k + 1]
    BY HeadTailProperties
  <1> SUFFICES ASSUME NEW k \in 1..Len(Tail(left)), NEW j \in 1..Len(queue),
                      Tail(left)[k] = queue[j], NEW i \in 1..(j - 1)
               PROVE  \E l \in 1..(k - 1) : Tail(left)[l] = queue[i]
    BY DEF Ordered
  <1>2. left[k + 1] = queue[j] /\ k + 1 \in 1..Len(left)
    BY <1>1
  <1>3. PICK l \in 1..((k + 1) - 1) : left[l] = queue[i]
    BY <1>2 DEF Ordered
  <1>4. l # 1
    <2>1. i \in 1..Len(queue)
      OBVIOUS
    <2> QED BY <1>1, <1>3, <2>1
  <1>5. l - 1 \in 1..(k - 1) /\ Tail(left)[l - 1] = left[l]
    BY <1>1, <1>3, <1>4
  <1> QED BY <1>3, <1>5

\* What becomes of the queue when a mutation is removed from it, if it is there.
LEMMA RemovedFromQueue ==
  ASSUME QueueTypeOK, QueuedOnce, NEW t \in Taps, RemoveQueuedMutation(t)
  PROVE  /\ outbox' \in Seq(Taps)
         /\ \E p \in Nat : Thinned(outbox, outbox', p)
         /\ \A j \in 1..Len(outbox') : outbox'[j] # t
         /\ \A i \in 1..Len(outbox) : outbox[i] # t => \E j \in 1..Len(outbox') : outbox'[j] = outbox[i]
  <1> USE DEF QueueTypeOK
  <1>1. CASE Contains(outbox, t)
    <2>1. PICK p \in 1..Len(outbox) : outbox[p] = t /\ outbox' = RemoveAt(outbox, p)
      BY <1>1 DEF RemoveQueuedMutation
    <2>2. /\ outbox' \in Seq(Taps) /\ Len(outbox') = Len(outbox) - 1
          /\ \A j \in 1..(Len(outbox) - 1) : outbox'[j] = IF j < p THEN outbox[j] ELSE outbox[j + 1]
      BY <2>1, RemoveAtProperties
    <2>3. Thinned(outbox, outbox', p)
      BY <2>2 DEF Thinned
    <2>4. \A j \in 1..Len(outbox') : outbox'[j] # t
      <3> SUFFICES ASSUME NEW j \in 1..Len(outbox'), outbox'[j] = t PROVE FALSE
        OBVIOUS
      <3>1. CASE j < p
        BY <2>1, <2>3, <3>1 DEF QueuedOnce, Thinned
      <3>2. CASE j >= p
        BY <2>1, <2>3, <3>2 DEF QueuedOnce, Thinned
      <3> QED BY <2>2, <3>1, <3>2
    <2>5. ASSUME NEW i \in 1..Len(outbox), outbox[i] # t
          PROVE  \E j \in 1..Len(outbox') : outbox'[j] = outbox[i]
      <3>1. CASE i < p
        <4>1. i \in 1..Len(outbox') /\ outbox'[i] = outbox[i]
          BY <2>2, <3>1
        <4> QED BY <4>1
      <3>2. CASE i > p
        <4>1. i - 1 \in 1..Len(outbox') /\ outbox'[i - 1] = outbox[i]
          BY <2>2, <3>2
        <4> QED BY <4>1
      <3>3. CASE i = p
        BY <2>1, <2>5, <3>3
      <3> QED BY <3>1, <3>2, <3>3
    <2>6. p \in Nat
      OBVIOUS
    <2> QED BY <2>2, <2>3, <2>4, <2>5, <2>6
  <1>2. CASE ~Contains(outbox, t)
    <2>1. outbox' = outbox /\ \A j \in 1..Len(outbox) : outbox[j] # t
      BY <1>2 DEF RemoveQueuedMutation, Contains
    <2> DEFINE p == Len(outbox) + 1
    <2>2. p \in Nat /\ \A j \in 1..Len(outbox) : j < p /\ ~(j >= p)
      OBVIOUS
    <2> HIDE DEF p
    <2>3. Thinned(outbox, outbox', p)
      BY <2>1, <2>2 DEF Thinned
    <2> QED BY <2>1, <2>2, <2>3
  <1> QED BY <1>1, <1>2

\* What a pass has left was queued, and follows the queue's order.
Follows(pass, queue) ==
  pass # NoPass => /\ \A k \in 1..Len(pass.left) : IsQueued(pass.left[k])
                   /\ pass.at = "waiting" => pass.left # <<>>
                   /\ Ordered(pass.left, queue)

LEMMA PassKeepsQueue ==
  ASSUME QueueInvariant, UNCHANGED <<taps, outbox>>, NEW f \in Flushes, NEW pass \in Pass,
         flushes' = [flushes EXCEPT ![f] = pass], Follows(pass, outbox)
  PROVE  QueueInvariant'
  <1>1. /\ flushes' \in [Flushes -> Pass] /\ flushes'[f] = pass
        /\ \A g \in Flushes : g # f => flushes'[g] = flushes[g]
    BY DEF QueueInvariant, QueueTypeOK
  <1>2. \A g \in Flushes : Follows(flushes'[g], outbox)
    BY <1>1 DEF QueueInvariant, OnlyQueued, WaitsForOne, InQueueOrder, Follows, NoPass
  <1>3. QueueTypeOK' /\ QueuedOnce'
    BY <1>1 DEF QueueInvariant, QueueTypeOK, QueuedOnce
  <1>4. \A t : IsQueued(t)' <=> IsQueued(t)
    BY DEF IsQueued
  <1>5. OnlyQueued' /\ WaitsForOne' /\ InQueueOrder'
    BY <1>2 DEF QueueInvariant, OnlyQueued, WaitsForOne, InQueueOrder, Follows, NoPass, IsQueued
  <1> QED BY <1>3, <1>5 DEF QueueInvariant

LEMMA StartFlushKeeps ==
  ASSUME OfflineInvariant, NEW f \in Flushes, StartFlush(f)
  PROVE  OfflineInvariant'
  <1> DEFINE pass == [at |-> "next", left |-> outbox, completed |-> {}]
  <1>1. flushes' = [flushes EXCEPT ![f] = pass] /\ UNCHANGED <<server, applied, taps, outbox>>
    BY DEF StartFlush, GetQueuedMutations
  <1>2. pass \in Pass
    BY DEF OfflineInvariant, QueueInvariant, QueueTypeOK, Pass
  <1>3. Follows(pass, outbox)
    <2>1. Ordered(outbox, outbox)
      <3> SUFFICES ASSUME NEW k \in 1..Len(outbox), NEW j \in 1..Len(outbox), outbox[k] = outbox[j],
                          NEW i \in 1..(j - 1)
                   PROVE  \E l \in 1..(k - 1) : outbox[l] = outbox[i]
        BY DEF Ordered
      <3>1. k = j
        BY DEF OfflineInvariant, QueueInvariant, QueuedOnce
      <3> QED BY <3>1
    <2> QED BY <2>1 DEF Follows, OfflineInvariant, QueueInvariant, OnlyQueued
  <1>4. QueueInvariant'
    <2> HIDE DEF pass
    <2> QED BY <1>1, <1>2, <1>3, PassKeepsQueue DEF OfflineInvariant
  <1>5. ServerInvariant'
    BY <1>1 DEF OfflineInvariant, server, ServerInvariant, CallsKeyed, SuccessesApplied
  <1>6. CompletedIsApplied'
    BY <1>1 DEF OfflineInvariant, QueueInvariant, QueueTypeOK, CompletedIsApplied
  <1> QED BY <1>4, <1>5, <1>6 DEF OfflineInvariant

\* A pass that is at a mutation has a call of its own for it.
LEMMA CallsOfPasses ==
  ASSUME QueueTypeOK, NEW f \in Flushes, flushes[f] # NoPass, flushes[f].left # <<>>
  PROVE  /\ flushes[f] \in [at : {"next", "waiting"}, left : Seq(Taps), completed : SUBSET Taps]
         /\ Current(f) \in Taps /\ CallOf(f) \in Calls /\ KeyOf(CallOf(f)) = QueuedKey(Current(f))
         /\ Current(f) = flushes[f].left[1] /\ 1 \in 1..Len(flushes[f].left)
  <1>1. flushes[f] \in [at : {"next", "waiting"}, left : Seq(Taps), completed : SUBSET Taps]
    BY DEF QueueTypeOK, Pass
  <1>2. /\ Current(f) \in Taps /\ Current(f) = flushes[f].left[1] /\ 1 \in 1..Len(flushes[f].left)
    BY <1>1, HeadTailProperties DEF Current
  <1>3. f # "first"
    BY FlushesAssumption
  <1> QED BY <1>1, <1>2, <1>3 DEF CallOf, Calls, KeyOf

LEMMA ReplayKeeps ==
  ASSUME OfflineInvariant, NEW f \in Flushes, Replay(f)
  PROVE  OfflineInvariant'
  <1> USE DEF OfflineInvariant, QueueInvariant
  <1>1. flushes[f] # NoPass /\ flushes[f].left # <<>>
    BY DEF Replay, NoPass
  <1>2. ServerInvariant'
    <2>1. CallOf(f) \in Calls /\ KeyOf(CallOf(f)) = QueuedKey(Current(f))
      BY <1>1, CallsOfPasses
    <2>2. PICK op : Server!Send(CallOf(f), KeyOf(CallOf(f)), op) /\ UNCHANGED applied
      BY <2>1 DEF Replay
    <2> QED BY <2>1, <2>2, SendKeepsServer
  <1> DEFINE pass == [flushes[f] EXCEPT !.at = "waiting"]
  <1>3. /\ pass \in Pass /\ pass.left = flushes[f].left /\ pass.completed = flushes[f].completed
        /\ pass # NoPass
    BY <1>1, CallsOfPasses DEF Pass, NoPass
  <1>4. flushes' = [flushes EXCEPT ![f] = pass] /\ UNCHANGED <<taps, outbox, applied>>
    BY DEF Replay
  <1> HIDE DEF pass
  <1>5. Follows(pass, outbox)
    BY <1>1, <1>3 DEF Follows, OnlyQueued, InQueueOrder
  <1>6. QueueInvariant'
    BY <1>3, <1>4, <1>5, PassKeepsQueue
  <1>7. CompletedIsApplied'
    BY <1>1, <1>3, <1>4 DEF QueueTypeOK, CompletedIsApplied
  <1> QED BY <1>2, <1>6, <1>7

LEMMA BreaksOffKeeps ==
  ASSUME OfflineInvariant, NEW f \in Flushes, flushes[f].at = "waiting", BreaksOff(f),
         UNCHANGED <<server, applied, taps, outbox>>
  PROVE  OfflineInvariant'
  <1> USE DEF OfflineInvariant, QueueInvariant
  <1>1. flushes[f] # NoPass /\ flushes[f].left # <<>>
    BY DEF NoPass, WaitsForOne
  <1> DEFINE pass == [at |-> "next", left |-> <<>>, completed |-> flushes[f].completed]
  <1>2. /\ pass \in Pass /\ pass.left = <<>> /\ pass.completed = flushes[f].completed
        /\ pass.at = "next"
    <2>1. flushes[f].completed \in SUBSET Taps /\ <<>> \in Seq(Taps)
      BY <1>1, CallsOfPasses
    <2> QED BY <2>1 DEF Pass
  <1>3. flushes' = [flushes EXCEPT ![f] = pass]
    BY DEF BreaksOff, QueueTypeOK
  <1> HIDE DEF pass
  <1>4. Follows(pass, outbox)
    BY <1>2 DEF Follows, Ordered
  <1>5. QueueInvariant'
    BY <1>2, <1>3, <1>4, PassKeepsQueue
  <1>6. CompletedIsApplied'
    BY <1>1, <1>2, <1>3 DEF QueueTypeOK, CompletedIsApplied
  <1>7. ServerInvariant'
    BY DEF server, ServerInvariant, CallsKeyed, SuccessesApplied
  <1> QED BY <1>5, <1>6, <1>7

LEMMA StopsKeeps ==
  ASSUME OfflineInvariant, NEW f \in Flushes, Stops(f)
  PROVE  OfflineInvariant'
  <1>1. Follows(NoPass, outbox) /\ NoPass \in Pass
    BY DEF Follows, Pass
  <1>2. flushes' = [flushes EXCEPT ![f] = NoPass] /\ UNCHANGED <<server, applied, taps, outbox>>
    BY DEF Stops
  <1>3. QueueInvariant'
    BY <1>1, <1>2, PassKeepsQueue DEF OfflineInvariant
  <1>4. CompletedIsApplied'
    BY <1>2 DEF OfflineInvariant, QueueInvariant, QueueTypeOK, CompletedIsApplied
  <1>5. ServerInvariant'
    BY <1>2 DEF OfflineInvariant, server, ServerInvariant, CallsKeyed, SuccessesApplied
  <1> QED BY <1>3, <1>4, <1>5 DEF OfflineInvariant

\* The answer settles the mutation the pass is at: it leaves the queue, and the
\* pass goes on with the rest.
LEMMA SettledKeeps ==
  ASSUME OfflineInvariant, NEW f \in Flushes, ReplayAnswered(f),
         ~RetryLater(calls[CallOf(f)].answer),
         Passed(f, IF Completes(calls[CallOf(f)].answer) THEN {Current(f)} ELSE {}),
         RemoveQueuedMutation(Current(f))
  PROVE  OfflineInvariant'
  <1> USE DEF OfflineInvariant, QueueInvariant
  <1> DEFINE answer == calls[CallOf(f)].answer
             done == IF Completes(answer) THEN {Current(f)} ELSE {}
             left == flushes[f].left
  <1>1. flushes[f] # NoPass /\ left # <<>>
    BY DEF ReplayAnswered, NoPass, WaitsForOne
  <1>2. /\ flushes[f] \in [at : {"next", "waiting"}, left : Seq(Taps), completed : SUBSET Taps]
        /\ Current(f) \in Taps /\ CallOf(f) \in Calls /\ KeyOf(CallOf(f)) = QueuedKey(Current(f))
    BY <1>1, CallsOfPasses
  <1>3. UNCHANGED <<server, applied, taps>>
    BY DEF ReplayAnswered
  <1>4. ServerInvariant'
    BY <1>3 DEF server, ServerInvariant, CallsKeyed, SuccessesApplied
  <1>5. /\ outbox' \in Seq(Taps)
        /\ \E p \in Nat : Thinned(outbox, outbox', p)
        /\ \A j \in 1..Len(outbox') : outbox'[j] # Current(f)
    BY <1>2, RemovedFromQueue
  <1>6. PICK p \in Nat : Thinned(outbox, outbox', p)
    BY <1>5
  <1> DEFINE pass == [at |-> "next", left |-> Tail(left),
                      completed |-> flushes[f].completed \cup done]
  <1>7. flushes' = [flushes EXCEPT ![f] = pass]
    BY DEF Passed
  <1>8. /\ Tail(left) \in Seq(Taps) /\ Len(Tail(left)) = Len(left) - 1 /\ Head(left) = Current(f)
        /\ \A k \in 1..Len(Tail(left)) : Tail(left)[k] = left[k + 1]
    BY <1>1, <1>2, HeadTailProperties DEF Current
  <1>9. pass \in Pass /\ pass # NoPass
    BY <1>2, <1>8 DEF Pass, NoPass
  <1>10. /\ flushes' \in [Flushes -> Pass] /\ flushes'[f] = pass
         /\ \A g \in Flushes : g # f => flushes'[g] = flushes[g]
    BY <1>7, <1>9 DEF QueueTypeOK
  <1>11. QueueTypeOK'
    BY <1>3, <1>5, <1>10 DEF QueueTypeOK
  <1>12. ASSUME NEW j \in 1..Len(outbox')
         PROVE  \E i \in 1..Len(outbox) : outbox'[j] = outbox[i]
    BY <1>6 DEF Thinned
  <1>13. QueuedOnce'
    <2> SUFFICES ASSUME NEW i \in 1..Len(outbox'), NEW j \in 1..Len(outbox'), outbox'[i] = outbox'[j]
                 PROVE  i = j
      BY DEF QueuedOnce
    <2>1. /\ i < p => outbox'[i] = outbox[i] /\ i \in 1..Len(outbox)
          /\ i >= p => outbox'[i] = outbox[i + 1] /\ i + 1 \in 1..Len(outbox)
          /\ j < p => outbox'[j] = outbox[j] /\ j \in 1..Len(outbox)
          /\ j >= p => outbox'[j] = outbox[j + 1] /\ j + 1 \in 1..Len(outbox)
      BY <1>6 DEF Thinned
    <2> QED BY <2>1 DEF QueuedOnce
  <1>14. ASSUME NEW q, Ordered(q, outbox)
         PROVE  Ordered(q, outbox')
    BY <1>6, <1>14, OrderedThinned
  <1>15. ASSUME NEW g \in Flushes, flushes'[g] # NoPass
         PROVE  /\ Ordered(flushes'[g].left, outbox')
                /\ flushes'[g].at = "waiting" => flushes'[g].left # <<>>
    <2>1. CASE g # f
      <3>1. flushes'[g] = flushes[g]
        BY <1>10, <2>1
      <3> QED BY <1>14, <1>15, <3>1 DEF InQueueOrder, WaitsForOne
    <2>2. CASE g = f
      <3>1. flushes'[g].left = Tail(left) /\ flushes'[g].at = "next"
        BY <1>10, <2>2
      <3>2. Ordered(Tail(left), outbox')
        <4>1. Ordered(left, outbox')
          BY <1>1, <1>14 DEF InQueueOrder
        <4> QED BY <1>1, <1>2, <1>5, <1>8, <4>1, OrderedTail
      <3> QED BY <3>1, <3>2
    <2> QED BY <2>1, <2>2
  <1>16. OnlyQueued'
    <2>1. \A t : IsQueued(t) <=> taps'[t].state = "queued"
      BY <1>3 DEF IsQueued
    <2>2. \A i \in 1..Len(outbox) : IsQueued(outbox[i])
      BY DEF OnlyQueued
    <2>3. \A j \in 1..Len(outbox') : IsQueued(outbox'[j])
      BY <1>12, <2>2
    <2>4. ASSUME NEW g \in Flushes, flushes'[g] # NoPass, NEW k \in 1..Len(flushes'[g].left)
          PROVE  IsQueued(flushes'[g].left[k])
      <3>1. CASE g # f
        BY <1>10, <2>4, <3>1 DEF OnlyQueued
      <3>2. CASE g = f
        <4>1. flushes'[g].left = Tail(left)
          BY <1>10, <3>2
        <4>2. Tail(left)[k] = left[k + 1] /\ k + 1 \in 1..Len(left)
          BY <1>2, <1>8, <4>1
        <4> QED BY <1>1, <4>1, <4>2 DEF OnlyQueued
      <3> QED BY <3>1, <3>2
    <2> QED BY <2>1, <2>3, <2>4 DEF OnlyQueued, IsQueued
  <1>17. WaitsForOne' /\ InQueueOrder'
    BY <1>15 DEF WaitsForOne, InQueueOrder, NoPass
  <1>18. CompletedIsApplied'
    <2>1. \A t \in done : QueuedKey(t) \in applied
      <3>1. calls[CallOf(f)].at = "answered" /\ calls[CallOf(f)] # Server!Idle
        BY DEF ReplayAnswered, Server!Idle
      <3>2. Completes(answer) => calls[CallOf(f)].key \in applied
        BY <1>2, <3>1 DEF Completes, ServerInvariant, SuccessesApplied
      <3>3. calls[CallOf(f)].key = QueuedKey(Current(f))
        BY <1>2, <3>1 DEF ServerInvariant, CallsKeyed
      <3> QED BY <3>2, <3>3
    <2>2. flushes'[f].completed = flushes[f].completed \cup done
      BY <1>10
    <2>3. \A t \in flushes[f].completed : QueuedKey(t) \in applied
      BY <1>1 DEF CompletedIsApplied
    <2> HIDE DEF done
    <2> QED BY <1>3, <1>10, <2>1, <2>2, <2>3 DEF CompletedIsApplied
  <1> QED BY <1>4, <1>11, <1>13, <1>16, <1>17, <1>18

-----------------------------------------------------------------------------
(* Every step. *)

LEMMA ServerStepKeeps ==
  ASSUME OfflineInvariant, ServerInvariant', applied \subseteq applied', UNCHANGED client
  PROVE  OfflineInvariant'
  BY OthersKeepQueue, CompletedStaysApplied DEF OfflineInvariant, client

LEMMA PassStepKeeps ==
  ASSUME OfflineInvariant, NEW f \in Flushes,
         \/ StartFlush(f) \/ Replay(f) \/ ReplayAnswered(f)
         \/ ReplayUnanswered(f) \/ EndFlush(f) \/ ClosePage(f)
  PROVE  OfflineInvariant'
  <1>1. CASE ReplayAnswered(f)
    <2>1. CASE BreaksOff(f) /\ UNCHANGED outbox
      BY <1>1, <2>1, BreaksOffKeeps DEF ReplayAnswered
    <2>2. CASE /\ ~RetryLater(calls[CallOf(f)].answer)
               /\ Passed(f, IF Completes(calls[CallOf(f)].answer) THEN {Current(f)} ELSE {})
               /\ RemoveQueuedMutation(Current(f))
      BY <1>1, <2>2, SettledKeeps
    <2> QED BY <1>1, <2>1, <2>2 DEF ReplayAnswered
  <1>2. CASE ReplayUnanswered(f)
    BY <1>2, BreaksOffKeeps DEF ReplayUnanswered
  <1>3. CASE EndFlush(f) \/ ClosePage(f)
    BY <1>3, StopsKeeps DEF EndFlush, ClosePage
  <1> QED BY <1>1, <1>2, <1>3, StartFlushKeeps, ReplayKeeps

LEMMA CallStepKeeps ==
  ASSUME OfflineInvariant, NEW c \in Calls,
         Begin(c) \/ Run(c) \/ FailLate(c) \/ Refuse(c) \/ Close(c) \/ Break(c) \/ Retire(c)
  PROVE  OfflineInvariant'
  <1>1. applied \subseteq applied' /\ UNCHANGED client
    BY DEF Begin, Run, FailLate, Refuse, Close, Break, Retire, Applies, Undisturbed
  <1>2. ServerInvariant'
    BY BeginKeepsServer, HandlerKeepsServer, CloseKeepsServer, BreakKeepsServer, RetireKeepsServer
       DEF OfflineInvariant
  <1> QED BY <1>1, <1>2, ServerStepKeeps

LEMMA OtherStepKeeps ==
  ASSUME OfflineInvariant, Refresh \/ (\E s \in Statuses : Dispatch(s)) \/ UNCHANGED vars
  PROVE  OfflineInvariant'
  <1>1. UNCHANGED <<records, calls, applied, taps, outbox, flushes>>
    BY DEF Refresh, Dispatch, vars, server
  <1>2. ServerInvariant'
    BY <1>1 DEF OfflineInvariant, ServerInvariant, CallsKeyed, SuccessesApplied
  <1>3. QueueInvariant'
    BY <1>1 DEF OfflineInvariant, QueueInvariant, QueueTypeOK, QueuedOnce, OnlyQueued, IsQueued,
                WaitsForOne, InQueueOrder
  <1> QED BY <1>1, <1>2, <1>3, CompletedStaysApplied DEF OfflineInvariant

LEMMA OfflineStep ==
  ASSUME OfflineInvariant, [Next]_vars
  PROVE  OfflineInvariant'
  <1>1. CASE \E t \in Taps : TapAnswered(t) \/ TapUnanswered(t)
    BY <1>1, TapAnsweredKeeps, TapUnansweredKeeps
  <1>2. CASE \E t \in Taps, s \in WorkflowSteps : TapStatus(t, s)
    BY <1>2, TapStatusKeeps
  <1>3. CASE \E f \in Flushes : \/ StartFlush(f) \/ Replay(f) \/ ReplayAnswered(f)
                                \/ ReplayUnanswered(f) \/ EndFlush(f) \/ ClosePage(f)
    BY <1>3, PassStepKeeps
  <1>4. CASE \E c \in Calls : \/ Begin(c) \/ Run(c) \/ FailLate(c) \/ Refuse(c)
                              \/ Close(c) \/ Break(c) \/ Retire(c)
    BY <1>4, CallStepKeeps
  <1>5. CASE \E k \in Keys : Expire(k)
    <2>1. PICK k \in Keys : Expire(k)
      BY <1>5
    <2>2. UNCHANGED applied /\ UNCHANGED client
      BY <2>1 DEF Expire, Undisturbed
    <2>3. ServerInvariant'
      BY <2>1, ExpireKeepsServer DEF OfflineInvariant
    <2> QED BY <2>2, <2>3, ServerStepKeeps
  <1>6. CASE Refresh \/ (\E s \in Statuses : Dispatch(s)) \/ UNCHANGED vars
    BY <1>6, OtherStepKeeps
  <1> QED BY <1>1, <1>2, <1>3, <1>4, <1>5, <1>6 DEF Next

THEOREM OfflineInvariantHolds == Spec => []OfflineInvariant
  BY OfflineInitially, OfflineStep, PTL DEF Spec

\* What a flush pass reports to the page as completed was applied by the server,
\* whichever calls died, were repeated or were answered from a record.
THEOREM CompletedMutationsAreApplied == Spec => []CompletedIsApplied
  <1>1. OfflineInvariant => CompletedIsApplied
    BY DEF OfflineInvariant
  <1> QED BY <1>1, OfflineInvariantHolds, PTL

-----------------------------------------------------------------------------
(* The order in which the queue is flushed. *)

LEMMA SettledIsFirst ==
  ASSUME QueueInvariant, NEW f \in Flushes, flushes[f].at = "waiting",
         RemoveQueuedMutation(Current(f)), NEW i \in DOMAIN outbox, NEW j \in DOMAIN outbox, i < j
  PROVE  Contains(outbox', outbox[j])
  <1> USE DEF QueueInvariant
  <1>1. flushes[f] # NoPass /\ flushes[f].left # <<>>
    BY DEF NoPass, WaitsForOne
  <1>2. Current(f) \in Taps /\ Current(f) = flushes[f].left[1] /\ 1 \in 1..Len(flushes[f].left)
    BY <1>1, CallsOfPasses
  <1>3. i \in 1..(j - 1) /\ j \in 1..Len(outbox)
    BY DEF QueueTypeOK
  <1>4. outbox[j] # Current(f)
    <2> SUFFICES ASSUME outbox[j] = Current(f) PROVE FALSE
      OBVIOUS
    <2>1. \E l \in 1..(1 - 1) : flushes[f].left[l] = outbox[i]
      BY <1>1, <1>2, <1>3 DEF InQueueOrder, Ordered
    <2> QED BY <2>1
  <1> QED BY <1>2, <1>3, <1>4, RemovedFromQueue DEF Contains

LEMMA StepsFlushInOrder ==
  ASSUME QueueInvariant, [Next]_vars, NEW i \in DOMAIN outbox, NEW j \in DOMAIN outbox, i < j
  PROVE  Contains(outbox', outbox[j])
  <1>1. outbox \in Seq(Taps) /\ j \in 1..Len(outbox)
    BY DEF QueueInvariant, QueueTypeOK
  <1>2. CASE UNCHANGED outbox
    BY <1>1, <1>2 DEF Contains
  <1>3. CASE \E t \in Taps : TapUnanswered(t)
    <2>1. PICK t \in Taps : outbox' = Append(outbox, t)
      BY <1>3 DEF TapUnanswered, QueueMutation
    <2>2. j \in 1..Len(outbox') /\ outbox'[j] = outbox[j]
      BY <1>1, <2>1
    <2> QED BY <2>2 DEF Contains
  <1>4. CASE \E f \in Flushes : flushes[f].at = "waiting" /\ RemoveQueuedMutation(Current(f))
    BY <1>4, SettledIsFirst
  <1>5. \/ UNCHANGED outbox
        \/ \E t \in Taps : TapUnanswered(t)
        \/ \E f \in Flushes : flushes[f].at = "waiting" /\ RemoveQueuedMutation(Current(f))
    BY DEF Next, vars, client, TapStatus, TapAnswered, Refresh, StartFlush, Replay, ReplayAnswered,
           ReplayUnanswered, EndFlush, ClosePage, Stops, Begin, Run, FailLate, Refuse, Close, Break,
           Retire, Expire, Undisturbed, Dispatch
  <1> QED BY <1>2, <1>3, <1>4, <1>5

\* No mutation leaves the queue while one that was queued before it stays there,
\* however the passes overlap, break off and start again.
THEOREM QueueIsFlushedInOrder == Spec => FlushedInOrder
  <1>1. OfflineInvariant /\ [Next]_vars
        => [\A i, j \in DOMAIN outbox :
              i < j /\ Contains(outbox', outbox[i]) => Contains(outbox', outbox[j])]_vars
    BY StepsFlushInOrder DEF OfflineInvariant
  <1> QED BY <1>1, OfflineInvariantHolds, PTL DEF Spec, FlushedInOrder

-----------------------------------------------------------------------------
(* The application is a client of the middleware: what it sends, and what  *)
(* the order's handler does with it, are steps of Idempotency, whose Send  *)
(* may send anything again at any time.                                    *)

LEMMA StepsOfTheServer ==
  ASSUME QueueInvariant, Next
  PROVE  Server!Next \/ UNCHANGED Server!vars
  <1> USE DEF QueueInvariant
  <1>1. ASSUME NEW t \in Taps, NEW s \in WorkflowSteps, TapStatus(t, s)
        PROVE  Server!Next
    <2>1. <<t, "first">> \in Calls /\ FirstKey(t) \in Keys
      BY DEF Calls, Keys, FirstKey
    <2> QED BY <1>1, <2>1 DEF TapStatus, Server!Next
  <1>2. ASSUME NEW f \in Flushes, Replay(f)
        PROVE  Server!Next
    <2>1. flushes[f] # NoPass /\ flushes[f].left # <<>>
      BY <1>2 DEF Replay, NoPass
    <2>2. Current(f) \in Taps /\ CallOf(f) \in Calls /\ IsQueued(Current(f))
      BY <2>1, CallsOfPasses DEF OnlyQueued
    <2>3. QueuedKey(Current(f)) \in Keys
      BY <2>2 DEF Keys, QueuedKey
    <2>4. taps[Current(f)].status \in WorkflowSteps
      BY <2>2 DEF QueueTypeOK, Tap, IsQueued, Untried
    <2> QED BY <1>2, <2>2, <2>3, <2>4 DEF Replay, Server!Next
  <1>3. ASSUME NEW c \in Calls, \/ Begin(c) \/ Run(c) \/ FailLate(c) \/ Refuse(c)
                                \/ Close(c) \/ Break(c) \/ Retire(c)
        PROVE  Server!Next
    BY <1>3 DEF Begin, Run, FailLate, Refuse, Close, Break, Retire, Server!Next, Server!Begin,
                Server!Handle, Server!Close
  <1>4. ASSUME NEW k \in Keys, Expire(k)
        PROVE  Server!Next
    BY <1>4 DEF Expire, Server!Next
  <1>5. ASSUME UNCHANGED server
        PROVE  UNCHANGED Server!vars
    BY <1>5 DEF server, Server!vars
  <1>6. ASSUME NEW t \in Taps, TapAnswered(t) \/ TapUnanswered(t)
        PROVE  UNCHANGED server
    BY <1>6 DEF TapAnswered, TapUnanswered
  <1>7. ASSUME NEW f \in Flushes, \/ StartFlush(f) \/ ReplayAnswered(f) \/ ReplayUnanswered(f)
                                  \/ EndFlush(f) \/ ClosePage(f)
        PROVE  UNCHANGED server
    BY <1>7 DEF StartFlush, ReplayAnswered, ReplayUnanswered, EndFlush, ClosePage, Stops
  <1>8. Refresh \/ (\E s \in Statuses : Dispatch(s)) => UNCHANGED server
    BY DEF Refresh, Dispatch
  <1> QED BY <1>1, <1>2, <1>3, <1>4, <1>5, <1>6, <1>7, <1>8 DEF Next

\* The driver application, its overlapping passes and the server's crashes are an
\* implementation of the middleware's specification.
THEOREM OfflineImplementsIdempotency == Spec => Server!Spec
  <1>1. Init => Server!Init
    BY DEF Init
  <1>2. QueueInvariant /\ [Next]_vars => [Server!Next]_(Server!vars)
    BY StepsOfTheServer DEF vars, Server!vars
  <1>3. OfflineInvariant => QueueInvariant
    BY DEF OfflineInvariant
  <1> QED BY <1>1, <1>2, <1>3, OfflineInvariantHolds, PTL DEF Spec, Server!Spec

(* So what is proved of the middleware for any callers holds of the driver  *)
(* application: it answers every call with a body.                         *)

ServerProofs == INSTANCE IdempotencyProofs WITH Operations <- WorkflowSteps, Bodiless <- {}

\* The module of the proofs speaks of the same middleware.
LEMMA SameServer ==
  /\ Server!Init <=> ServerProofs!Init
  /\ Server!Next <=> ServerProofs!Next
  /\ Server!OneHandlerPerKey <=> ServerProofs!OneHandlerPerKey
  /\ Server!AtMostOnce <=> ServerProofs!AtMostOnce
  /\ Server!SameAnswer <=> ServerProofs!SameAnswer
  BY DEF Server!Missing, ServerProofs!Missing, Server!InProgress, ServerProofs!InProgress,
         Server!Completed, ServerProofs!Completed, Server!Ok, ServerProofs!Ok, Server!Error,
         ServerProofs!Error, Server!Idle, ServerProofs!Idle, Server!At, ServerProofs!At,
         Server!With, ServerProofs!With, Server!Moves, ServerProofs!Moves, Server!Closes,
         ServerProofs!Closes, Server!Answers, ServerProofs!Answers, Server!Send,
         ServerProofs!Send, Server!UnclaimedOrRunning, ServerProofs!UnclaimedOrRunning,
         Server!Unclaimed, ServerProofs!Unclaimed, Server!Claim, ServerProofs!Claim,
         Server!Collide, ServerProofs!Collide, Server!BeginFails, ServerProofs!BeginFails,
         Server!AnswerFrom, ServerProofs!AnswerFrom, Server!LookUp, ServerProofs!LookUp,
         Server!TakesEffect, ServerProofs!TakesEffect, Server!Run, ServerProofs!Run,
         Server!RunBodiless, ServerProofs!RunBodiless, Server!Refuse, ServerProofs!Refuse,
         Server!Fail, ServerProofs!Fail, Server!FailLate, ServerProofs!FailLate, Server!Owned,
         ServerProofs!Owned, Server!Complete, ServerProofs!Complete, Server!CompleteFails,
         ServerProofs!CompleteFails, Server!GivesBack, ServerProofs!GivesBack, Server!Abandon,
         ServerProofs!Abandon, Server!AbandonFails, ServerProofs!AbandonFails, Server!Die,
         ServerProofs!Die, Server!Retire, ServerProofs!Retire, Server!Expire,
         ServerProofs!Expire, Server!Begin, ServerProofs!Begin, Server!Handle,
         ServerProofs!Handle, Server!Close, ServerProofs!Close, Server!Next, ServerProofs!Next,
         Server!Init, ServerProofs!Init, Server!vars, ServerProofs!vars, Server!AtMostOnce,
         ServerProofs!AtMostOnce, Server!Working, ServerProofs!Working,
         Server!OneHandlerPerKey, ServerProofs!OneHandlerPerKey, Server!SameAnswer,
         ServerProofs!SameAnswer

\* However a driver's status updates are repeated, by the client, by overlapping passes
\* or after a crash: one handler of a key works at a time, each update takes effect once
\* more than its handler failed after the transaction and no oftener, what is answered as
\* a success is always the same, and an update that was stored as one is not made again.
THEOREM DriversUpdatesAreServed ==
  Spec => /\ []Server!OneHandlerPerKey
          /\ []Server!AtMostOnce
          /\ []Server!SameAnswer
          /\ Server!SuccessIsFinal
  <1> DEFINE Final == \A k \in Keys :
               records[k].status = "COMPLETED" /\ records'[k] # Server!Missing
                 => runs'[k] = runs[k] /\ records'[k] = records[k]
  <1>1. ServerProofs!Spec => /\ []ServerProofs!OneHandlerPerKey /\ []ServerProofs!AtMostOnce
                             /\ []ServerProofs!SameAnswer /\ ServerProofs!SuccessIsFinal
    BY ServerProofs!HandlersExclude, ServerProofs!EffectAtMostOnce, ServerProofs!AnswersAgree,
       ServerProofs!SuccessStands, MaxFaultsAssumption
  <1>2. [Server!Next]_(Server!vars) => [ServerProofs!Next]_(ServerProofs!vars)
    BY SameServer DEF Server!vars, ServerProofs!vars
  <1>3. [\A k \in Keys : records[k].status = "COMPLETED" /\ records'[k] # ServerProofs!Missing
                 => runs'[k] = runs[k] /\ records'[k] = records[k]]_(ServerProofs!vars)
          => [Final]_(Server!vars)
    BY DEF Server!vars, ServerProofs!vars, Server!Missing, ServerProofs!Missing
  <1> HIDE DEF Final
  <1>4. [][Final]_(Server!vars) => Server!SuccessIsFinal
    BY PTL DEF Final, Server!SuccessIsFinal
  <1>5. ServerProofs!SuccessIsFinal => [][Final]_(Server!vars)
    BY <1>3, PTL DEF ServerProofs!SuccessIsFinal
  <1> QED BY <1>1, <1>2, <1>4, <1>5, SameServer, OfflineImplementsIdempotency, PTL
          DEF Server!Spec, ServerProofs!Spec
=============================================================================
