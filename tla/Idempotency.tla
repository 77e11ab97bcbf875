---------------------------- MODULE Idempotency ----------------------------
(***************************************************************************)
(* The middleware every mutating request passes (enforceIdempotency) and   *)
(* the record it keeps for each Idempotency-Key.  The record is put before *)
(* the handler runs; a second call of the key finds it and is answered     *)
(* from it or refused.  A success is stored for replay, any other answer   *)
(* gives the key back.  Calls overlap, and one can die between any two of  *)
(* its writes; what it put then stays until the record expires.            *)
(***************************************************************************)
EXTENDS Integers

CONSTANTS
  Calls,         (* HTTP calls that may be in flight at the same time      *)
  Keys,          (* a caller's identity together with an Idempotency-Key   *)
  Operations,    (* fingerprints: a method, a path and a body              *)
  Bodiless,      (* the operations that answer without a body              *)
  MaxRuns        (* bound: a key's operation takes effect this many times  *)

ASSUME BodilessAssumption == Bodiless \subseteq Operations
ASSUME MaxRunsAssumption == MaxRuns \in Nat

VARIABLES
  records,  (* IDEMPOTENCY#<key> REQUEST                                   *)
  calls,    (* how far each call has come                                  *)
  runs,     (* history: how often a key's operation has taken effect       *)
  late      (* history: how often it did under a handler that then failed  *)

vars == <<records, calls, runs, late>>
-----------------------------------------------------------------------------
Missing == [status |-> "MISSING"]
InProgress(op) == [status |-> "IN_PROGRESS", fingerprint |-> op]
Completed(op, run) == [status |-> "COMPLETED", fingerprint |-> op, run |-> run]

Record == {Missing} \cup {InProgress(op) : op \in Operations}
          \cup [status : {"COMPLETED"}, fingerprint : Operations, run : Nat]

\* A successful answer describes the run it belongs to.
Ok(run) == [kind |-> "ok", run |-> run]
Error(kind) == [kind |-> kind]

\* 4xx of the handler, 5xx, and the three 409s of the middleware.
Errors == {"refused", "failed", "keyReused", "inProgress", "retry"}
Answer == [kind : {"ok"}, run : Nat] \cup {Error(kind) : kind \in Errors}

Idle == [at |-> "idle"]
At(place, call) == [at |-> place, key |-> call.key, op |-> call.op]
With(place, call, answer) ==
  [at |-> place, key |-> call.key, op |-> call.op, answer |-> answer]

Call == {Idle}
        \cup [at : {"sent", "colliding", "handling", "dead"}, key : Keys, op : Operations]
        \cup [at : {"closing", "answered"}, key : Keys, op : Operations, answer : Answer]

Moves(c, place) == calls' = [calls EXCEPT ![c] = At(place, @)]
Closes(c, answer) == calls' = [calls EXCEPT ![c] = With("closing", @, answer)]
Answers(c, answer) == calls' = [calls EXCEPT ![c] = With("answered", @, answer)]

Init ==
  /\ records = [k \in Keys |-> Missing]
  /\ calls = [c \in Calls |-> Idle]
  /\ runs = [k \in Keys |-> 0]
  /\ late = [k \in Keys |-> 0]

\* A client may send anything again at any time.
Send(c, k, op) ==
  /\ calls[c] = Idle
  /\ calls' = [calls EXCEPT ![c] = [at |-> "sent", key |-> k, op |-> op]]
  /\ UNCHANGED <<records, runs, late>>

(* begin: a conditional put, *)

\* Fault: a record in progress does not stop the put.
UnclaimedOrRunning(k) == records[k].status # "COMPLETED"

Unclaimed(k) == records[k] = Missing

Claim(c) ==
  /\ calls[c].at = "sent"
  /\ Unclaimed(calls[c].key)
  /\ records' = [records EXCEPT ![calls[c].key] = InProgress(calls[c].op)]
  /\ Moves(c, "handling")
  /\ UNCHANGED <<runs, late>>

Collide(c) ==
  /\ calls[c].at = "sent"
  /\ ~Unclaimed(calls[c].key)
  /\ Moves(c, "colliding")
  /\ UNCHANGED <<records, runs, late>>

\* The put fails, or went in although its caller was told otherwise.
BeginFails(c) ==
  LET k == calls[c].key IN
  /\ calls[c].at = "sent"
  /\ \/ UNCHANGED records
     \/ Unclaimed(k) /\ records' = [records EXCEPT ![k] = InProgress(calls[c].op)]
  /\ Answers(c, Error("failed"))
  /\ UNCHANGED <<runs, late>>

(* and, when it is refused, a read of what is there by then. *)

\* Fault: the fingerprints are not compared.
AnswerFromAny(record, op) ==
  IF record = Missing THEN Error("retry")
  ELSE IF record.status = "COMPLETED" THEN Ok(record.run)
  ELSE Error("inProgress")

AnswerFrom(record, op) ==
  IF record = Missing THEN Error("retry")
  ELSE IF record.fingerprint # op THEN Error("keyReused")
  ELSE IF record.status = "COMPLETED" THEN Ok(record.run)
  ELSE Error("inProgress")

LookUp(c) ==
  /\ calls[c].at = "colliding"
  /\ Answers(c, AnswerFrom(records[calls[c].key], calls[c].op))
  /\ UNCHANGED <<records, runs, late>>
-----------------------------------------------------------------------------
(* The handler: its transaction goes in or not, and it answers. *)

TakesEffect(k) ==
  /\ runs[k] < MaxRuns
  /\ runs' = [runs EXCEPT ![k] = @ + 1]

Run(c) ==
  /\ calls[c].at = "handling"
  /\ calls[c].op \notin Bodiless
  /\ TakesEffect(calls[c].key)
  /\ Closes(c, Ok(runs[calls[c].key] + 1))
  /\ UNCHANGED <<records, late>>

\* sendEmpty answers with response.send, past the wrapped response.json: the
\* record is neither completed nor given back.
RunBodiless(c) ==
  /\ calls[c].at = "handling"
  /\ calls[c].op \in Bodiless
  /\ TakesEffect(calls[c].key)
  /\ Answers(c, Ok(runs[calls[c].key] + 1))
  /\ UNCHANGED <<records, late>>

Refuse(c) ==
  /\ calls[c].at = "handling"
  /\ Closes(c, Error("refused"))
  /\ UNCHANGED <<records, runs, late>>

Fail(c) ==
  /\ calls[c].at = "handling"
  /\ Closes(c, Error("failed"))
  /\ UNCHANGED <<records, runs, late>>

\* UpdateOrderStatusUseCase, for one, reads the order again after its
\* transaction, and answers 500 when that read fails.
FailLate(c) ==
  /\ calls[c].at = "handling"
  /\ TakesEffect(calls[c].key)
  /\ late' = [late EXCEPT ![calls[c].key] = @ + 1]
  /\ Closes(c, Error("failed"))
  /\ UNCHANGED records
-----------------------------------------------------------------------------
(* The wrapped response.json: complete or abandon, then the answer. *)

Owned(c) == records[calls[c].key] = InProgress(calls[c].op)

Complete(c) ==
  LET answer == calls[c].answer IN
  /\ calls[c].at = "closing"
  /\ answer.kind = "ok"
  /\ Owned(c)
  /\ records' = [records EXCEPT ![calls[c].key] = Completed(calls[c].op, answer.run)]
  /\ Answers(c, answer)
  /\ UNCHANGED <<runs, late>>

\* The update fails, or the body is over 300 kB, or only the update's own
\* answer is lost: the caller gets a 500 from the error handler, and unless
\* the update went in the record stays in progress.
CompleteFails(c) ==
  LET k == calls[c].key IN
  /\ calls[c].at = "closing"
  /\ calls[c].answer.kind = "ok"
  /\ \/ UNCHANGED records
     \/ /\ Owned(c)
        /\ records' = [records EXCEPT ![k] = Completed(calls[c].op, calls[c].answer.run)]
  /\ Answers(c, Error("failed"))
  /\ UNCHANGED <<runs, late>>

\* Fault: a success gives the key back like any other answer.
GivesBackAlways(answer) == TRUE

GivesBack(answer) == answer.kind # "ok"

Abandon(c) ==
  LET answer == calls[c].answer IN
  /\ calls[c].at = "closing"
  /\ GivesBack(answer)
  /\ Owned(c)
  /\ records' = [records EXCEPT ![calls[c].key] = Missing]
  /\ Answers(c, answer)
  /\ UNCHANGED <<runs, late>>

AbandonFails(c) ==
  LET answer == calls[c].answer IN
  /\ calls[c].at = "closing"
  /\ GivesBack(answer)
  /\ Answers(c, answer)
  /\ UNCHANGED <<records, runs, late>>
-----------------------------------------------------------------------------
\* The process dies: nobody is answered and nothing is cleaned up.
Die(c) ==
  /\ calls[c].at \in {"sent", "colliding", "handling", "closing"}
  /\ Moves(c, "dead")
  /\ UNCHANGED <<records, runs, late>>

Retire(c) ==
  /\ calls[c].at \in {"answered", "dead"}
  /\ calls' = [calls EXCEPT ![c] = Idle]
  /\ UNCHANGED <<records, runs, late>>

\* expiresAt has passed, a day after the put: the calls of the key are over,
\* and the counting starts again.
Expire(k) ==
  /\ records[k] # Missing
  /\ \A c \in Calls : calls[c] # Idle => calls[c].key # k
  /\ records' = [records EXCEPT ![k] = Missing]
  /\ runs' = [runs EXCEPT ![k] = 0]
  /\ late' = [late EXCEPT ![k] = 0]
  /\ UNCHANGED calls

Begin(c) == Claim(c) \/ Collide(c) \/ BeginFails(c) \/ LookUp(c)
Handle(c) == Run(c) \/ RunBodiless(c) \/ Refuse(c) \/ Fail(c) \/ FailLate(c)
Close(c) == Complete(c) \/ CompleteFails(c) \/ Abandon(c) \/ AbandonFails(c)

Next ==
  \/ \E c \in Calls, k \in Keys, op \in Operations : Send(c, k, op)
  \/ \E c \in Calls : Begin(c) \/ Handle(c) \/ Close(c) \/ Die(c) \/ Retire(c)
  \/ \E k \in Keys : Expire(k)

Spec == Init /\ [][Next]_vars
-----------------------------------------------------------------------------
(* Properties *)

TypeOK ==
  /\ records \in [Keys -> Record]
  /\ calls \in [Calls -> Call]
  /\ runs \in [Keys -> Nat] /\ late \in [Keys -> Nat]

Working(c) == calls[c].at \in {"handling", "closing"}

\* Between the put of begin and the write of complete or abandon a key belongs
\* to one call, whose fingerprint is in the record: no second handler of the
\* key runs beside it, whoever else collides, gives up or dies.
OneHandlerPerKey ==
  \A c \in Calls : Working(c) =>
    /\ Owned(c)
    /\ \A d \in Calls : Working(d) /\ calls[d].key = calls[c].key => d = c

\* While its key's record is kept, an operation takes effect once more than its
\* handler has failed after the transaction, and no oftener: retries, dead
\* processes and failed completions do not repeat it.
AtMostOnce == \A k \in Keys : runs[k] <= late[k] + 1

\* Once a success has been stored, the
\* operation does not take effect again, and the stored answer never changes,
\* before the record expires.
SuccessIsFinal ==
  [][\A k \in Keys :
       records[k].status = "COMPLETED" /\ records'[k] # Missing
         => runs'[k] = runs[k] /\ records'[k] = records[k]]_vars

\* Two successful answers under one key are for the same operation and describe
\* the same run: a replay is the original answer and no other's.
SameAnswer ==
  \A c, d \in Calls :
    /\ calls[c].at = "answered" /\ calls[d].at = "answered"
    /\ calls[c].key = calls[d].key
    /\ calls[c].answer.kind = "ok" /\ calls[d].answer.kind = "ok"
    => calls[c].op = calls[d].op /\ calls[c].answer.run = calls[d].answer.run

\* A call that repeats one whose success is known to its caller is answered with
\* that success, never with an operation in progress or a changed record.
Replayed(ops) ==
  \A c, d \in Calls :
    /\ calls[c].at = "colliding" /\ calls'[c].at = "answered"
    /\ calls[d].at = "answered" /\ calls[d].answer.kind = "ok"
    /\ calls[d].key = calls[c].key /\ calls[d].op = calls[c].op
    /\ calls[c].op \in ops
    => calls'[c].answer.kind = "ok"

\* Every success that has a body is replayed to the calls that repeat it, however
\* they overlap with the calls that died, failed or collided before.
BodyIsReplayed == [][Replayed(Operations \ Bodiless)]_vars
=============================================================================
