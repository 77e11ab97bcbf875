------------------------- MODULE IdempotencyProofs -------------------------
(***************************************************************************)
(* Proofs about Idempotency for any calls, keys and operations.  A key in  *)
(* the hands of a handler is in the table as IN_PROGRESS with the          *)
(* handler's fingerprint, which no other call can change; the rest follows *)
(* from that.                                                              *)
(***************************************************************************)
EXTENDS Idempotency, TLAPS

Succeeded(c) == calls[c].at = "answered" /\ calls[c].answer.kind = "ok"

\* A successful answer that was given is the one stored.
AnswersStored ==
  \A c \in Calls : Succeeded(c) /\ calls[c].op \notin Bodiless =>
    records[calls[c].key] = Completed(calls[c].op, calls[c].answer.run)

\* One without a body is not stored,
BodilessNotStored ==
  /\ \A k \in Keys : records[k].status = "COMPLETED" => records[k].fingerprint \notin Bodiless
  /\ \A c \in Calls : calls[c].at = "closing" /\ calls[c].answer.kind = "ok"
       => calls[c].op \notin Bodiless

\* and its record keeps others out.
BodilessHeld ==
  \A c \in Calls : Succeeded(c) /\ calls[c].op \in Bodiless =>
    /\ records[calls[c].key] = InProgress(calls[c].op)
    /\ runs[calls[c].key] = calls[c].answer.run
    /\ \A d \in Calls : Working(d) => calls[d].key # calls[c].key

\* What has taken effect under a handler that did not fail has a record, and no
\* handler that has yet to run.
CountedOnce ==
  /\ \A k \in Keys : \/ runs[k] = late[k]
                     \/ runs[k] = late[k] + 1 /\ records[k] # Missing
  /\ \A c \in Calls : Working(c) /\ (calls[c].at = "closing" => calls[c].answer.kind # "ok")
       => runs[calls[c].key] = late[calls[c].key]

Invariant ==
  TypeOK /\ OneHandlerPerKey /\ AnswersStored /\ BodilessNotStored /\ BodilessHeld

LEMMA AnswersTyped ==
  /\ \A kind \in Errors : Error(kind) \in Answer /\ Error(kind).kind # "ok"
  /\ \A run \in Nat : Ok(run) \in Answer
  /\ \A op \in Operations : InProgress(op) \in Record
  /\ \A op \in Operations, run \in Nat : Completed(op, run) \in Record
  /\ Missing \in Record
  BY DEF Errors, Error, Answer, Ok, InProgress, Completed, Record, Missing

LEMMA LookUpTyped ==
  ASSUME NEW record \in Record, NEW op \in Operations
  PROVE  AnswerFrom(record, op) \in Answer
  <1>1. CASE record = Missing
    BY <1>1, AnswersTyped DEF AnswerFrom, Errors
  <1>2. CASE record # Missing /\ record.fingerprint # op
    BY <1>2, AnswersTyped DEF AnswerFrom, Errors
  <1>3. CASE record # Missing /\ record.fingerprint = op /\ record.status = "COMPLETED"
    <2>1. record.run \in Nat
      BY <1>3 DEF Record, Missing, InProgress
    <2> QED BY <1>3, <2>1, AnswersTyped DEF AnswerFrom
  <1>4. CASE record # Missing /\ record.fingerprint = op /\ record.status # "COMPLETED"
    BY <1>4, AnswersTyped DEF AnswerFrom, Errors
  <1> QED BY <1>1, <1>2, <1>3, <1>4

\* The shape of a call follows from where it is.
LEMMA CallShapes ==
  ASSUME TypeOK, NEW c \in Calls
  PROVE  /\ calls[c] # Idle => calls[c].key \in Keys /\ calls[c].op \in Operations
         /\ calls[c].at \in {"closing", "answered"} => calls[c].answer \in Answer
         /\ calls[c] = Idle <=> calls[c].at = "idle"
  BY DEF TypeOK, Call, Idle

LEMMA MovesTyped ==
  ASSUME TypeOK, NEW c \in Calls, calls[c] # Idle
  PROVE  /\ \A place \in {"sent", "colliding", "handling", "dead"} :
              Moves(c, place) => calls' \in [Calls -> Call]
         /\ \A answer \in Answer :
              Closes(c, answer) \/ Answers(c, answer) => calls' \in [Calls -> Call]
  <1>1. calls \in [Calls -> Call] /\ calls[c].key \in Keys /\ calls[c].op \in Operations
    BY CallShapes DEF TypeOK
  <1>2. ASSUME NEW place \in {"sent", "colliding", "handling", "dead"}
        PROVE  At(place, calls[c]) \in Call
    BY <1>1 DEF At, Call
  <1>3. ASSUME NEW place \in {"closing", "answered"}, NEW answer \in Answer
        PROVE  With(place, calls[c], answer) \in Call
    BY <1>1 DEF With, Call
  <1>4. QED BY <1>1, <1>2, <1>3 DEF Moves, Closes, Answers

LEMMA TypeStep == TypeOK /\ [Next]_vars => TypeOK'
  <1> SUFFICES ASSUME TypeOK, [Next]_vars PROVE TypeOK'
    OBVIOUS
  <1> USE AnswersTyped, CallShapes, MovesTyped
  <1>1. ASSUME NEW c \in Calls, NEW k \in Keys, NEW op \in Operations, Send(c, k, op)
        PROVE  TypeOK'
    BY <1>1 DEF Send, TypeOK, Call
  <1>2. ASSUME NEW c \in Calls, Claim(c) PROVE TypeOK'
    BY <1>2 DEF Claim, TypeOK
  <1>3. ASSUME NEW c \in Calls, Collide(c) PROVE TypeOK'
    BY <1>3 DEF Collide, TypeOK
  <1>4. ASSUME NEW c \in Calls, BeginFails(c) PROVE TypeOK'
    <2>1. Error("failed") \in Answer
      BY DEF Errors
    <2> QED BY <1>4, <2>1 DEF BeginFails, TypeOK
  <1>5. ASSUME NEW c \in Calls, LookUp(c) PROVE TypeOK'
    <2>1. AnswerFrom(records[calls[c].key], calls[c].op) \in Answer
      BY <1>5, LookUpTyped DEF LookUp, TypeOK
    <2> QED BY <1>5, <2>1 DEF LookUp, TypeOK
  <1>6. ASSUME NEW c \in Calls, Handle(c) PROVE TypeOK'
    <2>1. /\ calls[c] # Idle /\ runs[calls[c].key] \in Nat
          /\ runs' \in [Keys -> Nat] /\ late' \in [Keys -> Nat]
      BY <1>6 DEF Handle, Run, RunBodiless, Refuse, Fail, FailLate, TakesEffect, TypeOK
    <2>2. \E answer \in Answer : Closes(c, answer) \/ Answers(c, answer)
      BY <1>6, <2>1 DEF Handle, Run, RunBodiless, Refuse, Fail, FailLate, Errors
    <2> QED BY <1>6, <2>1, <2>2 DEF Handle, Run, RunBodiless, Refuse, Fail, FailLate, TypeOK
  <1>7. ASSUME NEW c \in Calls, Close(c) PROVE TypeOK'
    <2>1. calls[c] # Idle /\ calls[c].answer \in Answer
      BY <1>7 DEF Close, Complete, CompleteFails, Abandon, AbandonFails
    <2>2. \E answer \in Answer : Answers(c, answer)
      BY <1>7, <2>1 DEF Close, Complete, CompleteFails, Abandon, AbandonFails, Errors
    <2>3. calls[c].answer.kind = "ok" => calls[c].answer.run \in Nat
      BY <2>1 DEF Answer, Error, Errors
    <2> QED BY <1>7, <2>1, <2>2, <2>3 DEF Close, Complete, CompleteFails, Abandon,
            AbandonFails, TypeOK
  <1>8. ASSUME NEW c \in Calls, Die(c) \/ Retire(c) PROVE TypeOK'
    BY <1>8 DEF Die, Retire, TypeOK, Call
  <1>9. ASSUME NEW k \in Keys, Expire(k) PROVE TypeOK'
    BY <1>9 DEF Expire, TypeOK
  <1>10. CASE UNCHANGED vars
    BY <1>10 DEF vars, TypeOK
  <1> QED BY <1>1, <1>2, <1>3, <1>4, <1>5, <1>6, <1>7, <1>8, <1>9, <1>10 DEF Next, Begin

\* Every reachable state of the records and the calls is well typed.
THEOREM TypeCorrect == Spec => []TypeOK
  <1>1. Init => TypeOK
    BY AnswersTyped DEF Init, TypeOK, Call
  <1> QED BY <1>1, TypeStep, PTL DEF Spec
-----------------------------------------------------------------------------
LEMMA ReplaysAreStored ==
  ASSUME NEW record \in Record, NEW op \in Operations, AnswerFrom(record, op).kind = "ok"
  PROVE  record = Completed(op, AnswerFrom(record, op).run)
  <1>1. Error("retry").kind # "ok" /\ Error("keyReused").kind # "ok"
        /\ Error("inProgress").kind # "ok"
    BY DEF Error
  <1>2. record # Missing /\ record.fingerprint = op /\ record.status = "COMPLETED"
    BY <1>1 DEF AnswerFrom
  <1>3. AnswerFrom(record, op).run = record.run
    BY <1>2 DEF AnswerFrom, Ok
  <1>4. record \in [status : {"COMPLETED"}, fingerprint : Operations, run : Nat]
    BY <1>2 DEF Record, InProgress
  <1> QED BY <1>2, <1>3, <1>4 DEF Completed

LEMMA RecordsDiffer ==
  /\ \A op : InProgress(op) # Missing /\ InProgress(op).status = "IN_PROGRESS"
  /\ \A op, run : Completed(op, run) # Missing /\ Completed(op, run).status = "COMPLETED"
  /\ \A op, p, run : Completed(op, run) # InProgress(p)
  <1>1. /\ Missing.status = "MISSING"
        /\ \A op : InProgress(op).status = "IN_PROGRESS"
        /\ \A op, run : Completed(op, run).status = "COMPLETED"
    BY DEF Missing, InProgress, Completed
  <1> QED BY <1>1

LEMMA HandlerStep == Invariant /\ [Next]_vars => OneHandlerPerKey'
  <1> SUFFICES ASSUME Invariant, [Next]_vars PROVE OneHandlerPerKey'
    OBVIOUS
  <1> USE CallShapes DEF Invariant, OneHandlerPerKey, Working, Owned
  <1>1. ASSUME NEW c \in Calls, NEW k \in Keys, NEW op \in Operations, Send(c, k, op)
        PROVE  OneHandlerPerKey'
    BY <1>1 DEF Send, TypeOK
  <1>2. ASSUME NEW c \in Calls, Claim(c) PROVE OneHandlerPerKey'
    <2>1. \A d \in Calls : Working(d) => calls[d].key # calls[c].key
      BY <1>2, RecordsDiffer DEF Claim, Unclaimed
    <2>2. /\ calls[c].key \in Keys
          /\ calls' = [calls EXCEPT ![c] = [at |-> "handling", key |-> calls[c].key,
                                            op |-> calls[c].op]]
          /\ records' = [records EXCEPT ![calls[c].key] = InProgress(calls[c].op)]
      BY <1>2 DEF Claim, Moves, At
    <2>3. /\ calls'[c].at = "handling"
          /\ calls'[c].key = calls[c].key /\ calls'[c].op = calls[c].op
          /\ \A d \in Calls : d # c => calls'[d] = calls[d]
      BY <2>2 DEF TypeOK
    <2>4. \A d \in Calls : Working(d)' /\ d # c =>
            Working(d) /\ calls[d].key \in Keys /\ records'[calls[d].key] = records[calls[d].key]
      BY <2>1, <2>2, <2>3 DEF TypeOK, Idle
    <2>5. Owned(c)'
      BY <2>2, <2>3 DEF TypeOK
    <2>6. ASSUME NEW d \in Calls, d # c, Working(d)'
          PROVE  Owned(d)' /\ calls'[d].key # calls'[c].key
      BY <2>1, <2>3, <2>4, <2>6
    <2>7. ASSUME NEW d \in Calls, d # c, Working(d)',
                 NEW e \in Calls, e # c, Working(e)', calls'[d].key = calls'[e].key
          PROVE  d = e
      BY <2>3, <2>4, <2>7
    <2> QED BY <2>3, <2>5, <2>6, <2>7
  <1>3. ASSUME NEW c \in Calls, Collide(c) \/ LookUp(c) PROVE OneHandlerPerKey'
    BY <1>3 DEF Collide, LookUp, Moves, Answers, At, With, TypeOK
  <1>4. ASSUME NEW c \in Calls, BeginFails(c) PROVE OneHandlerPerKey'
    BY <1>4, RecordsDiffer DEF BeginFails, Unclaimed, Answers, With, TypeOK
  <1>5. ASSUME NEW c \in Calls, Handle(c) PROVE OneHandlerPerKey'
    <2>1. CASE RunBodiless(c)
      BY <2>1 DEF RunBodiless, Answers, With, TypeOK
    <2>2. CASE ~RunBodiless(c)
      BY <1>5, <2>2 DEF Handle, Run, Refuse, Fail, FailLate, Closes, With, TypeOK
    <2> QED BY <2>1, <2>2
  <1>6. ASSUME NEW c \in Calls, Close(c) PROVE OneHandlerPerKey'
    BY <1>6 DEF Close, Complete, CompleteFails, Abandon, AbandonFails, Answers, With, TypeOK
  <1>7. ASSUME NEW c \in Calls, Die(c) \/ Retire(c) PROVE OneHandlerPerKey'
    BY <1>7 DEF Die, Retire, Moves, At, TypeOK, Idle
  <1>8. ASSUME NEW k \in Keys, Expire(k) PROVE OneHandlerPerKey'
    BY <1>8 DEF Expire, TypeOK, Idle
  <1>9. CASE UNCHANGED vars
    BY <1>9 DEF vars
  <1> QED BY <1>1, <1>2, <1>3, <1>4, <1>5, <1>6, <1>7, <1>8, <1>9 DEF Next, Begin

LEMMA AnswersStoredStep == Invariant /\ [Next]_vars => AnswersStored'
  <1> SUFFICES ASSUME Invariant, [Next]_vars PROVE AnswersStored'
    OBVIOUS
  <1> USE CallShapes DEF Invariant, AnswersStored, Succeeded
  <1>1. ASSUME NEW c \in Calls, NEW k \in Keys, NEW op \in Operations, Send(c, k, op)
        PROVE  AnswersStored'
    BY <1>1 DEF Send, TypeOK
  <1>2. ASSUME NEW c \in Calls, Claim(c) PROVE AnswersStored'
    BY <1>2, RecordsDiffer DEF Claim, Unclaimed, Moves, At, TypeOK
  <1>3. ASSUME NEW c \in Calls, Collide(c) \/ Die(c) PROVE AnswersStored'
    BY <1>3 DEF Collide, Die, Moves, At, TypeOK
  <1>4. ASSUME NEW c \in Calls, BeginFails(c) PROVE AnswersStored'
    BY <1>4, RecordsDiffer DEF BeginFails, Unclaimed, Answers, With, Error, TypeOK
  <1>5. ASSUME NEW c \in Calls, LookUp(c) PROVE AnswersStored'
    <2> DEFINE record == records[calls[c].key]
               op == calls[c].op
    <2>1. record \in Record /\ op \in Operations
      BY <1>5 DEF LookUp, TypeOK
    <2>2. AnswerFrom(record, op).kind = "ok" => record = Completed(op, AnswerFrom(record, op).run)
      BY <2>1, ReplaysAreStored
    <2> QED BY <1>5, <2>2 DEF LookUp, Answers, With, TypeOK
  <1>6. ASSUME NEW c \in Calls, Handle(c) PROVE AnswersStored'
    <2>1. CASE RunBodiless(c)
      BY <2>1 DEF RunBodiless, Answers, With, TypeOK
    <2> QED BY <1>6, <2>1 DEF Handle, Run, Refuse, Fail, FailLate, Closes, With, TypeOK
  <1>7. ASSUME NEW c \in Calls, Close(c) PROVE AnswersStored'
    <2>1. \A d \in Calls : Succeeded(d) /\ calls[d].op \notin Bodiless /\ Owned(c)
            => calls[d].key # calls[c].key
      BY RecordsDiffer DEF Owned
    <2>2. calls[c].key \in Keys /\ calls[c] # Idle
      BY <1>7 DEF Close, Complete, CompleteFails, Abandon, AbandonFails
    <2>3. CASE Complete(c)
      BY <2>1, <2>2, <2>3 DEF Complete, Answers, With, TypeOK
    <2>4. CASE CompleteFails(c)
      BY <2>1, <2>2, <2>4 DEF CompleteFails, Answers, With, Error, TypeOK
    <2>5. CASE Abandon(c) \/ AbandonFails(c)
      BY <2>1, <2>2, <2>5 DEF Abandon, AbandonFails, GivesBack, Answers, With, TypeOK
    <2> QED BY <1>7, <2>3, <2>4, <2>5 DEF Close
  <1>8. ASSUME NEW c \in Calls, Retire(c) PROVE AnswersStored'
    BY <1>8 DEF Retire, TypeOK, Idle
  <1>9. ASSUME NEW k \in Keys, Expire(k) PROVE AnswersStored'
    BY <1>9 DEF Expire, TypeOK, Idle
  <1>10. CASE UNCHANGED vars
    BY <1>10 DEF vars
  <1> QED BY <1>1, <1>2, <1>3, <1>4, <1>5, <1>6, <1>7, <1>8, <1>9, <1>10 DEF Next, Begin

LEMMA NotStoredStep == Invariant /\ [Next]_vars => BodilessNotStored'
  <1> SUFFICES ASSUME Invariant, [Next]_vars PROVE BodilessNotStored'
    OBVIOUS
  <1> USE CallShapes DEF Invariant, BodilessNotStored
  <1>1. ASSUME NEW c \in Calls, NEW k \in Keys, NEW op \in Operations, Send(c, k, op)
        PROVE  BodilessNotStored'
    BY <1>1 DEF Send, TypeOK
  <1>2. ASSUME NEW c \in Calls, Claim(c) \/ Collide(c) PROVE BodilessNotStored'
    BY <1>2, RecordsDiffer DEF Claim, Collide, Moves, At, TypeOK
  <1>3. ASSUME NEW c \in Calls, BeginFails(c) \/ LookUp(c) PROVE BodilessNotStored'
    BY <1>3, RecordsDiffer DEF BeginFails, LookUp, Answers, With, TypeOK
  <1>4. ASSUME NEW c \in Calls, Handle(c) PROVE BodilessNotStored'
    <2>1. calls[c] # Idle /\ records' = records
      BY <1>4 DEF Handle, Run, RunBodiless, Refuse, Fail, FailLate
    <2>2. CASE Run(c)
      BY <2>1, <2>2 DEF Run, Closes, With, TypeOK
    <2>3. CASE RunBodiless(c)
      BY <2>1, <2>3 DEF RunBodiless, Answers, With, TypeOK
    <2>4. CASE Refuse(c) \/ Fail(c) \/ FailLate(c)
      BY <2>1, <2>4 DEF Refuse, Fail, FailLate, Closes, With, Error, TypeOK
    <2> QED BY <1>4, <2>2, <2>3, <2>4 DEF Handle
  <1>5. ASSUME NEW c \in Calls, Close(c) PROVE BodilessNotStored'
    <2>1. /\ calls[c] # Idle
          /\ \A d \in Calls : calls'[d].at = "closing" => calls'[d] = calls[d]
      BY <1>5 DEF Close, Complete, CompleteFails, Abandon, AbandonFails, Answers, With, TypeOK
    <2>2. CASE records' = records
      BY <2>1, <2>2
    <2>3. CASE records' = [records EXCEPT ![calls[c].key] = Missing]
      BY <2>1, <2>3 DEF Missing, TypeOK
    <2>4. CASE /\ calls[c].at = "closing" /\ calls[c].answer.kind = "ok"
               /\ records' = [records EXCEPT ![calls[c].key] =
                               Completed(calls[c].op, calls[c].answer.run)]
      BY <2>1, <2>4 DEF Completed, TypeOK
    <2> QED BY <1>5, <2>2, <2>3, <2>4 DEF Close, Complete, CompleteFails, Abandon, AbandonFails
  <1>6. ASSUME NEW c \in Calls, Die(c) \/ Retire(c) PROVE BodilessNotStored'
    BY <1>6 DEF Die, Retire, Moves, At, TypeOK, Idle
  <1>7. ASSUME NEW k \in Keys, Expire(k) PROVE BodilessNotStored'
    BY <1>7 DEF Expire, Missing, TypeOK
  <1>8. CASE UNCHANGED vars
    BY <1>8 DEF vars
  <1> QED BY <1>1, <1>2, <1>3, <1>4, <1>5, <1>6, <1>7, <1>8 DEF Next, Begin

LEMMA BodilessHeldStep == Invariant /\ [Next]_vars => BodilessHeld'
  <1> SUFFICES ASSUME Invariant, [Next]_vars PROVE BodilessHeld'
    OBVIOUS
  <1> USE CallShapes DEF Invariant, BodilessHeld, Succeeded, Working
  <1>1. ASSUME NEW c \in Calls, NEW k \in Keys, NEW op \in Operations, Send(c, k, op)
        PROVE  BodilessHeld'
    BY <1>1 DEF Send, TypeOK
  <1>2. ASSUME NEW c \in Calls, Claim(c) PROVE BodilessHeld'
    BY <1>2, RecordsDiffer DEF Claim, Unclaimed, Moves, At, TypeOK
  <1>3. ASSUME NEW c \in Calls, Collide(c) \/ Die(c) PROVE BodilessHeld'
    BY <1>3 DEF Collide, Die, Moves, At, TypeOK
  <1>4. ASSUME NEW c \in Calls, BeginFails(c) PROVE BodilessHeld'
    BY <1>4, RecordsDiffer DEF BeginFails, Unclaimed, Answers, With, Error, TypeOK
  <1>5. ASSUME NEW c \in Calls, LookUp(c) PROVE BodilessHeld'
    <2> DEFINE record == records[calls[c].key]
               op == calls[c].op
    <2>1. record \in Record /\ op \in Operations /\ calls[c].key \in Keys
      BY <1>5 DEF LookUp, TypeOK
    <2>2. AnswerFrom(record, op).kind = "ok" => op \notin Bodiless
      BY <2>1, ReplaysAreStored DEF Completed, BodilessNotStored
    <2> QED BY <1>5, <2>2 DEF LookUp, Answers, With, TypeOK
  <1>6. ASSUME NEW c \in Calls, Handle(c) PROVE BodilessHeld'
    <2>1. /\ calls[c].at = "handling" /\ calls[c].key \in Keys /\ records' = records
          /\ \A k \in Keys : k # calls[c].key => runs'[k] = runs[k]
      BY <1>6 DEF Handle, Run, RunBodiless, Refuse, Fail, FailLate, TakesEffect, TypeOK
    <2>2. /\ \A d \in Calls : Working(d) /\ calls[d].key = calls[c].key => d = c
          /\ records[calls[c].key] = InProgress(calls[c].op)
          /\ \A d \in Calls : Succeeded(d) /\ calls[d].op \in Bodiless
               => calls[d].key # calls[c].key
      BY <2>1 DEF OneHandlerPerKey, Owned
    <2>3. \A d \in Calls : d # c => calls'[d] = calls[d]
      BY <1>6 DEF Handle, Run, RunBodiless, Refuse, Fail, FailLate, Closes, Answers, TypeOK
    <2>4. calls'[c].key = calls[c].key /\ calls'[c].op = calls[c].op
      BY <1>6 DEF Handle, Run, RunBodiless, Refuse, Fail, FailLate, Closes, Answers, With, TypeOK
    <2>5. ASSUME Succeeded(c)'
          PROVE  runs'[calls[c].key] = calls'[c].answer.run /\ ~Working(c)'
      BY <1>6, <2>1, <2>5 DEF Handle, Run, RunBodiless, Refuse, Fail, FailLate, Closes, Answers,
         With, Ok, TakesEffect, TypeOK
    <2>6. ASSUME NEW d \in Calls, Succeeded(d)', calls'[d].op \in Bodiless, d # c
          PROVE  /\ records'[calls'[d].key] = InProgress(calls'[d].op)
                 /\ runs'[calls'[d].key] = calls'[d].answer.run
                 /\ \A e \in Calls : Working(e)' => calls'[e].key # calls'[d].key
      BY <2>1, <2>2, <2>3, <2>4, <2>6
    <2>7. ASSUME Succeeded(c)', calls'[c].op \in Bodiless
          PROVE  /\ records'[calls'[c].key] = InProgress(calls'[c].op)
                 /\ runs'[calls'[c].key] = calls'[c].answer.run
                 /\ \A e \in Calls : Working(e)' => calls'[e].key # calls'[c].key
      BY <2>1, <2>2, <2>3, <2>4, <2>5, <2>7
    <2> QED BY <2>6, <2>7
  <1>7. ASSUME NEW c \in Calls, Close(c) PROVE BodilessHeld'
    <2>1. /\ calls[c].at = "closing" /\ calls[c].key \in Keys /\ calls[c] # Idle
          /\ runs' = runs
          /\ \A k \in Keys : k # calls[c].key => records'[k] = records[k]
      BY <1>7 DEF Close, Complete, CompleteFails, Abandon, AbandonFails, TypeOK
    <2>2. /\ \A d \in Calls : d # c => calls'[d] = calls[d]
          /\ calls'[c].at = "answered" /\ calls'[c].key = calls[c].key
          /\ calls'[c].op = calls[c].op
      BY <1>7, <2>1 DEF Close, Complete, CompleteFails, Abandon, AbandonFails, Answers, With, TypeOK
    <2>3. Succeeded(c)' => calls[c].op \notin Bodiless
      <3>1. Succeeded(c)' => calls[c].answer.kind = "ok"
        BY <1>7, <2>1 DEF Close, Complete, CompleteFails, Abandon, AbandonFails, Answers, With,
           Error, TypeOK
      <3> QED BY <2>1, <3>1 DEF BodilessNotStored
    <2>4. \A d \in Calls : Succeeded(d) /\ calls[d].op \in Bodiless => calls[d].key # calls[c].key
      BY <2>1
    <2> QED BY <2>1, <2>2, <2>3, <2>4
  <1>8. ASSUME NEW c \in Calls, Retire(c) PROVE BodilessHeld'
    BY <1>8 DEF Retire, TypeOK, Idle
  <1>9. ASSUME NEW k \in Keys, Expire(k) PROVE BodilessHeld'
    BY <1>9 DEF Expire, TypeOK, Idle
  <1>10. CASE UNCHANGED vars
    BY <1>10 DEF vars
  <1> QED BY <1>1, <1>2, <1>3, <1>4, <1>5, <1>6, <1>7, <1>8, <1>9, <1>10 DEF Next, Begin

LEMMA Invariance == Spec => []Invariant
  <1>1. Init => Invariant
    BY AnswersTyped DEF Init, Invariant, TypeOK, Call, Idle, OneHandlerPerKey, Working,
       AnswersStored, Succeeded, BodilessNotStored, BodilessHeld, Missing
  <1>2. Invariant /\ [Next]_vars => Invariant'
    BY TypeStep, HandlerStep, AnswersStoredStep, NotStoredStep, BodilessHeldStep DEF Invariant
  <1> QED BY <1>1, <1>2, PTL DEF Spec

\* However calls of a key collide, give up and die, no two handlers of it run
\* at the same time.
THEOREM HandlersExclude == Spec => []OneHandlerPerKey
  <1>1. Invariant => OneHandlerPerKey
    BY DEF Invariant
  <1> QED BY <1>1, Invariance, PTL

\* A replay is the stored answer of the one run it belongs to.
THEOREM AnswersAgree == Spec => []SameAnswer
  <1>1. Invariant => SameAnswer
    <2> SUFFICES ASSUME Invariant, NEW c \in Calls, NEW d \in Calls,
                        calls[c].at = "answered", calls[d].at = "answered",
                        calls[c].key = calls[d].key,
                        calls[c].answer.kind = "ok", calls[d].answer.kind = "ok"
                 PROVE  calls[c].op = calls[d].op /\ calls[c].answer.run = calls[d].answer.run
      BY DEF SameAnswer
    <2> USE DEF Invariant, AnswersStored, BodilessHeld, Succeeded
    <2>1. CASE calls[c].op \notin Bodiless /\ calls[d].op \notin Bodiless
      <3>1. Completed(calls[c].op, calls[c].answer.run) = Completed(calls[d].op, calls[d].answer.run)
        BY <2>1
      <3> QED BY <3>1 DEF Completed
    <2>2. CASE calls[c].op \in Bodiless /\ calls[d].op \in Bodiless
      <3>1. InProgress(calls[c].op) = InProgress(calls[d].op)
        BY <2>2
      <3> QED BY <2>2, <3>1 DEF InProgress
    <2>3. calls[c].op \in Bodiless <=> calls[d].op \in Bodiless
      BY RecordsDiffer
    <2> QED BY <2>1, <2>2, <2>3
  <1> QED BY <1>1, Invariance, PTL
-----------------------------------------------------------------------------
\* Once stored, a success stands until the record expires, and its operation
\* does not take effect again.
THEOREM SuccessStands == Spec => SuccessIsFinal
  <1> DEFINE Final == \A k \in Keys :
               records[k].status = "COMPLETED" /\ records'[k] # Missing
                 => runs'[k] = runs[k] /\ records'[k] = records[k]
  <1>1. Invariant /\ [Next]_vars => Final
    <2> SUFFICES ASSUME Invariant, [Next]_vars, NEW k \in Keys,
                        records[k].status = "COMPLETED", records'[k] # Missing
                 PROVE  runs'[k] = runs[k] /\ records'[k] = records[k]
      OBVIOUS
    <2>1. \A c \in Calls : Working(c) => calls[c].key # k
      BY RecordsDiffer DEF Invariant, OneHandlerPerKey, Owned
    <2>2. records[k] # Missing
      BY DEF Missing
    <2>3. ASSUME NEW c \in Calls, Begin(c) \/ Die(c) \/ Retire(c)
          PROVE  runs'[k] = runs[k] /\ records'[k] = records[k]
      BY <2>2, <2>3 DEF Begin, Claim, Collide, BeginFails, LookUp, Unclaimed, Die, Retire,
         Invariant, TypeOK
    <2>4. ASSUME NEW c \in Calls, Handle(c) \/ Close(c)
          PROVE  runs'[k] = runs[k] /\ records'[k] = records[k]
      <3>1. calls[c].key # k
        BY <2>1, <2>4 DEF Working, Handle, Run, RunBodiless, Refuse, Fail, FailLate, Close, Complete,
           CompleteFails, Abandon, AbandonFails
      <3> QED BY <2>4, <3>1 DEF Handle, Run, RunBodiless, Refuse, Fail, FailLate, TakesEffect, Close,
              Complete, CompleteFails, Abandon, AbandonFails, Invariant, TypeOK
    <2>5. ASSUME NEW c \in Calls, NEW l \in Keys, NEW op \in Operations, Send(c, l, op)
          PROVE  runs'[k] = runs[k] /\ records'[k] = records[k]
      BY <2>5 DEF Send
    <2>6. ASSUME NEW l \in Keys, Expire(l)
          PROVE  runs'[k] = runs[k] /\ records'[k] = records[k]
      BY <2>6 DEF Expire, Invariant, TypeOK
    <2> QED BY <2>3, <2>4, <2>5, <2>6 DEF Next, vars
  <1>2. Final => [Final]_vars
    OBVIOUS
  <1> QED BY <1>1, <1>2, Invariance, PTL DEF Spec, SuccessIsFinal
-----------------------------------------------------------------------------
\* A repeated call is answered with the success it repeats, if that has a body.
THEOREM ReplayIsAnswered == Spec => BodyIsReplayed
  <1> DEFINE ReplayedNow == Replayed(Operations \ Bodiless)
  <1>1. Invariant /\ [Next]_vars => ReplayedNow
    <2> SUFFICES ASSUME Invariant, [Next]_vars, NEW c \in Calls, NEW d \in Calls,
                        calls[c].op \notin Bodiless,
                        calls[c].at = "colliding", calls'[c].at = "answered",
                        Succeeded(d), calls[d].key = calls[c].key, calls[d].op = calls[c].op
                 PROVE  calls'[c].answer.kind = "ok"
      BY DEF Replayed, Succeeded
    <2>1. records[calls[c].key] = Completed(calls[c].op, calls[d].answer.run)
      BY DEF Invariant, AnswersStored
    <2>2. AnswerFrom(records[calls[c].key], calls[c].op) = Ok(calls[d].answer.run)
      BY <2>1, RecordsDiffer DEF AnswerFrom, Completed
    <2>3. \A e \in Calls : e # c /\ (Begin(e) \/ Handle(e) \/ Close(e) \/ Die(e) \/ Retire(e))
            => calls'[c] = calls[c]
      BY DEF Begin, Claim, Collide, BeginFails, LookUp, Handle, Run, RunBodiless, Refuse, Fail,
         FailLate, Close, Complete, CompleteFails, Abandon, AbandonFails, Die, Retire, Moves,
         Closes, Answers, Invariant, TypeOK
    <2>4. /\ \A e \in Calls, k \in Keys, op \in Operations : Send(e, k, op) => calls'[c] = calls[c]
          /\ \A k \in Keys : Expire(k) => calls'[c] = calls[c]
          /\ UNCHANGED vars => calls'[c] = calls[c]
      BY DEF Send, Expire, vars, Idle, Invariant, TypeOK
    <2>5. Begin(c) \/ Handle(c) \/ Close(c) \/ Die(c) \/ Retire(c) => LookUp(c) \/ Die(c)
      BY DEF Begin, Claim, Collide, BeginFails, Handle, Run, RunBodiless, Refuse, Fail, FailLate,
         Close, Complete, CompleteFails, Abandon, AbandonFails, Retire
    <2>6. LookUp(c) \/ Die(c)
      BY <2>3, <2>4, <2>5 DEF Next
    <2>7. ~Die(c)
      BY DEF Die, Moves, At, Invariant, TypeOK
    <2>8. calls'[c] = With("answered", calls[c], Ok(calls[d].answer.run))
      BY <2>2, <2>6, <2>7 DEF LookUp, Answers, Invariant, TypeOK
    <2> QED BY <2>8 DEF With, Ok
  <1>2. ReplayedNow => [ReplayedNow]_vars
    OBVIOUS
  <1> QED BY <1>1, <1>2, Invariance, PTL DEF Spec, BodyIsReplayed
-----------------------------------------------------------------------------
LEMMA CountedOnceStep ==
  ASSUME Invariant, CountedOnce, [Next]_vars
  PROVE  CountedOnce'
  <1> USE CallShapes DEF Invariant, CountedOnce, Working
  <1>1. ASSUME NEW c \in Calls, NEW k \in Keys, NEW op \in Operations, Send(c, k, op)
        PROVE  CountedOnce'
    BY <1>1 DEF Send, TypeOK
  <1>2. ASSUME NEW c \in Calls, Claim(c) PROVE CountedOnce'
    BY <1>2, RecordsDiffer DEF Claim, Unclaimed, Moves, At, TypeOK
  <1>3. ASSUME NEW c \in Calls, Collide(c) \/ Die(c) PROVE CountedOnce'
    BY <1>3 DEF Collide, Die, Moves, At, TypeOK
  <1>4. ASSUME NEW c \in Calls, BeginFails(c) PROVE CountedOnce'
    BY <1>4, RecordsDiffer DEF BeginFails, Unclaimed, Answers, With, TypeOK
  <1>5. ASSUME NEW c \in Calls, LookUp(c) PROVE CountedOnce'
    BY <1>5 DEF LookUp, Answers, With, TypeOK
  <1>6. ASSUME NEW c \in Calls, Handle(c) PROVE CountedOnce'
    <2>1. /\ calls[c].at = "handling" /\ calls[c] # Idle /\ calls[c].key \in Keys
          /\ runs[calls[c].key] = late[calls[c].key]
          /\ late[calls[c].key] \in Nat
          /\ records[calls[c].key] # Missing
          /\ \A d \in Calls : Working(d) /\ calls[d].key = calls[c].key => d = c
      BY <1>6, RecordsDiffer DEF Handle, Run, RunBodiless, Refuse, Fail, FailLate,
         OneHandlerPerKey, Owned, TypeOK
    <2>2. CASE Run(c)
      BY <2>1, <2>2 DEF Run, TakesEffect, Closes, With, Ok, TypeOK
    <2>3. CASE RunBodiless(c)
      BY <2>1, <2>3 DEF RunBodiless, TakesEffect, Answers, With, TypeOK
    <2>4. CASE Refuse(c) \/ Fail(c)
      BY <2>1, <2>4 DEF Refuse, Fail, Closes, With, TypeOK
    <2>5. CASE FailLate(c)
      BY <2>1, <2>5 DEF FailLate, TakesEffect, Closes, With, Error, TypeOK
    <2> QED BY <1>6, <2>2, <2>3, <2>4, <2>5 DEF Handle
  <1>7. ASSUME NEW c \in Calls, Close(c) PROVE CountedOnce'
    <2>1. calls[c].key \in Keys /\ calls[c] # Idle /\ calls[c].at = "closing"
      BY <1>7 DEF Close, Complete, CompleteFails, Abandon, AbandonFails
    <2>2. CASE Complete(c) \/ CompleteFails(c)
      BY <2>1, <2>2, RecordsDiffer DEF Complete, CompleteFails, Answers, With, TypeOK
    <2>3. CASE Abandon(c) \/ AbandonFails(c)
      BY <2>1, <2>3 DEF Abandon, AbandonFails, GivesBack, Answers, With, TypeOK
    <2> QED BY <1>7, <2>2, <2>3 DEF Close
  <1>8. ASSUME NEW c \in Calls, Retire(c) PROVE CountedOnce'
    BY <1>8 DEF Retire, TypeOK, Idle
  <1>9. ASSUME NEW k \in Keys, Expire(k) PROVE CountedOnce'
    BY <1>9 DEF Expire, TypeOK, Idle
  <1>10. CASE UNCHANGED vars
    BY <1>10 DEF vars
  <1> QED BY <1>1, <1>2, <1>3, <1>4, <1>5, <1>6, <1>7, <1>8, <1>9, <1>10 DEF Next, Begin

\* While a key's record is kept, its operation takes effect at most once, not
\* counting the times its handler failed after the transaction.
THEOREM EffectAtMostOnce == Spec => []AtMostOnce
  <1>1. Init => CountedOnce
    BY DEF Init, CountedOnce, Working, Idle
  <1>2. Invariant /\ CountedOnce /\ [Next]_vars => CountedOnce'
    BY CountedOnceStep
  <1>3. Invariant /\ CountedOnce => AtMostOnce
    BY DEF Invariant, TypeOK, CountedOnce, AtMostOnce
  <1> QED BY <1>1, <1>2, <1>3, Invariance, PTL DEF Spec
=============================================================================
