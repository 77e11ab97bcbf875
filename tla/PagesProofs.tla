---------------------------- MODULE PagesProofs ----------------------------
(***************************************************************************)
(* Proofs about the analytics refresh, the page of an order and the        *)
(* accounts of a device, for any number of executions, orders and accounts *)
(* and without the runs' bounds.                                           *)
(***************************************************************************)
EXTENDS PagesMC, SequenceTheorems, TLAPS

-----------------------------------------------------------------------------
(* The refresh.  What an execution has reached was done, and an execution  *)
(* that has ended does not go on.                                          *)

Stages == {"none"} \cup Active \cup Terminal
Milestones == 0..4
Execution == [stage : Stages,
              export : {"none", "IN_PROGRESS", "COMPLETED", "FAILED"},
              asOf : Nat, reached : Milestones]
Job == [started : Nat, attempt : Nat, last : {"none", "RUNNING", "SUCCESS", "FAILED"}]

RunTypeOK ==
  /\ engine \in Engines
  /\ exec \in [Runs -> Execution]
  /\ job \in [Runs -> Job]
  /\ exports \in Nat /\ published \subseteq Runs

\* Milestones of the history: 2 the export is over, 3 a job was started, 4 it succeeded.
WasDone(r, e, j) ==
  /\ e.reached >= 2 => e.export = "COMPLETED"
  /\ e.reached >= 3 => j.started > 0
  /\ e.reached >= 4 \/ e.stage = "SUCCEEDED" \/ j.last = "SUCCESS" => r \in published
  /\ e.stage \in {"starting", "running"} => e.export = "COMPLETED"
  /\ e.stage = "running" => j.started > 0
  /\ e.stage = "none" => e.asOf = 0
  /\ e.stage \in {"none", "export", "exporting"} => j.last = "none"
  /\ e.stage \in {"exporting", "starting", "running"} \/ j.last # "none" \/ r \in published =>
       e.asOf > 0

ReachedWasDone == \A r \in Runs : WasDone(r, exec[r], job[r])

PipelineInvariant == RunTypeOK /\ ReachedWasDone

\* What happens to one execution at a time: what was done stays done.
Advances ==
  /\ published \subseteq published'
  /\ \A r \in Runs :
       /\ exec[r].export = "COMPLETED" => exec'[r].export = "COMPLETED"
       /\ exec[r].stage # "none" => exec'[r].stage # "none"
       /\ exec[r].stage \in Terminal => exec'[r].stage = exec[r].stage
       /\ job[r].started <= job'[r].started

LEMMA RunInit == Init => PipelineInvariant
  <1> SUFFICES ASSUME Init PROVE PipelineInvariant
    OBVIOUS
  <1>1. RunTypeOK
    BY DEF Init, RunTypeOK, Execution, Stages, Milestones, Job
  <1>2. ReachedWasDone
    <2> SUFFICES ASSUME NEW r \in Runs PROVE WasDone(r, exec[r], job[r])
      BY DEF ReachedWasDone
    <2>1. /\ exec[r] = [stage |-> "none", export |-> "none", asOf |-> 0, reached |-> 0]
          /\ job[r] = [started |-> 0, attempt |-> 0, last |-> "none"]
          /\ published = {}
      BY DEF Init
    <2> QED BY <2>1 DEF WasDone
  <1> QED BY <1>1, <1>2 DEF PipelineInvariant

\* A step of the pipeline replaces the rows of one execution.
Later(r, e, j) ==
  /\ exec[r].export = "COMPLETED" => e.export = "COMPLETED"
  /\ exec[r].stage # "none" => e.stage # "none"
  /\ exec[r].stage \in Terminal => e.stage = exec[r].stage
  /\ job[r].started <= j.started

LEMMA RowChange ==
  ASSUME PipelineInvariant, NEW r \in Runs, NEW e \in Execution, NEW j \in Job,
         exec' = [exec EXCEPT ![r] = e], job' = [job EXCEPT ![r] = j], UNCHANGED engine,
         exports' \in Nat, published \subseteq published', published' \subseteq published \cup {r},
         Later(r, e, j), WasDone(r, e, j)'
  PROVE  PipelineInvariant' /\ Advances
  <1> USE DEF PipelineInvariant, RunTypeOK, WasDone, Later
  <1>1. /\ exec'[r] = e /\ job'[r] = j
        /\ \A q \in Runs : q # r => exec'[q] = exec[q] /\ job'[q] = job[q]
    OBVIOUS
  <1>2. RunTypeOK'
    OBVIOUS
  <1>3. ReachedWasDone'
    BY <1>1 DEF ReachedWasDone
  <1>4. Advances
    BY <1>1 DEF Advances, Execution, Job
  <1> QED BY <1>2, <1>3, <1>4

\* The usual case: the row of the execution changes and nothing else.
LEMMA ExecutionChange ==
  ASSUME PipelineInvariant, NEW r \in Runs, NEW e \in Execution,
         exec' = [exec EXCEPT ![r] = e], exports' \in Nat, UNCHANGED <<engine, job, published>>,
         exec[r].export = "COMPLETED" => e.export = "COMPLETED",
         exec[r].stage # "none" => e.stage # "none",
         exec[r].stage \in Terminal => e.stage = exec[r].stage,
         WasDone(r, e, job[r])
  PROVE  PipelineInvariant' /\ Advances
  <1> USE DEF PipelineInvariant, RunTypeOK
  <1>1. job[r] \in Job /\ job' = [job EXCEPT ![r] = job[r]]
    OBVIOUS
  <1>2. Later(r, e, job[r])
    BY <1>1 DEF Later, Job
  <1>3. \A j : WasDone(r, e, j)' <=> WasDone(r, e, j)
    BY DEF WasDone
  <1> QED BY <1>1, <1>2, <1>3, RowChange

Staged(row, stage, reached) == [row EXCEPT !.stage = stage, !.reached = reached]

LEMMA StagedRow ==
  ASSUME NEW row \in Execution, NEW stage \in Stages, NEW reached \in Milestones
  PROVE  /\ Staged(row, stage, reached) \in Execution
         /\ Staged(row, stage, reached).stage = stage
         /\ Staged(row, stage, reached).reached = reached
         /\ Staged(row, stage, reached).export = row.export
         /\ Staged(row, stage, reached).asOf = row.asOf
  BY DEF Execution, Staged

LEMMA StartExecutionAdvances ==
  ASSUME PipelineInvariant, NEW r \in Runs, exec[r].stage = "none",
         exec' = [exec EXCEPT ![r].stage = "export", ![r].reached = 1],
         UNCHANGED <<engine, exports, job, published>>
  PROVE  PipelineInvariant' /\ Advances
  <1> DEFINE e == Staged(exec[r], "export", 1)
  <1>1. exec' = [exec EXCEPT ![r] = e] /\ exec[r] \in Execution
    BY DEF PipelineInvariant, RunTypeOK, Staged
  <1>2. "export" \in Stages /\ 1 \in Milestones
    BY DEF Stages, Active, Milestones
  <1>3. /\ e \in Execution /\ e.stage = "export" /\ e.reached = 1 /\ e.export = exec[r].export
        /\ e.asOf = exec[r].asOf
    BY <1>1, <1>2, StagedRow
  <1> HIDE DEF e
  <1>4. WasDone(r, e, job[r])
    BY <1>3 DEF WasDone, PipelineInvariant, ReachedWasDone
  <1>5. exports' \in Nat
    BY DEF PipelineInvariant, RunTypeOK
  <1> QED BY <1>1, <1>3, <1>4, <1>5, ExecutionChange DEF Terminal

\* The row of one execution, of which only these fields change.
LEMMA ExecutionFields ==
  ASSUME PipelineInvariant, NEW r \in Runs, UNCHANGED <<engine, exports, job, published>>,
         NEW e, exec' = [exec EXCEPT ![r] = e], e \in Execution,
         e.reached = exec[r].reached, e.export = exec[r].export, e.asOf = exec[r].asOf,
         exec[r].stage \in Active, e.stage \in {"FAILED", "TIMED_OUT"}
  PROVE  PipelineInvariant' /\ Advances
  <1>1. WasDone(r, e, job[r])
    BY DEF WasDone, PipelineInvariant, ReachedWasDone
  <1> QED BY <1>1, ExecutionChange DEF Terminal, Active, PipelineInvariant, RunTypeOK

LEMMA StartExportAdvances ==
  ASSUME PipelineInvariant, NEW r \in Runs, StartExport(r)
  PROVE  PipelineInvariant' /\ Advances
  <1> DEFINE row == exec[r]
  <1>1. PICK answered \in BOOLEAN :
          exec' = [exec EXCEPT ![r].export = IF @ = "none" THEN "IN_PROGRESS" ELSE @,
                               ![r].asOf = IF @ = 0 THEN exports + 1 ELSE @,
                               ![r].stage = IF answered THEN "exporting" ELSE @]
    BY DEF StartExport
  <1> DEFINE export == IF row.export = "none" THEN "IN_PROGRESS" ELSE row.export
             asOf == IF row.asOf = 0 THEN exports + 1 ELSE row.asOf
             stage == IF answered THEN "exporting" ELSE row.stage
             e == [row EXCEPT !.export = export, !.asOf = asOf, !.stage = stage]
  <1>2. /\ exec' = [exec EXCEPT ![r] = e] /\ row \in Execution /\ row.stage = "export"
        /\ UNCHANGED <<engine, job, published>>
    BY <1>1 DEF StartExport, outcome, PipelineInvariant, RunTypeOK
  <1>3. /\ export \in {"none", "IN_PROGRESS", "COMPLETED", "FAILED"}
        /\ row.export = "COMPLETED" => export = "COMPLETED"
        /\ stage \in Stages /\ stage \in {"export", "exporting"}
    BY <1>2 DEF Execution, Stages, Active
  <1>4. asOf \in Nat /\ asOf > 0 /\ exports' \in Nat
    BY <1>2 DEF StartExport, PipelineInvariant, RunTypeOK, Execution
  <1> HIDE DEF export, asOf, stage
  <1>5. /\ e \in Execution /\ e.stage = stage /\ e.export = export /\ e.reached = row.reached
        /\ e.asOf = asOf
    BY <1>2, <1>3, <1>4 DEF Execution
  <1> HIDE DEF e
  <1>6. WasDone(r, e, job[r])
    BY <1>2, <1>3, <1>4, <1>5 DEF WasDone, PipelineInvariant, ReachedWasDone
  <1> QED BY <1>2, <1>3, <1>4, <1>5, <1>6, ExecutionChange DEF Terminal

LEMMA ExportEndsAdvances ==
  ASSUME PipelineInvariant, NEW r \in Runs, ExportEnds(r)
  PROVE  PipelineInvariant' /\ Advances
  <1> DEFINE row == exec[r]
  <1>1. PICK s \in {"COMPLETED", "FAILED"} : exec' = [exec EXCEPT ![r].export = s]
    BY DEF ExportEnds
  <1> DEFINE e == [row EXCEPT !.export = s]
  <1>2. /\ exec' = [exec EXCEPT ![r] = e] /\ row \in Execution /\ row.export = "IN_PROGRESS"
        /\ exports' \in Nat /\ UNCHANGED <<engine, job, published>>
    BY <1>1 DEF ExportEnds, outcome, PipelineInvariant, RunTypeOK
  <1>3. /\ e \in Execution /\ e.stage = row.stage /\ e.export = s /\ e.reached = row.reached
        /\ e.asOf = row.asOf
    BY <1>2 DEF Execution
  <1> HIDE DEF e
  <1>4. WasDone(r, e, job[r])
    BY <1>2, <1>3 DEF WasDone, PipelineInvariant, ReachedWasDone
  <1> QED BY <1>2, <1>3, <1>4, ExecutionChange

LEMMA CheckExportAdvances ==
  ASSUME PipelineInvariant, NEW r \in Runs, CheckExport(r)
  PROVE  PipelineInvariant' /\ Advances
  <1> DEFINE row == exec[r]
  <1>1. /\ row \in Execution /\ row.stage = "exporting" /\ exports' \in Nat
        /\ UNCHANGED <<engine, exports, job, published>>
    BY DEF CheckExport, outcome, PipelineInvariant, RunTypeOK
  <1>2. CASE row.export = "COMPLETED"
    <2> DEFINE e == Staged(row, "starting", 2)
    <2>1. exec' = [exec EXCEPT ![r] = e]
      BY <1>1, <1>2 DEF CheckExport, Staged, PipelineInvariant, RunTypeOK
    <2>2. "starting" \in Stages /\ 2 \in Milestones
      BY DEF Stages, Active, Milestones
    <2>3. /\ e \in Execution /\ e.stage = "starting" /\ e.reached = 2 /\ e.export = row.export
          /\ e.asOf = row.asOf
      BY <1>1, <2>2, StagedRow
    <2> HIDE DEF e
    <2>4. WasDone(r, e, job[r])
      BY <1>1, <1>2, <2>3 DEF WasDone, PipelineInvariant, ReachedWasDone
    <2> QED BY <1>1, <2>1, <2>3, <2>4, ExecutionChange DEF Terminal
  <1>3. CASE row.export # "COMPLETED"
    <2> DEFINE e == [row EXCEPT !.stage = "FAILED"]
    <2>1. exec' = [exec EXCEPT ![r] = e]
      BY <1>1, <1>3 DEF CheckExport, PipelineInvariant, RunTypeOK
    <2>2. "FAILED" \in Stages
      BY DEF Stages, Terminal
    <2>3. /\ e \in Execution /\ e.stage = "FAILED" /\ e.reached = row.reached
          /\ e.export = row.export /\ e.asOf = row.asOf
      BY <1>1, <2>2 DEF Execution
    <2> HIDE DEF e
    <2> QED BY <1>1, <2>1, <2>3, ExecutionFields DEF Active
  <1> QED BY <1>2, <1>3

LEMMA AbandonAdvances ==
  ASSUME PipelineInvariant, NEW r \in Runs, Abandon(r)
  PROVE  PipelineInvariant' /\ Advances
  <1> DEFINE row == exec[r]
  <1>1. PICK s \in {"FAILED", "TIMED_OUT"} : exec' = [exec EXCEPT ![r].stage = s]
    BY DEF Abandon
  <1>2. /\ row \in Execution /\ row.stage \in Active /\ s \in Stages
        /\ UNCHANGED <<engine, exports, job, published>>
    BY DEF Abandon, Running, outcome, PipelineInvariant, RunTypeOK, Stages, Terminal
  <1> DEFINE e == [row EXCEPT !.stage = s]
  <1>3. exec' = [exec EXCEPT ![r] = e]
    BY <1>1 DEF PipelineInvariant, RunTypeOK
  <1>4. /\ e \in Execution /\ e.stage = s /\ e.reached = row.reached /\ e.export = row.export
        /\ e.asOf = row.asOf
    BY <1>2 DEF Execution
  <1> HIDE DEF e
  <1> QED BY <1>2, <1>3, <1>4, ExecutionFields

\* A job is started, or there is one: the task is over only then.
LEMMA StartJobAdvances ==
  ASSUME PipelineInvariant, NEW r \in Runs, StartJob(r)
  PROVE  PipelineInvariant' /\ Advances
  <1> DEFINE row == exec[r]
             refused == engine = "glue" /\ \E q \in Runs : job[q].last = "RUNNING"
  <1>1. /\ row \in Execution /\ row.stage = "starting" /\ job[r] \in Job
        /\ engine \in {"emr", "glue"} /\ UNCHANGED <<engine, exports, published>> /\ exports' \in Nat
        /\ exec \in [Runs -> Execution] /\ job \in [Runs -> Job] /\ published \subseteq Runs
    BY RunAssumption DEF StartJob, outcome, PipelineInvariant, RunTypeOK
  <1>2. WasDone(r, row, job[r])
    BY DEF PipelineInvariant, ReachedWasDone
  <1>3. CASE refused
    <2> DEFINE e == [row EXCEPT !.stage = "FAILED"]
    <2>1. exec' = [exec EXCEPT ![r] = e] /\ UNCHANGED job
      BY <1>1, <1>3 DEF StartJob
    <2>2. "FAILED" \in Stages
      BY DEF Stages, Terminal
    <2>3. /\ e \in Execution /\ e.stage = "FAILED" /\ e.reached = row.reached
          /\ e.export = row.export /\ e.asOf = row.asOf
      BY <1>1, <2>2 DEF Execution
    <2> HIDE DEF e
    <2> QED BY <1>1, <2>1, <2>3, ExecutionFields DEF Active
  <1>4. CASE ~refused
    <2>1. ~NewJob(r) => job[r].started > 0
      BY <1>1, RunAssumption DEF NewJob, Job
    <2>2. PICK j \in Job : /\ job' = [job EXCEPT ![r] = j]
                           /\ j.started > 0 /\ job[r].started <= j.started
                           /\ j.last = "SUCCESS" => job[r].last = "SUCCESS"
      <3>1. CASE NewJob(r)
        <4> DEFINE j == [started |-> job[r].started + 1, attempt |-> 1, last |-> "RUNNING"]
        <4>1. job' = [job EXCEPT ![r] = j]
          BY <1>1, <1>4, <3>1 DEF StartJob
        <4>2. j \in Job /\ j.started > 0 /\ job[r].started <= j.started
          BY <1>1 DEF Job
        <4> QED BY <4>1, <4>2
      <3>2. CASE ~NewJob(r)
        <4>1. job' = [job EXCEPT ![r] = job[r]]
          BY <1>1, <1>4, <3>2 DEF StartJob
        <4>2. job[r] \in Job /\ job[r].started <= job[r].started
          BY <1>1 DEF Job
        <4> QED BY <2>1, <3>2, <4>1, <4>2
      <3> QED BY <3>1, <3>2
    <2>3. PICK e \in {row, Staged(row, "running", 3)} : exec' = [exec EXCEPT ![r] = e]
      <3>1. CASE exec' = exec
        BY <1>1, <3>1
      <3>2. CASE exec' = [exec EXCEPT ![r].stage = "running", ![r].reached = 3]
        BY <1>1, <3>2 DEF Staged
      <3> QED BY <1>4, <3>1, <3>2 DEF StartJob
    <2>4. /\ e \in Execution /\ e.export = row.export /\ e.asOf = row.asOf
          /\ e = row \/ (e.stage = "running" /\ e.reached = 3)
      <3>1. "running" \in Stages /\ 3 \in Milestones
        BY DEF Stages, Active, Milestones
      <3>2. CASE e = row
        BY <1>1, <3>2
      <3>3. CASE e = Staged(row, "running", 3)
        BY <1>1, <3>1, <3>3, StagedRow
      <3> QED BY <2>3, <3>2, <3>3
    <2>5. WasDone(r, e, j)
      <3>1. CASE e = row
        BY <1>1, <1>2, <2>2, <3>1 DEF WasDone
      <3>2. CASE e.stage = "running" /\ e.reached = 3
        BY <1>1, <1>2, <2>2, <2>4, <3>2 DEF WasDone
      <3> QED BY <2>4, <3>1, <3>2
    <2>6. WasDone(r, e, j)'
      BY <1>1, <2>5 DEF WasDone
    <2>7. Later(r, e, j)
      BY <1>1, <2>2, <2>4 DEF Later, Terminal
    <2> QED BY <1>1, <2>2, <2>3, <2>4, <2>6, <2>7, RowChange
  <1> QED BY <1>3, <1>4

\* What an attempt of a job leaves behind.
LEMMA JobEnded ==
  ASSUME PipelineInvariant, NEW r \in Runs, JobEnds(r)
  PROVE  \E j \in Job :
           /\ job' = [job EXCEPT ![r] = j] /\ j.started = job[r].started
           /\ j.last # "none" /\ (j.last = "SUCCESS" => r \in published')
  <1>1. job \in [Runs -> Job] /\ job[r] \in Job /\ job[r].last = "RUNNING"
    BY DEF JobEnds, PipelineInvariant, RunTypeOK
  <1>2. PICK wrote \in BOOLEAN, succeeded \in BOOLEAN :
          /\ succeeded => wrote
          /\ published' = IF wrote THEN published \cup {r} ELSE published
          /\ job' = CASE succeeded -> [job EXCEPT ![r].last = "SUCCESS"]
                      [] ~succeeded /\ job[r].attempt < Attempts -> [job EXCEPT ![r].attempt = @ + 1]
                      [] OTHER -> [job EXCEPT ![r].last = "FAILED"]
    BY DEF JobEnds
  <1>3. ASSUME NEW s \in {"SUCCESS", "FAILED"}, job' = [job EXCEPT ![r].last = s],
               s = "SUCCESS" => r \in published'
        PROVE  \E j \in Job : /\ job' = [job EXCEPT ![r] = j] /\ j.started = job[r].started
                              /\ j.last # "none" /\ (j.last = "SUCCESS" => r \in published')
    <2> DEFINE j == [job[r] EXCEPT !.last = s]
    <2>1. job' = [job EXCEPT ![r] = j]
      BY <1>1, <1>3
    <2>2. j \in Job /\ j.started = job[r].started /\ j.last = s
      BY <1>1 DEF Job
    <2> HIDE DEF j
    <2> QED BY <1>3, <2>1, <2>2
  <1>4. CASE succeeded
    BY <1>2, <1>3, <1>4
  <1>5. CASE ~succeeded /\ job[r].attempt < Attempts
    <2> DEFINE j == [job[r] EXCEPT !.attempt = @ + 1]
    <2>1. job' = [job EXCEPT ![r] = j]
      BY <1>1, <1>2, <1>5
    <2>2. j \in Job /\ j.started = job[r].started /\ j.last = "RUNNING"
      BY <1>1 DEF Job
    <2> HIDE DEF j
    <2> QED BY <2>1, <2>2
  <1>6. CASE ~succeeded /\ ~(job[r].attempt < Attempts)
    BY <1>2, <1>3, <1>6
  <1> QED BY <1>4, <1>5, <1>6

LEMMA JobEndsAdvances ==
  ASSUME PipelineInvariant, NEW r \in Runs, JobEnds(r)
  PROVE  PipelineInvariant' /\ Advances
  <1> DEFINE row == exec[r]
  <1>1. /\ row \in Execution /\ job[r] \in Job /\ job[r].last = "RUNNING"
        /\ UNCHANGED <<engine, exec>> /\ exec' = [exec EXCEPT ![r] = row]
        /\ exports' \in Nat /\ published \subseteq Runs
        /\ published \subseteq published' /\ published' \subseteq published \cup {r}
    BY DEF JobEnds, PipelineInvariant, RunTypeOK
  <1>2. PICK e : e = row
    OBVIOUS
  <1>3. PICK j \in Job :
          /\ job' = [job EXCEPT ![r] = j] /\ j.started = job[r].started
          /\ j.last # "none" /\ (j.last = "SUCCESS" => r \in published')
    BY JobEnded
  <1>4. WasDone(r, row, job[r])
    BY DEF PipelineInvariant, ReachedWasDone
  <1>5. WasDone(r, e, j)'
    BY <1>1, <1>2, <1>3, <1>4 DEF WasDone
  <1>6. Later(r, e, j)
    <2>1. job[r].started <= j.started
      BY <1>1, <1>3 DEF Job
    <2> QED BY <1>2, <1>3, <2>1 DEF Later
  <1> QED BY <1>1, <1>2, <1>3, <1>5, <1>6, RowChange

LEMMA CheckJobAdvances ==
  ASSUME PipelineInvariant, NEW r \in Runs, CheckJob(r)
  PROVE  PipelineInvariant' /\ Advances
  <1> DEFINE row == exec[r]
  <1>1. /\ row \in Execution /\ row.stage = "running" /\ exports' \in Nat
        /\ UNCHANGED <<engine, exports, job, published>> /\ exec \in [Runs -> Execution]
    BY DEF CheckJob, outcome, PipelineInvariant, RunTypeOK
  <1>2. WasDone(r, row, job[r])
    BY DEF PipelineInvariant, ReachedWasDone
  <1>3. CASE job[r].last = "SUCCESS"
    <2> DEFINE e == Staged(row, "SUCCEEDED", 4)
    <2>1. exec' = [exec EXCEPT ![r] = e]
      BY <1>1, <1>3 DEF CheckJob, Staged
    <2>2. "SUCCEEDED" \in Stages /\ 4 \in Milestones
      BY DEF Stages, Terminal, Milestones
    <2>3. /\ e \in Execution /\ e.stage = "SUCCEEDED" /\ e.reached = 4 /\ e.export = row.export
          /\ e.asOf = row.asOf
      BY <1>1, <2>2, StagedRow
    <2> HIDE DEF e
    <2>4. WasDone(r, e, job[r])
      BY <1>1, <1>2, <1>3, <2>3 DEF WasDone
    <2> QED BY <1>1, <2>1, <2>3, <2>4, ExecutionChange DEF Terminal
  <1>4. CASE job[r].last # "SUCCESS"
    <2> DEFINE e == [row EXCEPT !.stage = "FAILED"]
    <2>1. exec' = [exec EXCEPT ![r] = e]
      BY <1>1, <1>4 DEF CheckJob
    <2>2. "FAILED" \in Stages
      BY DEF Stages, Terminal
    <2>3. /\ e \in Execution /\ e.stage = "FAILED" /\ e.reached = row.reached
          /\ e.export = row.export /\ e.asOf = row.asOf
      BY <1>1, <2>2 DEF Execution
    <2> HIDE DEF e
    <2> QED BY <1>1, <2>1, <2>3, ExecutionFields DEF Active
  <1> QED BY <1>3, <1>4

-----------------------------------------------------------------------------
(* The page.  What a poll has read of the run followed stays true until it *)
(* is answered, and what is shown of the run stays true after it.          *)

Followed(x) == DOMAIN x = {"id", "status", "done"} /\ x.id \in Runs

\* A status and milestones that are true of an execution.
StatusIsTrue(r, status) ==
  /\ status \in {"RUNNING"} \cup Terminal
  /\ status \in Terminal => exec[r].stage = status
  /\ status = "SUCCEEDED" => r \in published

SeenIsTrue(r, seen) ==
  /\ 2 \in seen => exec[r].export = "COMPLETED"
  /\ 3 \in seen => job[r].started > 0
  /\ 4 \in seen => r \in published

PollIsTrue ==
  /\ poll.phase # "off" => Followed(run) /\ exec[run.id].stage # "none"
  /\ poll.status # None \/ poll.seen # None => poll.phase = "asked"
  /\ poll.status # None => StatusIsTrue(run.id, poll.status)
  /\ poll.seen # None => SeenIsTrue(run.id, poll.seen)

PollTypeOK ==
  /\ run # None => Followed(run)
  /\ DOMAIN poll = {"phase", "status", "seen"}

RefreshInvariant == PipelineInvariant /\ PollTypeOK /\ PollIsTrue /\ ProgressIsTrue

\* What is true of an execution stays true.
LEMMA TrueStaysTrue ==
  ASSUME PipelineInvariant, PipelineInvariant', Advances, NEW r \in Runs
  PROVE  /\ \A status : StatusIsTrue(r, status) => StatusIsTrue(r, status)'
         /\ \A seen : SeenIsTrue(r, seen) => SeenIsTrue(r, seen)'
  <1>1. job[r].started \in Nat /\ job'[r].started \in Nat
    BY DEF PipelineInvariant, RunTypeOK, Job
  <1>2. job[r].started > 0 => job'[r].started > 0
    BY <1>1 DEF Advances
  <1> QED BY <1>2 DEF StatusIsTrue, SeenIsTrue, Advances

LEMMA PipelineKeepsRefresh ==
  ASSUME RefreshInvariant, PipelineInvariant', Advances, UNCHANGED <<run, poll>>
  PROVE  RefreshInvariant'
  <1> USE DEF RefreshInvariant
  <1>1. PollTypeOK'
    BY DEF PollTypeOK
  <1>2. ASSUME NEW r \in Runs
        PROVE  /\ \A status : StatusIsTrue(r, status) => StatusIsTrue(r, status)'
               /\ \A seen : SeenIsTrue(r, seen) => SeenIsTrue(r, seen)'
    BY TrueStaysTrue
  <1>3. PollIsTrue'
    <2>1. poll.phase # "off" => run.id \in Runs
      BY DEF PollIsTrue, Followed
    <2>2. poll.status # None \/ poll.seen # None => poll.phase # "off"
      BY DEF PollIsTrue
    <2>3. poll.phase # "off" => exec'[run.id].stage # "none"
      BY <2>1 DEF PollIsTrue, Advances
    <2> QED BY <1>2, <2>1, <2>2, <2>3 DEF PollIsTrue
  <1>4. ProgressIsTrue'
    <2> SUFFICES ASSUME run # None PROVE ProgressIsTrue'
      BY DEF ProgressIsTrue
    <2>1. run.id \in Runs
      BY DEF PollTypeOK, Followed
    <2>2. job[run.id].started \in Nat /\ job'[run.id].started \in Nat
      BY <2>1 DEF PipelineInvariant, RunTypeOK, Job
    <2> QED BY <2>1, <2>2 DEF ProgressIsTrue, Advances
  <1> QED BY <1>1, <1>3, <1>4

LEMMA ProgressTells ==
  ASSUME NEW status, NEW seen
  PROVE  /\ Progress(status, seen).EXPORT => 2 \in seen
         /\ Progress(status, seen).EMR_START => 3 \in seen
         /\ Progress(status, seen).SPARK => 4 \in seen
         /\ Progress(status, seen).PUBLISH => status = "SUCCEEDED"
  BY DEF Progress

LEMMA FreshPolls ==
  /\ [NoPoll EXCEPT !.phase = "timer"] = [phase |-> "timer", status |-> None, seen |-> None]
  /\ [NoPoll EXCEPT !.phase = "stopped"] = [phase |-> "stopped", status |-> None, seen |-> None]
  BY DEF NoPoll

\* A poll that has read nothing yet claims nothing.
LEMMA FreshPoll ==
  ASSUME RefreshInvariant, UNCHANGED pipeline, UNCHANGED run,
         NEW phase,
         phase # "off" => Followed(run) /\ exec[run.id].stage # "none",
         poll' = [phase |-> phase, status |-> None, seen |-> None]
  PROVE  RefreshInvariant'
  <1> USE DEF RefreshInvariant
  <1>1. PipelineInvariant'
    BY DEF pipeline, outcome, PipelineInvariant, RunTypeOK, ReachedWasDone, WasDone
  <1>2. PollTypeOK' /\ PollIsTrue'
    BY DEF PollTypeOK, PollIsTrue, pipeline
  <1>3. ProgressIsTrue'
    BY DEF ProgressIsTrue, pipeline, outcome
  <1> QED BY <1>1, <1>2, <1>3

LEMMA NewRunIsUnused ==
  ASSUME Started
  PROVE  NewRun \in Runs /\ exec[NewRun].stage = "none"
  BY DEF Started, NewRun, Unused

LEMMA StartsKeep ==
  ASSUME RefreshInvariant, NEW c \in Callers,
         AskStart(c) \/ List(c) \/ StartExecution(c) \/ StartFails(c)
  PROVE  RefreshInvariant'
  <1> USE DEF RefreshInvariant
  <1>1. CASE UNCHANGED <<engine, exec, exports, job, outcome, run, poll>>
    <2>1. PipelineInvariant'
      BY <1>1 DEF outcome, PipelineInvariant, RunTypeOK, ReachedWasDone, WasDone
    <2>2. Advances
      BY <1>1 DEF outcome, Advances, PipelineInvariant, RunTypeOK, Job
    <2> QED BY <1>1, <2>1, <2>2, PipelineKeepsRefresh
  <1>2. ASSUME Started, UNCHANGED <<engine, exports, job, outcome>>
        PROVE  PipelineInvariant' /\ Advances
    BY <1>2, NewRunIsUnused, StartExecutionAdvances DEF Started, outcome
  <1>3. CASE StartFails(c)
    <2>1. CASE UNCHANGED exec
      BY <1>1, <1>3, <2>1 DEF StartFails
    <2>2. CASE ~UNCHANGED exec
      BY <1>2, <1>3, <2>2, PipelineKeepsRefresh DEF StartFails
    <2> QED BY <2>1, <2>2
  <1>4. CASE StartExecution(c)
    <2> DEFINE r == NewRun
    <2>1. /\ r \in Runs /\ Started /\ UNCHANGED <<engine, exports, job, outcome>>
          /\ exec' = [exec EXCEPT ![r].stage = "export", ![r].reached = 1]
          /\ run' = IF c = "page"
                    THEN [id |-> r, status |-> "RUNNING", done |-> Progress("RUNNING", {})]
                    ELSE run
      BY <1>4, NewRunIsUnused DEF StartExecution, Started
    <2> HIDE DEF r
    <2>2. PipelineInvariant' /\ Advances
      BY <1>2, <2>1
    <2>3. CASE c # "page"
      BY <1>4, <2>1, <2>2, <2>3, PipelineKeepsRefresh DEF StartExecution
    <2>4. CASE c = "page"
      <3> DEFINE done == Progress("RUNNING", {})
      <3>1. /\ run' = [id |-> r, status |-> "RUNNING", done |-> done]
            /\ poll' = [phase |-> "timer", status |-> None, seen |-> None]
        BY <1>4, <2>1, <2>4, FreshPolls DEF StartExecution
      <3>2. ~done.EXPORT /\ ~done.EMR_START /\ ~done.SPARK /\ ~done.PUBLISH
        BY ProgressTells
      <3> HIDE DEF done
      <3>3. Followed(run') /\ run'.id = r
        BY <2>1, <3>1 DEF Followed
      <3>4. exec'[r].stage # "none"
        BY <2>1 DEF PipelineInvariant, RunTypeOK, Execution
      <3>5. PollTypeOK' /\ PollIsTrue'
        BY <3>1, <3>3, <3>4 DEF PollTypeOK, PollIsTrue
      <3>6. ProgressIsTrue'
        BY <3>1, <3>2 DEF ProgressIsTrue, Terminal
      <3> QED BY <2>2, <3>5, <3>6
    <2> QED BY <2>3, <2>4
  <1>5. CASE AskStart(c) \/ List(c)
    BY <1>1, <1>5 DEF AskStart, List, pipeline
  <1> QED BY <1>3, <1>4, <1>5

LEMMA StatusTells ==
  ASSUME PipelineInvariant, NEW r \in Runs, exec[r].stage # "none"
  PROVE  StatusIsTrue(r, Status(r))
  <1>1. exec[r].stage \in {"none"} \cup Active \cup Terminal
    BY DEF PipelineInvariant, RunTypeOK, Execution, Stages
  <1>2. exec[r].stage = "SUCCEEDED" => r \in published
    BY DEF PipelineInvariant, ReachedWasDone, WasDone
  <1> QED BY <1>1, <1>2 DEF StatusIsTrue, Status, Running, Active, Terminal

\* A poll reads something of the run it follows.
LEMMA PollReads ==
  ASSUME RefreshInvariant, UNCHANGED <<pipeline, run>>, poll.phase # "off",
         DOMAIN poll' = {"phase", "status", "seen"}, poll'.phase = "asked",
         poll'.status # None => StatusIsTrue(run.id, poll'.status),
         poll'.seen # None => SeenIsTrue(run.id, poll'.seen)
  PROVE  RefreshInvariant'
  <1> USE DEF RefreshInvariant
  <1>1. PipelineInvariant'
    BY DEF pipeline, outcome, PipelineInvariant, RunTypeOK, ReachedWasDone, WasDone
  <1>2. PollTypeOK' /\ PollIsTrue'
    BY DEF PollTypeOK, PollIsTrue, StatusIsTrue, SeenIsTrue, pipeline, outcome
  <1>3. ProgressIsTrue'
    BY DEF ProgressIsTrue, pipeline, outcome
  <1> QED BY <1>1, <1>2, <1>3

LEMMA AnswerKeeps ==
  ASSUME RefreshInvariant, Answer
  PROVE  RefreshInvariant'
  <1> USE DEF RefreshInvariant
  <1>1. /\ poll.status # None /\ poll.seen # None /\ UNCHANGED pipeline
        /\ run' = [run EXCEPT !.status = poll.status, !.done = Progress(poll.status, poll.seen)]
    BY DEF Answer
  <1>2. /\ Followed(run) /\ exec[run.id].stage # "none"
        /\ StatusIsTrue(run.id, poll.status) /\ SeenIsTrue(run.id, poll.seen)
    BY <1>1 DEF PollIsTrue
  <1> DEFINE done == Progress(poll.status, poll.seen)
  <1>3. /\ DOMAIN run' = {"id", "status", "done"} /\ run'.id = run.id
        /\ run'.status = poll.status /\ run'.done = done
    BY <1>1, <1>2 DEF Followed
  <1>4. /\ done.EXPORT => 2 \in poll.seen
        /\ done.EMR_START => 3 \in poll.seen
        /\ done.SPARK => 4 \in poll.seen
        /\ done.PUBLISH => poll.status = "SUCCEEDED"
    BY ProgressTells
  <1> HIDE DEF done
  <1>5. ProgressIsTrue'
    BY <1>1, <1>2, <1>3, <1>4 DEF ProgressIsTrue, StatusIsTrue, SeenIsTrue, pipeline, outcome
  <1>6. PipelineInvariant'
    BY <1>1 DEF pipeline, outcome, PipelineInvariant, RunTypeOK, ReachedWasDone, WasDone
  <1>7. \/ poll' = [phase |-> "timer", status |-> None, seen |-> None]
        \/ poll' = [phase |-> "off", status |-> None, seen |-> None]
    BY FreshPolls DEF Answer, NoPoll
  <1>8. PollTypeOK' /\ PollIsTrue'
    BY <1>1, <1>2, <1>3, <1>7 DEF PollTypeOK, PollIsTrue, Followed, pipeline
  <1> QED BY <1>5, <1>6, <1>8

LEMMA PollKeeps ==
  ASSUME RefreshInvariant,
         Poll \/ DescribeExecution \/ GetHistory \/ Answer \/ PollFails \/ RangeChanges
  PROVE  RefreshInvariant'
  <1> USE DEF RefreshInvariant
  <1>1. CASE Poll
    <2>1. poll.phase = "timer" /\ poll' = [poll EXCEPT !.phase = "asked"] /\ UNCHANGED <<pipeline, run>>
      BY <1>1 DEF Poll
    <2>2. poll.status = None /\ poll.seen = None
      BY <2>1 DEF PollIsTrue
    <2>3. /\ DOMAIN poll' = {"phase", "status", "seen"} /\ poll'.phase = "asked"
          /\ poll'.status = None /\ poll'.seen = None
      BY <2>1, <2>2 DEF PollTypeOK
    <2> QED BY <2>1, <2>3, PollReads
  <1>2. CASE DescribeExecution
    <2>1. PICK status \in {Status(run.id), "RUNNING"} :
            /\ poll.phase = "asked" /\ poll' = [poll EXCEPT !.status = status]
            /\ UNCHANGED <<pipeline, run>>
      BY <1>2 DEF DescribeExecution
    <2>2. StatusIsTrue(run.id, status)
      <3>1. StatusIsTrue(run.id, Status(run.id))
        BY <2>1, StatusTells DEF PollIsTrue, Followed
      <3> QED BY <3>1 DEF StatusIsTrue, Terminal
    <2>3. /\ DOMAIN poll' = {"phase", "status", "seen"} /\ poll'.phase = "asked"
          /\ poll'.status = status /\ poll'.seen = poll.seen
      BY <2>1 DEF PollTypeOK
    <2> QED BY <2>1, <2>2, <2>3, PollReads DEF PollIsTrue
  <1>3. CASE GetHistory
    <2>1. PICK pushed \in Pushed(exec[run.id].reached) :
            /\ poll.phase = "asked"
            /\ poll' = [poll EXCEPT !.seen = pushed + 1 .. exec[run.id].reached]
            /\ UNCHANGED <<pipeline, run>>
      BY <1>3 DEF GetHistory
    <2> DEFINE seen == pushed + 1 .. exec[run.id].reached
    <2>2. run.id \in Runs
      BY <2>1 DEF PollIsTrue, Followed
    <2>3. SeenIsTrue(run.id, seen)
      <3>1. exec[run.id].reached \in 0..4 /\ pushed \in 0..2
        BY <2>1, <2>2 DEF PipelineInvariant, RunTypeOK, Execution, Milestones, Pushed
      <3>2. WasDone(run.id, exec[run.id], job[run.id])
        BY <2>2 DEF PipelineInvariant, ReachedWasDone
      <3> QED BY <3>1, <3>2 DEF SeenIsTrue, WasDone
    <2>4. /\ DOMAIN poll' = {"phase", "status", "seen"} /\ poll'.phase = "asked"
          /\ poll'.status = poll.status /\ poll'.seen = seen
      BY <2>1 DEF PollTypeOK
    <2> HIDE DEF seen
    <2> QED BY <2>1, <2>3, <2>4, PollReads DEF PollIsTrue
  <1>4. CASE PollFails
    <2>1. Followed(run) /\ exec[run.id].stage # "none"
      BY <1>4 DEF PollFails, PollIsTrue
    <2> QED BY <1>4, <2>1, FreshPolls, FreshPoll DEF PollFails
  <1>5. CASE RangeChanges
    <2>1. Followed(run) /\ exec[run.id].stage # "none"
      BY <1>5 DEF RangeChanges, PollIsTrue
    <2> QED BY <1>5, <2>1, FreshPolls, FreshPoll DEF RangeChanges
  <1> QED BY <1>1, <1>2, <1>3, <1>4, <1>5, AnswerKeeps

LEMMA RefreshStep ==
  ASSUME RefreshInvariant, [Next]_vars
  PROVE  RefreshInvariant'
  <1> USE DEF RefreshInvariant
  <1>1. ASSUME NEW r \in Runs,
               \/ StartExport(r) \/ ExportEnds(r) \/ CheckExport(r)
               \/ StartJob(r) \/ JobEnds(r) \/ CheckJob(r) \/ Abandon(r)
        PROVE  RefreshInvariant'
    <2>1. PipelineInvariant' /\ Advances
      BY <1>1, StartExportAdvances, ExportEndsAdvances, CheckExportAdvances, StartJobAdvances,
         JobEndsAdvances, CheckJobAdvances, AbandonAdvances
    <2>2. UNCHANGED follow
      BY <1>1 DEF StartExport, ExportEnds, CheckExport, StartJob, JobEnds, CheckJob, Abandon
    <2> QED BY <2>1, <2>2, PipelineKeepsRefresh DEF follow
  <1>2. CASE UNCHANGED vars
    <2>1. PipelineInvariant' /\ Advances
      BY <1>2 DEF vars, pipeline, outcome, PipelineInvariant, RunTypeOK, ReachedWasDone, WasDone,
                  Advances, Job
    <2> QED BY <1>2, <2>1, PipelineKeepsRefresh DEF vars, follow
  <1> QED BY <1>1, <1>2, StartsKeep, PollKeeps DEF Next

THEOREM RefreshInvariantHolds == Spec => []RefreshInvariant
  <1>1. Init => RefreshInvariant
    <2>1. Init => PollTypeOK /\ PollIsTrue /\ ProgressIsTrue
      BY DEF Init, NoPoll, PollTypeOK, PollIsTrue, ProgressIsTrue
    <2> QED BY <2>1, RunInit DEF RefreshInvariant
  <1> QED BY <1>1, RefreshStep, PTL DEF Spec

\* The page never shows a step completed that was not, nor an end that was not the run's.
THEOREM ShownProgressIsTrue == Spec => []ProgressIsTrue
  <1>1. RefreshInvariant => ProgressIsTrue
    BY DEF RefreshInvariant
  <1> QED BY <1>1, RefreshInvariantHolds, PTL

-----------------------------------------------------------------------------
(* The snapshot.  As long as starts do not pass each other and no job      *)
(* outlives its execution, at most one execution runs or is about to, its  *)
(* export is the last one, and only its job writes.                        *)

CallersOK == caller \in [Callers -> {"idle", "asking", "free"}]

OneAtATime ==
  /\ \A q, r \in Runs : Running(q) /\ Running(r) => q = r
  /\ \A c, d \in Callers : caller[c] = "free" /\ caller[d] = "free" => c = d
  /\ (\E c \in Callers : caller[c] = "free") => \A r \in Runs : ~Running(r)
  /\ \A r \in Runs : job[r].last = "RUNNING" => Running(r)

LastExports ==
  \A r \in Runs : /\ exec[r].asOf <= exports
                  /\ Running(r) /\ exec[r].asOf > 0 => exec[r].asOf = exports

NewestIsLatest ==
  /\ published # {} => snapshot \in published
  /\ \A q \in published : exec[q].asOf <= exec[snapshot].asOf

Serial == OneAtATime /\ LastExports /\ NewestIsLatest

SnapshotInvariant == CallersOK /\ (~crossed => Serial)

\* An execution moves on or ends, with its job unless that is left to itself.
LEMMA SerialRow ==
  ASSUME PipelineInvariant, Serial, NEW r \in Runs, NEW e, NEW j,
         exec' = [exec EXCEPT ![r] = e], job' = [job EXCEPT ![r] = j],
         UNCHANGED <<exports, published, snapshot, caller>>,
         e.asOf = exec[r].asOf, e.stage \in Active => Running(r),
         j.last = "RUNNING" => e.stage \in Active
  PROVE  Serial'
  <1>1. /\ exec'[r] = e /\ job'[r] = j
        /\ \A q \in Runs : q # r => exec'[q] = exec[q] /\ job'[q] = job[q]
        /\ \A q \in Runs : exec'[q].asOf = exec[q].asOf
        /\ \A q \in Runs : Running(q)' => Running(q)
    BY DEF PipelineInvariant, RunTypeOK, Running
  <1>2. OneAtATime'
    BY <1>1 DEF Serial, OneAtATime, Running
  <1>3. LastExports'
    BY <1>1 DEF Serial, LastExports
  <1>4. NewestIsLatest'
    BY <1>1 DEF Serial, NewestIsLatest, PipelineInvariant, RunTypeOK
  <1> QED BY <1>2, <1>3, <1>4 DEF Serial

\* Asking, listing and giving up change nobody's execution.
LEMMA SerialCallers ==
  ASSUME Serial, UNCHANGED <<exec, exports, job, published, snapshot>>,
         \A c \in Callers : caller'[c] = "free" => caller[c] = "free" \/ \A r \in Runs : ~Running(r),
         \A c, d \in Callers : caller'[c] = "free" /\ caller'[d] = "free" => c = d
  PROVE  Serial'
  <1>1. \A r \in Runs : Running(r)' <=> Running(r)
    BY DEF Running
  <1>2. OneAtATime'
    BY <1>1 DEF Serial, OneAtATime
  <1>3. LastExports' /\ NewestIsLatest'
    BY <1>1 DEF Serial, LastExports, NewestIsLatest
  <1> QED BY <1>2, <1>3 DEF Serial

\* The one caller that is free starts an execution.
LEMMA SerialStart ==
  ASSUME PipelineInvariant, CallersOK, Serial, NEW c \in Callers, caller[c] = "free", Started,
         caller' = [caller EXCEPT ![c] = "idle"], UNCHANGED <<exports, job, published, snapshot>>
  PROVE  Serial'
  <1> DEFINE n == NewRun
  <1>1. /\ n \in Runs /\ exec[n].stage = "none" /\ exec[n].asOf = 0
        /\ exec' = [exec EXCEPT ![n].stage = "export", ![n].reached = 1]
    BY NewRunIsUnused DEF Started, PipelineInvariant, ReachedWasDone, WasDone
  <1> HIDE DEF n
  <1>2. /\ \A q \in Runs : exec'[q].asOf = exec[q].asOf
        /\ \A q \in Runs : q # n => exec'[q] = exec[q]
    BY <1>1 DEF PipelineInvariant, RunTypeOK, Execution
  <1>3. \A q \in Runs : ~Running(q)
    BY DEF Serial, OneAtATime
  <1>4. \A q \in Runs : Running(q)' => q = n
    BY <1>2, <1>3 DEF Running
  <1>5. \A d \in Callers : caller'[d] # "free"
    BY DEF CallersOK, Serial, OneAtATime
  <1>6. OneAtATime'
    BY <1>3, <1>4, <1>5 DEF Serial, OneAtATime
  <1>7. LastExports'
    <2> SUFFICES ASSUME NEW q \in Runs
                 PROVE  /\ exec'[q].asOf <= exports'
                        /\ Running(q)' /\ exec'[q].asOf > 0 => exec'[q].asOf = exports'
      BY DEF LastExports
    <2>1. exec'[q].asOf = exec[q].asOf /\ exports' = exports /\ exec[q].asOf <= exports
      BY <1>2 DEF Serial, LastExports
    <2>2. Running(q)' => exec[q].asOf = 0
      BY <1>1, <1>4
    <2> QED BY <2>1, <2>2
  <1>8. NewestIsLatest'
    BY <1>2 DEF Serial, NewestIsLatest, PipelineInvariant, RunTypeOK
  <1> QED BY <1>6, <1>7, <1>8 DEF Serial

LEMMA SerialStarts ==
  ASSUME PipelineInvariant, SnapshotInvariant, NEW c \in Callers,
         AskStart(c) \/ List(c) \/ StartExecution(c) \/ StartFails(c)
  PROVE  SnapshotInvariant'
  <1> USE DEF SnapshotInvariant
  <1>1. CASE AskStart(c)
    <2>1. CallersOK' /\ (~crossed' => ~crossed)
      BY <1>1 DEF AskStart, CallersOK, pipeline
    <2>2. ~crossed => Serial'
      BY <1>1, SerialCallers DEF AskStart, CallersOK, pipeline, outcome, Serial, OneAtATime
    <2> QED BY <2>1, <2>2
  <1>2. CASE List(c)
    <2>1. PICK missing \in SUBSET {r \in Runs : exec[r].stage = "export"} :
            /\ MayStart(c, {r \in Runs : Running(r)} \ missing)
            /\ crossed' = (crossed \/ /\ caller'[c] = "free"
                                      /\ missing # {} \/ \E d \in Callers \ {c} : caller[d] = "free")
      BY <1>2 DEF List
    <2>2. CallersOK'
      BY <2>1 DEF MayStart, CallersOK
    <2>3. ASSUME ~crossed' PROVE Serial'
      <3>1. UNCHANGED <<exec, exports, job, published, snapshot>>
        BY <1>2 DEF List, outcome
      <3>2. caller'[c] = "free" => /\ \A r \in Runs : ~Running(r)
                                   /\ \A d \in Callers \ {c} : caller[d] # "free"
        BY <2>1, <2>3 DEF MayStart, CallersOK
      <3>3. \A d \in Callers \ {c} : caller'[d] = caller[d]
        BY <2>1 DEF MayStart, CallersOK
      <3>4. Serial
        BY <2>1, <2>3
      <3> QED BY <3>1, <3>2, <3>3, <3>4, SerialCallers DEF Serial, OneAtATime
    <2> QED BY <2>2, <2>3
  <1>3. CASE StartExecution(c)
    <2>1. CallersOK'
      BY <1>3 DEF StartExecution, CallersOK
    <2>2. UNCHANGED crossed /\ (~crossed => Serial')
      BY <1>3, SerialStart DEF StartExecution, outcome
    <2> QED BY <2>1, <2>2
  <1>4. CASE StartFails(c)
    <2>1. /\ caller' = [caller EXCEPT ![c] = "idle"]
          /\ UNCHANGED <<exports, job, published, snapshot, crossed>>
      BY <1>4 DEF StartFails, outcome
    <2>2. CallersOK'
      BY <2>1 DEF CallersOK
    <2>3. ASSUME UNCHANGED exec, ~crossed PROVE Serial'
      <3>1. \A d \in Callers : caller'[d] = "free" => caller[d] = "free"
        BY <2>1 DEF CallersOK
      <3> QED BY <2>1, <2>3, <3>1, SerialCallers DEF Serial, OneAtATime
    <2>4. ASSUME caller[c] = "free", Started, ~crossed PROVE Serial'
      BY <2>1, <2>4, SerialStart
    <2> QED BY <1>4, <2>1, <2>2, <2>3, <2>4 DEF StartFails
  <1> QED BY <1>1, <1>2, <1>3, <1>4

\* The export of the running execution becomes the last one.
LEMMA SerialExport ==
  ASSUME PipelineInvariant, Serial, NEW r \in Runs, StartExport(r)
  PROVE  Serial'
  <1> DEFINE asOf == IF exec[r].asOf = 0 THEN exports + 1 ELSE exec[r].asOf
  <1>1. /\ exec[r].stage = "export" /\ Running(r) /\ exports \in Nat /\ exec[r].asOf \in Nat
        /\ UNCHANGED <<job, published, snapshot, caller>>
        /\ exports' = IF exec[r].asOf = 0 THEN exports + 1 ELSE exports
    BY DEF StartExport, Running, Active, outcome, follow, PipelineInvariant, RunTypeOK, Execution
  <1>2. /\ exec'[r].asOf = asOf
        /\ exec'[r].stage \in {"export", "exporting"}
        /\ \A q \in Runs : q # r => exec'[q] = exec[q]
    BY <1>1 DEF StartExport, PipelineInvariant, RunTypeOK, Execution
  <1>3. \A q \in Runs : Running(q)' <=> Running(q)
    BY <1>1, <1>2 DEF Running, Active
  <1>4. OneAtATime'
    BY <1>1, <1>3 DEF Serial, OneAtATime
  <1>5. \A q \in Runs : exec[q].asOf \in Nat
    BY DEF PipelineInvariant, RunTypeOK, Execution
  <1>6. LastExports'
    BY <1>1, <1>2, <1>3, <1>5 DEF Serial, LastExports, OneAtATime
  <1>7. \A q \in published : exec'[q].asOf = exec[q].asOf
    BY <1>1, <1>2 DEF PipelineInvariant, RunTypeOK, ReachedWasDone, WasDone
  <1>8. NewestIsLatest'
    BY <1>1, <1>7 DEF Serial, NewestIsLatest
  <1> QED BY <1>4, <1>6, <1>8 DEF Serial

\* What a job writes is of the last export.
LEMMA SerialJob ==
  ASSUME PipelineInvariant, Serial, NEW r \in Runs, JobEnds(r)
  PROVE  Serial'
  <1>1. /\ job[r].last = "RUNNING" /\ UNCHANGED <<exec, exports, caller>>
        /\ \/ UNCHANGED <<published, snapshot>>
           \/ published' = published \cup {r} /\ snapshot' = r
    BY DEF JobEnds, follow
  <1>2. Running(r) /\ exec[r].asOf > 0
    BY <1>1 DEF Serial, OneAtATime, PipelineInvariant, ReachedWasDone, WasDone
  <1>3. PICK j \in Job : job' = [job EXCEPT ![r] = j]
    BY JobEnded
  <1>4. \A q \in Runs : q # r => job'[q] = job[q]
    BY <1>3 DEF PipelineInvariant, RunTypeOK
  <1>5. \A q \in Runs : Running(q)' <=> Running(q)
    BY <1>1 DEF Running
  <1>6. OneAtATime'
    BY <1>1, <1>2, <1>4, <1>5 DEF Serial, OneAtATime
  <1>7. LastExports'
    BY <1>1, <1>5 DEF Serial, LastExports
  <1>8. exec[r].asOf = exports /\ \A q \in Runs : exec[q].asOf <= exports
    BY <1>2 DEF Serial, LastExports
  <1>9. NewestIsLatest'
    BY <1>1, <1>8 DEF Serial, NewestIsLatest, PipelineInvariant, RunTypeOK
  <1> QED BY <1>6, <1>7, <1>9 DEF Serial

LEMMA SerialPipeline ==
  ASSUME PipelineInvariant, SnapshotInvariant, NEW r \in Runs,
         \/ StartExport(r) \/ ExportEnds(r) \/ CheckExport(r)
         \/ StartJob(r) \/ JobEnds(r) \/ CheckJob(r) \/ Abandon(r)
  PROVE  SnapshotInvariant'
  <1>1. UNCHANGED caller /\ (~crossed' => ~crossed)
    <2>1. CASE StartExport(r) \/ ExportEnds(r) \/ CheckExport(r) \/ JobEnds(r) \/ CheckJob(r)
      BY <2>1 DEF StartExport, ExportEnds, CheckExport, JobEnds, CheckJob, follow
    <2>2. CASE StartJob(r)
      <3>1. UNCHANGED caller
        BY <2>2 DEF StartJob, follow
      <3>2. Outlived(r) \/ crossed' = crossed
        BY <2>2 DEF StartJob
      <3>3. CASE Outlived(r)
        BY <3>1, <3>3, Zenon DEF Outlived
      <3>4. CASE crossed' = crossed
        BY <3>1, <3>4
      <3> QED BY <3>2, <3>3, <3>4
    <2>3. CASE Abandon(r)
      BY <2>3 DEF Abandon, Outlived, follow
    <2> QED BY <2>1, <2>2, <2>3
  <1>2. CallersOK'
    BY <1>1 DEF SnapshotInvariant, CallersOK
  <1>3. SUFFICES ASSUME ~crossed' PROVE Serial'
    BY <1>2 DEF SnapshotInvariant
  <1>4. Serial
    BY <1>1, <1>3 DEF SnapshotInvariant
  <1>5. /\ exec \in [Runs -> Execution] /\ job \in [Runs -> Job]
        /\ WasDone(r, exec[r], job[r])
        /\ exec[r] \in Execution /\ job = [job EXCEPT ![r] = job[r]]
        /\ exec = [exec EXCEPT ![r] = exec[r]]
    BY DEF PipelineInvariant, RunTypeOK, ReachedWasDone
  <1>6. ASSUME NEW stage, NEW reached,
               exec' = [exec EXCEPT ![r].stage = stage, ![r].reached = reached],
               UNCHANGED <<exports, job, published, snapshot>>,
               stage \in Active => Running(r), job[r].last = "RUNNING" => stage \in Active
        PROVE  Serial'
    <2> DEFINE e == [exec[r] EXCEPT !.stage = stage, !.reached = reached]
    <2>1. exec' = [exec EXCEPT ![r] = e] /\ e.stage = stage /\ e.asOf = exec[r].asOf
      BY <1>5, <1>6 DEF Execution
    <2> HIDE DEF e
    <2>2. job' = [job EXCEPT ![r] = job[r]] /\ UNCHANGED <<exports, published, snapshot, caller>>
      BY <1>1, <1>5, <1>6
    <2>3. (e.stage \in Active => Running(r)) /\ (job[r].last = "RUNNING" => e.stage \in Active)
      BY <1>6, <2>1
    <2> QED BY <1>4, <2>1, <2>2, <2>3, SerialRow
  <1>7. ASSUME NEW stage, exec' = [exec EXCEPT ![r].stage = stage],
               UNCHANGED <<exports, job, published, snapshot>>,
               stage \in Active => Running(r), job[r].last = "RUNNING" => stage \in Active
        PROVE  Serial'
    <2>1. exec' = [exec EXCEPT ![r].stage = stage, ![r].reached = exec[r].reached]
      BY <1>5, <1>7 DEF Execution
    <2> QED BY <1>6, <1>7, <2>1
  <1>8. CASE ExportEnds(r)
    <2>1. PICK s \in {"COMPLETED", "FAILED"} : exec' = [exec EXCEPT ![r].export = s]
      BY <1>8 DEF ExportEnds
    <2> DEFINE e == [exec[r] EXCEPT !.export = s]
    <2>2. exec' = [exec EXCEPT ![r] = e] /\ e.stage = exec[r].stage /\ e.asOf = exec[r].asOf
      BY <1>5, <2>1 DEF Execution
    <2> HIDE DEF e
    <2>3. UNCHANGED <<exports, job, published, snapshot, caller>>
      BY <1>8 DEF ExportEnds, outcome, follow
    <2> QED BY <1>4, <1>5, <2>2, <2>3, SerialRow DEF Running, Serial, OneAtATime
  <1>9. CASE CheckExport(r)
    <2>1. /\ UNCHANGED <<exports, job, published, snapshot>>
          /\ job[r].last = "none" /\ Running(r)
      BY <1>5, <1>9 DEF CheckExport, outcome, WasDone, Running, Active
    <2> QED BY <1>6, <1>7, <1>9, <2>1 DEF CheckExport
  <1>10. CASE StartJob(r)
    <2>1. UNCHANGED <<exports, published, snapshot, caller>> /\ Running(r)
      BY <1>10 DEF StartJob, outcome, follow, Running, Active
    <2>2. CASE engine = "glue" /\ \E q \in Runs : job[q].last = "RUNNING"
      BY <1>3, <1>7, <1>10, <2>1, <2>2 DEF StartJob, Outlived
    <2>3. CASE ~(engine = "glue" /\ \E q \in Runs : job[q].last = "RUNNING")
      <3>1. PICK j : job' = [job EXCEPT ![r] = j]
        BY <1>5, <1>10, <2>3 DEF StartJob
      <3>2. PICK e : /\ exec' = [exec EXCEPT ![r] = e] /\ e.stage \in Active
                     /\ e.asOf = exec[r].asOf
        <4>1. CASE exec' = exec
          BY <1>5, <2>1, <4>1 DEF Running
        <4>2. CASE exec' = [exec EXCEPT ![r].stage = "running", ![r].reached = 3]
          <5> DEFINE e == [exec[r] EXCEPT !.stage = "running", !.reached = 3]
          <5>1. /\ exec' = [exec EXCEPT ![r] = e] /\ e.stage = "running" /\ e.asOf = exec[r].asOf
            BY <1>5, <4>2 DEF Execution
          <5> HIDE DEF e
          <5> QED BY <5>1 DEF Active
        <4> QED BY <1>10, <2>3, <4>1, <4>2 DEF StartJob
      <3> QED BY <1>4, <2>1, <3>1, <3>2, SerialRow
    <2> QED BY <2>2, <2>3
  <1>11. CASE CheckJob(r)
    <2>1. /\ UNCHANGED <<exports, job, published, snapshot>> /\ job[r].last # "RUNNING"
      BY <1>11 DEF CheckJob, outcome
    <2>2. "SUCCEEDED" \notin Active /\ "FAILED" \notin Active
      BY DEF Active
    <2>3. CASE exec' = [exec EXCEPT ![r].stage = "SUCCEEDED", ![r].reached = 4]
      BY <1>6, <2>1, <2>2, <2>3
    <2>4. CASE exec' = [exec EXCEPT ![r].stage = "FAILED"]
      BY <1>7, <2>1, <2>2, <2>4
    <2> QED BY <1>11, <2>3, <2>4 DEF CheckJob
  <1>12. CASE Abandon(r)
    BY <1>3, <1>7, <1>12 DEF Abandon, Outlived, outcome, Active
  <1> QED BY <1>4, <1>8, <1>9, <1>10, <1>11, <1>12, SerialExport, SerialJob

LEMMA SnapshotStep ==
  ASSUME PipelineInvariant, SnapshotInvariant, [Next]_vars
  PROVE  SnapshotInvariant'
  <1>1. CASE UNCHANGED <<pipeline, caller>>
    <2>1. CallersOK' /\ (crossed' <=> crossed)
      BY <1>1 DEF SnapshotInvariant, CallersOK, pipeline
    <2>2. Serial => Serial'
      BY <1>1 DEF pipeline, outcome, Serial, OneAtATime, LastExports, NewestIsLatest, Running
    <2> QED BY <2>1, <2>2 DEF SnapshotInvariant
  <1>2. CASE Poll \/ DescribeExecution \/ GetHistory \/ Answer \/ PollFails \/ RangeChanges
    BY <1>1, <1>2 DEF Poll, DescribeExecution, GetHistory, Answer, PollFails, RangeChanges
  <1>3. CASE UNCHANGED vars
    BY <1>1, <1>3 DEF vars, follow
  <1> QED BY <1>2, <1>3, SerialStarts, SerialPipeline DEF Next

\* Whatever is invoked again, fails or is run once more, with any number of executions, the
\* figures never go back in time while starts do not cross and no job is left to itself.
THEOREM SnapshotStaysNewest == Spec => []SnapshotIsNewest
  <1>1. Init => SnapshotInvariant
    BY DEF Init, SnapshotInvariant, CallersOK, Serial, OneAtATime, LastExports, NewestIsLatest,
           Running, Active
  <1>2. RefreshInvariant => PipelineInvariant
    BY DEF RefreshInvariant
  <1>3. SnapshotInvariant => SnapshotIsNewest
    BY DEF SnapshotInvariant, Serial, NewestIsLatest, SnapshotIsNewest
  <1> QED BY <1>1, <1>2, <1>3, RefreshInvariantHolds, SnapshotStep, PTL DEF Spec

-----------------------------------------------------------------------------
(* The page of an order.  While commands and loads do not overlap, at most *)
(* one of the two flows is busy; a load keeps the page behind its skeleton *)
(* until all that it shows is of the order it has put there.               *)

Stage(k) == flow[k].stage
FlowStages == {"idle", "sent", "served", "order", "details", "url"}

FlowFields == {"stage", "next", "row", "events", "driver", "proof"}
PageFields == {"order", "events", "driver", "proof", "url", "loading", "error", "dialog",
               "overlapped"}

\* An order of these statuses had its exception reported, an assigned one has a driver.
Excepted == {"DELIVERY_FAILED", "RESCHEDULED", "CANCELLED", "RETURNING", "RETURNED"}
Rows ==
  {row \in [status : O!Statuses, driver : Drivers \cup {None}, exception : BOOLEAN] :
     /\ row.status = "ASSIGNED" => row.driver # None
     /\ row.status \in Excepted => row.exception}

\* A timeline as it was read for one of the order's rows.
IsTimeline(e) ==
  /\ e.of \in 1..Len(journal)
  /\ O!EventOf[journal[e.of].status] \in e.types

OrderTypeOK ==
  /\ journal \in Seq(Rows) /\ journal # <<>>
  /\ DOMAIN flow = O!Kinds
  /\ \A k \in O!Kinds : DOMAIN flow[k] = FlowFields /\ Stage(k) \in FlowStages
  /\ DOMAIN orderPage = PageFields
  /\ orderPage.order \in 0..Len(journal)
  /\ orderPage.events # None => IsTimeline(orderPage.events)
  /\ \A k \in O!Kinds :
       /\ Stage(k) = "sent" => flow[k].next \in O!UpdatableStatuses
       /\ flow[k].events \in {None, Failed} \/ IsTimeline(flow[k].events)

\* A served command, and a load that has read the order, know a row of the journal.
RowsRead ==
  \A k \in O!Kinds : Stage(k) \in {"served", "details"} => flow[k].row \in 1..Len(journal)

OneIsBusy == ~orderPage.overlapped => Stage("start") = "idle" \/ Stage("change") = "idle"

\* Before an order is shown there is nothing to command.
NothingToCommand == orderPage.order = 0 => Stage("change") = "idle"

BehindSkeleton ==
  \A k \in O!Kinds :
    ~orderPage.overlapped /\ Stage(k) \in {"order", "details", "url"} => orderPage.loading

\* What a load has read since the order belongs to it.
DetailsBelong(l) ==
  /\ l.row = orderPage.order
  /\ l.events \in {None, Failed} \/ l.events.of >= l.row
  /\ l.driver \in {None, Failed, journal[l.row].driver}

LoadBelongs ==
  \A k \in O!Kinds :
    /\ Stage(k) = "order" => flow[k].events = None /\ flow[k].driver = None
    /\ ~orderPage.overlapped /\ Stage(k) = "details" => DetailsBelong(flow[k])
    /\ ~orderPage.overlapped /\ Stage(k) = "url"
         => O!DetailsMatch /\ orderPage.proof /\ orderPage.order # 0

PageInvariant ==
  OrderTypeOK /\ RowsRead /\ OneIsBusy /\ NothingToCommand /\ BehindSkeleton /\ LoadBelongs
  /\ PageAgrees

LEMMA PageInitially == O!Init => PageInvariant
  <1> SUFFICES ASSUME O!Init PROVE PageInvariant
    OBVIOUS
  <1>0. journal \in Seq(Rows) /\ journal # <<>> /\ Len(journal) = 1
    <2>1. PICK d \in Drivers : d = CHOOSE e \in Drivers : TRUE
      BY DriversAssumption
    <2>2. \/ journal = <<[status |-> "PENDING", driver |-> None, exception |-> FALSE]>>
          \/ journal = <<[status |-> "ASSIGNED", driver |-> d, exception |-> FALSE]>>
      BY <2>1, Zenon DEF O!Init
    <2>3. PICK row \in Rows : journal = <<row>>
      BY <2>2, DriversAssumption DEF Rows, O!Statuses, Excepted
    <2> QED BY <2>3
  <1>1. /\ Len(journal) = 1
        /\ flow = [k \in O!Kinds |-> IF k = "start" THEN O!Loading ELSE O!Idle]
        /\ orderPage = [order |-> 0, events |-> None, driver |-> None, proof |-> FALSE, url |-> FALSE,
                        loading |-> TRUE, error |-> FALSE, dialog |-> FALSE, overlapped |-> FALSE]
    BY DEF O!Init
  <1>2. /\ DOMAIN O!Loading = FlowFields /\ O!Loading.stage = "order"
        /\ O!Loading.events = None /\ O!Loading.driver = None
        /\ DOMAIN O!Idle = FlowFields /\ O!Idle.stage = "idle" /\ O!Idle.events = None
    BY DEF O!Loading, O!Idle, FlowFields
  <1>3. /\ flow["start"] = O!Loading /\ flow["change"] = O!Idle /\ O!Kinds = {"start", "change"}
        /\ DOMAIN flow = O!Kinds
    BY <1>1 DEF O!Kinds
  <1>4. OrderTypeOK
    BY <1>0, <1>1, <1>2, <1>3 DEF OrderTypeOK, Stage, FlowStages, PageFields
  <1>5. RowsRead /\ OneIsBusy /\ NothingToCommand /\ BehindSkeleton /\ LoadBelongs
    BY <1>1, <1>2, <1>3 DEF RowsRead, OneIsBusy, NothingToCommand, BehindSkeleton, LoadBelongs, Stage
  <1>6. PageAgrees
    BY <1>1 DEF PageAgrees, O!PageAgrees, O!Visible
  <1> QED BY <1>4, <1>5, <1>6 DEF PageInvariant

LEMMA JournalGrows ==
  ASSUME OrderTypeOK, NEW row \in Rows, journal' = Append(journal, row)
  PROVE  /\ journal' \in Seq(Rows) /\ journal' # <<>> /\ Len(journal') = Len(journal) + 1
         /\ Len(journal) \in Nat \ {0}
         /\ \A i \in 1..Len(journal) : journal'[i] = journal[i] /\ i \in 1..Len(journal')
         /\ \A e : IsTimeline(e) => IsTimeline(e)'
  <1>1. /\ journal' \in Seq(Rows) /\ journal' # <<>> /\ Len(journal') = Len(journal) + 1
        /\ Len(journal) \in Nat \ {0}
        /\ \A i \in 1..Len(journal) : journal'[i] = journal[i] /\ i \in 1..Len(journal')
    BY DEF OrderTypeOK
  <1> QED BY <1>1 DEF IsTimeline

\* The order goes on, and neither the page nor a load has heard of it.
LEMMA UnheardChange ==
  ASSUME PageInvariant, NEW row \in Rows, journal' = Append(journal, row),
         UNCHANGED <<orderPage, flow>>
  PROVE  PageInvariant'
  <1> USE DEF PageInvariant
  <1>1. /\ journal' \in Seq(Rows) /\ journal' # <<>> /\ Len(journal') = Len(journal) + 1
        /\ Len(journal) \in Nat \ {0}
        /\ \A i \in 1..Len(journal) : journal'[i] = journal[i] /\ i \in 1..Len(journal')
    BY JournalGrows
  <1>2. OrderTypeOK' /\ RowsRead'
    BY <1>1, JournalGrows DEF OrderTypeOK, RowsRead, Stage
  <1>3. OneIsBusy' /\ NothingToCommand' /\ BehindSkeleton'
    BY DEF OneIsBusy, NothingToCommand, BehindSkeleton, Stage
  <1>4. orderPage.order # 0 => (O!DetailsMatch)' = O!DetailsMatch
    BY <1>1 DEF OrderTypeOK, IsTimeline, O!DetailsMatch
  <1>5. \A k \in O!Kinds : Stage(k) = "details" => DetailsBelong(flow[k])' = DetailsBelong(flow[k])
    BY <1>1 DEF RowsRead, DetailsBelong
  <1>6. LoadBelongs'
    BY <1>4, <1>5 DEF LoadBelongs, Stage
  <1>7. PageAgrees'
    BY <1>4 DEF PageAgrees, O!PageAgrees, O!Visible, O!Busy
  <1> QED BY <1>2, <1>3, <1>6, <1>7

\* A proof is stored, and nothing that is shown changes.
LEMMA ProofStored ==
  ASSUME PageInvariant, UNCHANGED <<journal, orderPage, flow>>
  PROVE  PageInvariant'
  BY DEF PageInvariant, OrderTypeOK, RowsRead, OneIsBusy, NothingToCommand, BehindSkeleton,
         LoadBelongs, DetailsBelong, Stage, PageAgrees, O!PageAgrees, O!Visible, O!Busy,
         O!DetailsMatch, IsTimeline

\* An update admits a row.
LEMMA UpdateRow ==
  ASSUME OrderTypeOK, NEW next \in O!UpdatableStatuses, O!Admits(next), O!Update(next)
  PROVE  \E row \in Rows : journal' = Append(journal, row)
  <1> DEFINE row == [status |-> next,
                     driver |-> IF next = "RESCHEDULED" THEN None ELSE O!Row.driver,
                     exception |-> next \in {"DELIVERY_FAILED", "CANCELLED"} \/ O!Row.exception]
  <1>1. O!Row \in Rows
    BY DEF OrderTypeOK, O!Row, O!Now
  <1>2. next \in {"RESCHEDULED", "RETURNING"} => O!Row.status = "DELIVERY_FAILED"
    BY DEF O!Admits, O!CanTransition, O!Statuses, O!Transitions
  <1>3. next = "RETURNED" => O!Row.status = "RETURNING"
    BY DEF O!Admits, O!CanTransition, O!Statuses, O!Transitions
  <1>4. next \in O!Statuses /\ next # "ASSIGNED"
    BY DEF O!UpdatableStatuses
  <1>5. next \in Excepted => row.exception = TRUE
    BY <1>1, <1>2, <1>3 DEF Rows, Excepted
  <1>6. row \in [status : O!Statuses, driver : Drivers \cup {None}, exception : BOOLEAN]
    BY <1>1, <1>4 DEF Rows
  <1>7. row \in Rows
    BY <1>4, <1>5, <1>6 DEF Rows
  <1>8. journal' = Append(journal, row)
    BY DEF O!Update
  <1> HIDE DEF row
  <1> QED BY <1>7, <1>8

LEMMA ElsewhereKeeps ==
  ASSUME PageInvariant, O!Elsewhere
  PROVE  PageInvariant'
  <1>1. ASSUME NEW d \in Drivers, O!Assign(d)
        PROVE  PageInvariant'
    <2> DEFINE row == [status |-> "ASSIGNED", driver |-> d, exception |-> FALSE]
    <2>1. row \in Rows
      BY DriversAssumption DEF Rows, O!Statuses, Excepted
    <2>2. journal' = Append(journal, row)
      BY <1>1 DEF O!Assign
    <2> HIDE DEF row
    <2> QED BY <2>1, <2>2, UnheardChange DEF O!Elsewhere
  <1>2. ASSUME NEW next \in O!UpdatableStatuses, O!Admits(next), O!Update(next)
        PROVE  PageInvariant'
    <2>1. PICK row \in Rows : journal' = Append(journal, row)
      BY <1>2, UpdateRow DEF PageInvariant
    <2> QED BY <2>1, UnheardChange DEF O!Elsewhere
  <1> QED BY <1>1, <1>2, ProofStored DEF O!Elsewhere

\* What the page and a flow that has come to l owe to each other.
Settled(k, l) ==
  /\ DOMAIN orderPage = PageFields /\ orderPage.order \in 0..Len(journal)
  /\ DOMAIN l = FlowFields /\ l.stage \in FlowStages
  /\ l.stage \in {"served", "details"} => l.row \in 1..Len(journal)
  /\ orderPage.order = 0 /\ k = "change" => l.stage = "idle"
  /\ l.stage = "order" => l.events = None /\ l.driver = None
  /\ orderPage.events # None => IsTimeline(orderPage.events)
  /\ l.stage = "sent" => l.next \in O!UpdatableStatuses
  /\ l.events \in {None, Failed} \/ IsTimeline(l.events)
  /\ ~orderPage.overlapped =>
       /\ l.stage \in {"order", "details", "url"} => orderPage.loading
       /\ l.stage = "details" => DetailsBelong(l)
       /\ l.stage = "url" => O!DetailsMatch /\ orderPage.proof /\ orderPage.order # 0
       /\ l.stage = "idle" /\ O!Visible /\ ~orderPage.error => O!DetailsMatch

LEMMA FlowMoves ==
  ASSUME PageInvariant, NEW k \in O!Kinds, NEW l, UNCHANGED journal,
         flow' = [flow EXCEPT ![k] = l], Settled(k, l)',
         orderPage'.order = 0 => orderPage.order = 0,
         ~orderPage'.overlapped => \A j \in O!Kinds : j # k => Stage(j) = "idle"
  PROVE  PageInvariant'
  <1> USE DEF PageInvariant
  <1>1. /\ DOMAIN flow' = O!Kinds /\ flow'[k] = l
        /\ \A j \in O!Kinds : j # k => flow'[j] = flow[j]
    BY DEF OrderTypeOK
  <1>2. OrderTypeOK' /\ RowsRead'
    BY <1>1 DEF OrderTypeOK, RowsRead, Stage, Settled, IsTimeline
  <1>3. OneIsBusy'
    BY <1>1 DEF OneIsBusy, Stage, O!Kinds
  <1>4. NothingToCommand'
    BY <1>1 DEF NothingToCommand, Stage, O!Kinds, Settled
  <1>5. BehindSkeleton'
    BY <1>1 DEF BehindSkeleton, Stage, Settled
  <1>6. LoadBelongs'
    <2> SUFFICES ASSUME NEW j \in O!Kinds
                 PROVE  /\ Stage(j)' = "order" => flow'[j].events = None /\ flow'[j].driver = None
                        /\ ~orderPage'.overlapped /\ Stage(j)' = "details"
                             => DetailsBelong(flow[j])'
                        /\ ~orderPage'.overlapped /\ Stage(j)' = "url"
                             => O!DetailsMatch' /\ orderPage'.proof /\ orderPage'.order # 0
      BY DEF LoadBelongs
    <2>1. CASE j = k
      BY <1>1, <2>1 DEF Stage, Settled
    <2>2. CASE j # k
      BY <1>1, <2>2 DEF Stage, LoadBelongs
    <2> QED BY <2>1, <2>2
  <1>7. PageAgrees'
    BY <1>1 DEF PageAgrees, O!PageAgrees, O!Busy, Settled
  <1> QED BY <1>2, <1>3, <1>4, <1>5, <1>6, <1>7

\* A flow that is busy is the only one unless they have overlapped.
LEMMA OnlyThis ==
  ASSUME PageInvariant, NEW k \in O!Kinds, Stage(k) # "idle", ~orderPage.overlapped
  PROVE  \A j \in O!Kinds : j # k => Stage(j) = "idle"
  BY DEF PageInvariant, OneIsBusy, O!Kinds

LEMMA IdleFlows ==
  /\ DOMAIN O!Idle = FlowFields /\ O!Idle.stage = "idle" /\ O!Idle.events = None
  /\ DOMAIN O!Loading = FlowFields /\ O!Loading.stage = "order"
  /\ O!Loading.events = None /\ O!Loading.driver = None
  BY DEF O!Idle, O!Loading, FlowFields

\* Steps of the dialog and of copying, which show no other part of the order.
LEMMA NothingElseShown ==
  ASSUME PageInvariant, UNCHANGED <<journal, flow>>, DOMAIN orderPage' = PageFields,
         \A x \in {"order", "events", "driver", "proof", "url", "loading", "overlapped"} :
           orderPage'[x] = orderPage[x],
         orderPage'.error = orderPage.error \/ orderPage'.error
  PROVE  PageInvariant'
  <1> USE DEF PageInvariant
  <1>1. /\ orderPage'.order = orderPage.order /\ orderPage'.events = orderPage.events
        /\ orderPage'.driver = orderPage.driver /\ orderPage'.proof = orderPage.proof
        /\ orderPage'.url = orderPage.url /\ orderPage'.loading = orderPage.loading
        /\ orderPage'.overlapped = orderPage.overlapped
    OBVIOUS
  <1>2. O!DetailsMatch' = O!DetailsMatch /\ \A l : DetailsBelong(l)' = DetailsBelong(l)
    BY <1>1 DEF O!DetailsMatch, DetailsBelong
  <1>3. OrderTypeOK' /\ RowsRead' /\ OneIsBusy' /\ NothingToCommand' /\ BehindSkeleton'
    BY <1>1 DEF OrderTypeOK, RowsRead, OneIsBusy, NothingToCommand, BehindSkeleton, Stage, IsTimeline
  <1>4. LoadBelongs'
    BY <1>1, <1>2 DEF LoadBelongs, Stage
  <1>5. PageAgrees'
    BY <1>1, <1>2 DEF PageAgrees, O!PageAgrees, O!Visible, O!Busy
  <1> QED BY <1>3, <1>4, <1>5

LEMMA DialogKeeps ==
  ASSUME PageInvariant, O!OpenDialog \/ O!CloseDialog \/ O!CopyFails
  PROVE  PageInvariant'
  <1>1. DOMAIN orderPage = PageFields
    BY DEF PageInvariant, OrderTypeOK
  <1>2. CASE O!OpenDialog \/ O!CloseDialog
    <2>1. PICK b \in BOOLEAN : orderPage' = [orderPage EXCEPT !.dialog = b]
      BY <1>2 DEF O!OpenDialog, O!CloseDialog
    <2>2. UNCHANGED <<journal, flow>>
      BY <1>2 DEF O!OpenDialog, O!CloseDialog, O!stored
    <2> QED BY <1>1, <2>1, <2>2, NothingElseShown DEF PageFields
  <1>3. CASE O!CopyFails
    <2>1. orderPage' = [orderPage EXCEPT !.error = TRUE] /\ UNCHANGED <<journal, flow>>
      BY <1>3 DEF O!CopyFails, O!stored
    <2> QED BY <1>1, <2>1, NothingElseShown DEF PageFields
  <1> QED BY <1>2, <1>3

LEMMA CommandIsSent ==
  ASSUME PageInvariant, NEW k \in O!Kinds, NEW next, O!Send(k, next), UNCHANGED journal,
         orderPage.order # 0, orderPage'.order = orderPage.order, DOMAIN orderPage' = PageFields,
         next \in O!UpdatableStatuses, orderPage'.events = orderPage.events,
         ~orderPage'.overlapped => \A j \in O!Kinds : j # k => Stage(j) = "idle"
  PROVE  PageInvariant'
  <1>1. PICK l : l = [O!Idle EXCEPT !.stage = "sent", !.next = next]
    OBVIOUS
  <1>2. DOMAIN l = FlowFields /\ l.stage = "sent" /\ l.next = next /\ l.events = None
    BY <1>1 DEF FlowFields, O!Idle
  <1>3. flow' = [flow EXCEPT ![k] = l]
    BY <1>1 DEF O!Send
  <1>4. Settled(k, l)'
    BY <1>2 DEF Settled, FlowStages, PageInvariant, OrderTypeOK, IsTimeline
  <1> QED BY <1>3, <1>4, FlowMoves

LEMMA CommandKeeps ==
  ASSUME PageInvariant, O!StartDelivery \/ O!ChangeStatus
  PROVE  PageInvariant'
  <1>1. DOMAIN orderPage = PageFields /\ O!Kinds = {"start", "change"}
    BY DEF PageInvariant, OrderTypeOK, O!Kinds
  <1>2. CASE O!StartDelivery
    <2>1. /\ O!Send("start", "IN_PROGRESS") /\ orderPage.order # 0 /\ UNCHANGED journal
          /\ orderPage' = [orderPage EXCEPT !.overlapped = @ \/ O!Busy("change")]
      BY <1>2 DEF O!StartDelivery, O!Visible, O!stored
    <2>2. /\ orderPage'.order = orderPage.order /\ DOMAIN orderPage' = PageFields
          /\ orderPage'.events = orderPage.events
          /\ ~orderPage'.overlapped => ~O!Busy("change")
      BY <1>1, <2>1 DEF PageFields
    <2>3. "IN_PROGRESS" \in O!UpdatableStatuses
      BY DEF O!UpdatableStatuses, O!Statuses
    <2> QED BY <1>1, <2>1, <2>2, <2>3, CommandIsSent DEF O!Busy, Stage
  <1>3. CASE O!ChangeStatus
    <2>1. PICK next \in O!Offered(O!Status) : O!Send("change", next)
      BY <1>3 DEF O!ChangeStatus
    <2>2. /\ orderPage.order # 0 /\ UNCHANGED journal
          /\ orderPage' = [orderPage EXCEPT !.error = FALSE, !.overlapped = @ \/ O!Busy("start")]
      BY <1>3 DEF O!ChangeStatus, O!Visible, O!stored
    <2>3. /\ orderPage'.order = orderPage.order /\ DOMAIN orderPage' = PageFields
          /\ orderPage'.events = orderPage.events
          /\ ~orderPage'.overlapped => ~O!Busy("start")
      BY <1>1, <2>2 DEF PageFields
    <2>4. next \in O!UpdatableStatuses
      BY <2>1 DEF O!Offered, O!UpdatableStatuses, O!Statuses
    <2> QED BY <1>1, <2>1, <2>2, <2>3, <2>4, CommandIsSent DEF O!Busy, Stage
  <1> QED BY <1>2, <1>3

\* A command and its load give way to nothing, or to the load of what was answered.
LEMMA FlowRestarts ==
  ASSUME PageInvariant, NEW k \in O!Kinds, Stage(k) # "idle", UNCHANGED journal,
         DOMAIN orderPage' = PageFields, orderPage'.order \in 0..Len(journal),
         orderPage'.overlapped = orderPage.overlapped, orderPage'.events = orderPage.events,
         orderPage'.order = 0 => orderPage.order = 0,
         \/ flow' = [flow EXCEPT ![k] = O!Idle] /\ orderPage'.error
         \/ flow' = [flow EXCEPT ![k] = O!Loading] /\ orderPage'.loading /\ orderPage'.order # 0
  PROVE  PageInvariant'
  <1>1. /\ ~orderPage'.overlapped => \A j \in O!Kinds : j # k => Stage(j) = "idle"
        /\ orderPage'.events # None => IsTimeline(orderPage.events)'
    BY OnlyThis DEF PageInvariant, OrderTypeOK, IsTimeline
  <1>2. CASE flow' = [flow EXCEPT ![k] = O!Idle] /\ orderPage'.error
    <2>1. PICK l : l = O!Idle
      OBVIOUS
    <2>2. Settled(k, l)'
      BY <1>1, <1>2, <2>1, IdleFlows DEF Settled, FlowStages
    <2> QED BY <1>1, <1>2, <2>1, <2>2, FlowMoves
  <1>3. CASE /\ flow' = [flow EXCEPT ![k] = O!Loading] /\ orderPage'.loading
             /\ orderPage'.order # 0
    <2>1. PICK l : l = O!Loading
      OBVIOUS
    <2>2. Settled(k, l)'
      BY <1>1, <1>3, <2>1, IdleFlows DEF Settled, FlowStages
    <2> QED BY <1>1, <1>3, <2>1, <2>2, FlowMoves
  <1> QED BY <1>2, <1>3

LEMMA CommandAnswered ==
  ASSUME PageInvariant, NEW k \in O!Kinds, O!Answered(k)
  PROVE  PageInvariant'
  <1>1. /\ DOMAIN orderPage = PageFields /\ orderPage.order \in 0..Len(journal)
        /\ Stage(k) = "served" => flow[k].row \in 1..Len(journal)
    BY DEF PageInvariant, OrderTypeOK, RowsRead
  <1>2. /\ Stage(k) = "served" /\ UNCHANGED journal /\ flow' = [flow EXCEPT ![k] = O!Loading]
        /\ orderPage' = [orderPage EXCEPT !.order = flow[k].row, !.loading = TRUE,
                                          !.error = FALSE, !.dialog = @ /\ k # "start"]
    BY DEF O!Answered, O!stored, Stage
  <1>3. /\ DOMAIN orderPage' = PageFields /\ orderPage'.order = flow[k].row
        /\ orderPage'.loading /\ orderPage'.overlapped = orderPage.overlapped
        /\ orderPage'.events = orderPage.events
    BY <1>1, <1>2 DEF PageFields
  <1>4. Stage(k) # "idle" /\ orderPage'.order \in 0..Len(journal) /\ orderPage'.order # 0
    BY <1>1, <1>2, <1>3
  <1> QED BY <1>2, <1>3, <1>4, FlowRestarts

\* A command or a load that failed leaves its error.
LEMMA FailureKeeps ==
  ASSUME PageInvariant, NEW k \in O!Kinds, O!CommandFails(k) \/ O!LoadFails(k)
  PROVE  PageInvariant'
  <1>1. DOMAIN orderPage = PageFields /\ orderPage.order \in 0..Len(journal)
    BY DEF PageInvariant, OrderTypeOK
  <1>2. Stage(k) # "idle" /\ UNCHANGED journal /\ flow' = [flow EXCEPT ![k] = O!Idle]
    BY DEF O!CommandFails, O!LoadFails, O!stored, Stage
  <1>3. /\ DOMAIN orderPage' = PageFields /\ orderPage'.order = orderPage.order
        /\ orderPage'.error /\ orderPage'.overlapped = orderPage.overlapped
        /\ orderPage'.events = orderPage.events
    BY <1>1 DEF O!CommandFails, O!LoadFails, PageFields
  <1> QED BY <1>1, <1>2, <1>3, FlowRestarts

LEMMA OrderLoaded ==
  ASSUME PageInvariant, NEW k \in O!Kinds, O!LoadOrder(k)
  PROVE  PageInvariant'
  <1>1. /\ DOMAIN orderPage = PageFields /\ DOMAIN flow[k] = FlowFields
        /\ journal # <<>> /\ journal \in Seq(Rows) /\ O!Now = Len(journal)
    BY DEF PageInvariant, OrderTypeOK, O!Now
  <1>2. /\ Stage(k) = "order" /\ UNCHANGED journal
        /\ orderPage' = [orderPage EXCEPT !.order = O!Now]
    BY DEF O!LoadOrder, O!stored, Stage
  <1>3. PICK l : l = [flow[k] EXCEPT !.stage = "details", !.row = O!Now]
    OBVIOUS
  <1>4. flow' = [flow EXCEPT ![k] = l]
    BY <1>3 DEF O!LoadOrder
  <1>5. /\ DOMAIN l = FlowFields /\ l.stage = "details" /\ l.row = Len(journal)
        /\ l.events = flow[k].events /\ l.driver = flow[k].driver
    BY <1>1, <1>3 DEF FlowFields
  <1>6. flow[k].events = None /\ flow[k].driver = None
    BY <1>2 DEF PageInvariant, LoadBelongs
  <1>7. ~orderPage.overlapped => orderPage.loading
    BY <1>2 DEF PageInvariant, BehindSkeleton
  <1>8. /\ DOMAIN orderPage' = PageFields /\ orderPage'.order = Len(journal)
        /\ orderPage'.loading = orderPage.loading
        /\ orderPage'.overlapped = orderPage.overlapped
        /\ orderPage'.events = orderPage.events
    BY <1>1, <1>2 DEF PageFields
  <1>9. Len(journal) \in Nat \ {0}
    BY <1>1
  <1>10. DetailsBelong(l)'
    BY <1>2, <1>5, <1>6, <1>8 DEF DetailsBelong
  <1>11. Settled(k, l)'
    <2>1. orderPage'.events # None => IsTimeline(orderPage.events)'
      BY <1>2, <1>8 DEF PageInvariant, OrderTypeOK, IsTimeline
    <2> QED BY <1>2, <1>5, <1>6, <1>7, <1>8, <1>9, <1>10, <2>1 DEF Settled, FlowStages
  <1>12. ~orderPage'.overlapped => \A j \in O!Kinds : j # k => Stage(j) = "idle"
    BY <1>2, <1>8, OnlyThis
  <1> QED BY <1>2, <1>4, <1>8, <1>9, <1>11, <1>12, FlowMoves

LEMMA ServiceKeeps ==
  ASSUME PageInvariant, NEW k \in O!Kinds, O!Serve(k)
  PROVE  PageInvariant'
  <1> USE DEF PageInvariant
  <1>1. O!Row \in Rows /\ O!Now = Len(journal) /\ DOMAIN flow = O!Kinds
        /\ DOMAIN flow[k] = FlowFields
    BY DEF OrderTypeOK, O!Row, O!Now
  <1>2. PICK row \in Rows : journal' = Append(journal, row)
    BY UpdateRow DEF O!Serve, OrderTypeOK, Stage
  <1>3. /\ journal' \in Seq(Rows) /\ journal' # <<>> /\ Len(journal') = Len(journal) + 1
        /\ Len(journal) \in Nat \ {0}
        /\ \A i \in 1..Len(journal) : journal'[i] = journal[i] /\ i \in 1..Len(journal')
        /\ \A e : IsTimeline(e) => IsTimeline(e)'
    BY <1>2, JournalGrows
  <1>4. PICK l : l = [flow[k] EXCEPT !.stage = "served", !.row = O!Now + 1]
    OBVIOUS
  <1>5. flow' = [flow EXCEPT ![k] = l] /\ UNCHANGED orderPage /\ Stage(k) = "sent"
    BY <1>4 DEF O!Serve, Stage
  <1>6. /\ DOMAIN l = FlowFields /\ l.stage = "served" /\ l.row = Len(journal) + 1
        /\ l.events = flow[k].events
    BY <1>1, <1>4 DEF FlowFields
  <1>7. /\ DOMAIN flow' = O!Kinds /\ flow'[k] = l
        /\ \A j \in O!Kinds : j # k => flow'[j] = flow[j]
    BY <1>1, <1>5
  <1>8. OrderTypeOK'
    BY <1>3, <1>5, <1>6, <1>7 DEF OrderTypeOK, Stage, FlowStages
  <1>9. RowsRead'
    BY <1>3, <1>6, <1>7 DEF RowsRead, Stage
  <1>10. \A j \in O!Kinds : Stage(j)' = IF j = k THEN "served" ELSE Stage(j)
    BY <1>6, <1>7 DEF Stage
  <1>11. OneIsBusy' /\ NothingToCommand' /\ BehindSkeleton'
    BY <1>5, <1>10 DEF OneIsBusy, NothingToCommand, BehindSkeleton, O!Kinds
  <1>12. orderPage.order # 0 => (O!DetailsMatch)' = O!DetailsMatch
    BY <1>3, <1>5 DEF OrderTypeOK, IsTimeline, O!DetailsMatch
  <1>13. \A j \in O!Kinds : j # k /\ Stage(j) = "details"
                              => DetailsBelong(flow[j])' = DetailsBelong(flow[j])
    BY <1>3, <1>5, <1>7 DEF RowsRead, DetailsBelong
  <1>14. LoadBelongs'
    BY <1>5, <1>7, <1>10, <1>12, <1>13 DEF LoadBelongs
  <1>15. PageAgrees'
    BY <1>10 DEF PageAgrees, O!PageAgrees, O!Busy, Stage
  <1> QED BY <1>8, <1>9, <1>11, <1>14, <1>15

\* Whatever the Query missed, the event of the order's status is in the timeline.
LEMMA TimelineTells ==
  ASSUME OrderTypeOK, NEW of \in 1..Len(journal), NEW seen
  PROVE  O!EventOf[journal[of].status] \in O!Timeline(of, seen)
  <1> DEFINE row == journal[of]
  <1>1. row \in Rows
    BY DEF OrderTypeOK
  <1> HIDE DEF row
  <1>2. O!EventOf[row.status] \in O!Inferred(row)
    <2>1. CASE row.status = "PENDING"
      BY <2>1 DEF O!EventOf, O!Inferred
    <2>2. CASE row.status = "ASSIGNED"
      BY <1>1, <2>2 DEF O!EventOf, O!Inferred, Rows
    <2>3. CASE row.status \in {"IN_PROGRESS", "ARRIVED", "DELIVERED"}
      BY <2>3 DEF O!EventOf, O!Inferred, O!TellsOf
    <2>4. CASE row.status \in Excepted
      <3>1. row.exception
        BY <1>1, <2>4 DEF Rows
      <3> QED BY <2>4, <3>1 DEF O!EventOf, O!Inferred, O!TellsOfReason, Excepted
    <2>5. row.status \in O!Statuses
      BY <1>1 DEF Rows
    <2> QED BY <2>1, <2>2, <2>3, <2>4, <2>5 DEF O!Statuses, Excepted
  <1> QED BY <1>2 DEF O!Timeline, row

LEMMA DetailRead ==
  ASSUME PageInvariant, NEW k \in O!Kinds, O!ReadDetail(k)
  PROVE  PageInvariant'
  <1>1. /\ DOMAIN orderPage = PageFields /\ orderPage.order \in 0..Len(journal)
        /\ DOMAIN flow[k] = FlowFields /\ O!Now = Len(journal)
        /\ journal # <<>> /\ journal \in Seq(Rows)
    BY DEF PageInvariant, OrderTypeOK, O!Now
  <1>2. Stage(k) = "details" /\ UNCHANGED <<journal, orderPage>>
    BY DEF O!ReadDetail, O!stored, Stage
  <1>3. flow[k].row \in 1..Len(journal)
    BY <1>2 DEF PageInvariant, RowsRead
  <1>4. PICK l :
          /\ flow' = [flow EXCEPT ![k] = l]
          /\ \/ \E e : /\ e = Failed \/ (IsTimeline(e) /\ e.of >= flow[k].row)
                       /\ l = [flow[k] EXCEPT !.events = e]
             \/ \E p : l = [flow[k] EXCEPT !.proof = p]
             \/ \E d \in {journal[flow[k].row].driver, Failed} : l = [flow[k] EXCEPT !.driver = d]
    <2>1. CASE \E of \in flow[k].row .. O!Now, seen \in 0 .. O!Now :
                 flow' = [flow EXCEPT ![k].events = [of |-> of, types |-> O!Timeline(of, seen)]]
      <3>1. PICK of \in flow[k].row .. O!Now, seen \in 0 .. O!Now :
              flow' = [flow EXCEPT ![k].events = [of |-> of, types |-> O!Timeline(of, seen)]]
        BY <2>1
      <3> DEFINE e == [of |-> of, types |-> O!Timeline(of, seen)]
      <3>2. of \in 1..Len(journal) /\ of >= flow[k].row
        BY <1>1, <1>3, <3>1
      <3>3. O!EventOf[journal[of].status] \in O!Timeline(of, seen)
        BY <3>2, TimelineTells DEF PageInvariant
      <3>4. e.of = of /\ e.types = O!Timeline(of, seen)
        OBVIOUS
      <3>5. flow' = [flow EXCEPT ![k].events = e]
        BY <3>1
      <3> HIDE DEF e
      <3>6. IsTimeline(e) /\ e.of >= flow[k].row
        BY <3>2, <3>3, <3>4 DEF IsTimeline
      <3> QED BY <3>5, <3>6
    <2>2. CASE flow' = [flow EXCEPT ![k].events = Failed]
      BY <2>2
    <2>3. CASE \E p : flow' = [flow EXCEPT ![k].proof = p]
      BY <2>3
    <2>4. CASE \E d \in {journal[flow[k].row].driver, Failed} : flow' = [flow EXCEPT ![k].driver = d]
      BY <2>4
    <2> QED BY <2>1, <2>2, <2>3, <2>4 DEF O!ReadDetail
  <1>5. /\ DOMAIN l = FlowFields /\ l.stage = "details" /\ l.row = flow[k].row
        /\ \/ l.events \in {flow[k].events, Failed}
           \/ IsTimeline(l.events) /\ l.events.of >= l.row
        /\ l.driver \in {flow[k].driver, journal[flow[k].row].driver, Failed}
    BY <1>1, <1>2, <1>4 DEF FlowFields, Stage
  <1>6. ~orderPage.overlapped => DetailsBelong(flow[k]) /\ orderPage.loading
    BY <1>2 DEF PageInvariant, LoadBelongs, BehindSkeleton
  <1>7. ~orderPage.overlapped => DetailsBelong(l)'
    BY <1>2, <1>5, <1>6 DEF DetailsBelong
  <1>8. Settled(k, l)'
    <2>1. orderPage.order = 0 => k # "change"
      BY <1>2 DEF PageInvariant, NothingToCommand
    <2>2. l.events \in {None, Failed} \/ IsTimeline(l.events)'
      BY <1>2, <1>5 DEF PageInvariant, OrderTypeOK, IsTimeline
    <2>3. orderPage'.events # None => IsTimeline(orderPage.events)'
      BY <1>2 DEF PageInvariant, OrderTypeOK, IsTimeline
    <2> QED BY <1>1, <1>2, <1>3, <1>5, <1>6, <1>7, <2>1, <2>2, <2>3 DEF Settled, FlowStages
  <1>9. ~orderPage.overlapped => \A j \in O!Kinds : j # k => Stage(j) = "idle"
    BY <1>2, OnlyThis
  <1> QED BY <1>2, <1>4, <1>8, <1>9, FlowMoves

LEMMA DetailsShown ==
  ASSUME PageInvariant, NEW k \in O!Kinds, O!ShowDetails(k)
  PROVE  PageInvariant'
  <1>1. /\ DOMAIN orderPage = PageFields /\ orderPage.order \in 0..Len(journal)
        /\ Stage(k) = "details" /\ UNCHANGED journal
    BY DEF PageInvariant, OrderTypeOK, O!ShowDetails, O!stored, Stage
  <1>2. PICK l : l = IF flow[k].proof = TRUE THEN [O!Idle EXCEPT !.stage = "url"] ELSE O!Idle
    OBVIOUS
  <1>3. /\ DOMAIN l = FlowFields /\ l.events = None
        /\ l.stage = IF flow[k].proof = TRUE THEN "url" ELSE "idle"
    BY <1>2 DEF FlowFields, O!Idle
  <1>4. /\ flow' = [flow EXCEPT ![k] = l]
        /\ orderPage' = [orderPage EXCEPT
             !.events = IF flow[k].events = Failed THEN None ELSE flow[k].events,
             !.driver = IF flow[k].driver = Failed THEN None ELSE flow[k].driver,
             !.proof = flow[k].proof = TRUE, !.url = @ /\ flow[k].proof = TRUE,
             !.loading = @ /\ flow[k].proof = TRUE]
        /\ flow[k].events # None
    BY <1>2 DEF O!ShowDetails
  <1>5. /\ DOMAIN orderPage' = PageFields /\ orderPage'.order = orderPage.order
        /\ orderPage'.events = IF flow[k].events = Failed THEN None ELSE flow[k].events
        /\ orderPage'.driver = IF flow[k].driver = Failed THEN None ELSE flow[k].driver
        /\ orderPage'.proof = (flow[k].proof = TRUE)
        /\ orderPage'.url => flow[k].proof = TRUE
        /\ orderPage.loading /\ flow[k].proof = TRUE => orderPage'.loading
        /\ orderPage'.overlapped = orderPage.overlapped
    BY <1>1, <1>4 DEF PageFields
  <1>6. flow[k].row \in 1..Len(journal)
    BY <1>1 DEF PageInvariant, RowsRead
  <1>7. ~orderPage.overlapped => DetailsBelong(flow[k]) /\ orderPage.loading
    BY <1>1 DEF PageInvariant, LoadBelongs, BehindSkeleton
  <1>8. orderPage'.events # None => IsTimeline(orderPage.events)'
    BY <1>1, <1>4, <1>5 DEF PageInvariant, OrderTypeOK, IsTimeline
  <1>9. ~orderPage.overlapped => (O!DetailsMatch)' /\ orderPage'.order # 0
    <2> SUFFICES ASSUME ~orderPage.overlapped PROVE (O!DetailsMatch)' /\ orderPage'.order # 0
      OBVIOUS
    <2>1. orderPage.order = flow[k].row /\ orderPage.order # 0
      BY <1>6, <1>7 DEF DetailsBelong
    <2>2. orderPage'.events # None =>
            /\ orderPage'.events.of >= orderPage'.order
            /\ IsTimeline(orderPage.events)'
      BY <1>4, <1>5, <1>7, <1>8, <2>1 DEF DetailsBelong
    <2>3. orderPage'.driver \in {None, journal'[orderPage'.order].driver}
      BY <1>1, <1>5, <1>7, <2>1 DEF DetailsBelong
    <2>4. orderPage'.url => orderPage'.proof
      BY <1>5
    <2> QED BY <1>1, <1>5, <2>1, <2>2, <2>3, <2>4 DEF O!DetailsMatch, IsTimeline
  <1>10. Settled(k, l)'
    <2>1. orderPage.order = 0 => k # "change"
      BY <1>1 DEF PageInvariant, NothingToCommand
    <2>2. l.stage = "url" => orderPage'.proof
      BY <1>3, <1>5
    <2>3. l.stage = "url" /\ ~orderPage.overlapped => orderPage'.loading
      BY <1>3, <1>5, <1>7
    <2>4. l.stage \in {"url", "idle"}
      BY <1>3
    <2> QED BY <1>1, <1>3, <1>5, <1>9, <1>8, <2>1, <2>2, <2>3, <2>4 DEF Settled, FlowStages
  <1>11. ~orderPage.overlapped => \A j \in O!Kinds : j # k => Stage(j) = "idle"
    BY <1>1, OnlyThis
  <1> QED BY <1>1, <1>4, <1>5, <1>10, <1>11, FlowMoves

LEMMA UrlShown ==
  ASSUME PageInvariant, NEW k \in O!Kinds, O!ShowUrl(k)
  PROVE  PageInvariant'
  <1>1. /\ DOMAIN orderPage = PageFields /\ orderPage.order \in 0..Len(journal)
        /\ Stage(k) = "url" /\ UNCHANGED journal /\ flow' = [flow EXCEPT ![k] = O!Idle]
    BY DEF PageInvariant, OrderTypeOK, O!ShowUrl, O!stored, Stage
  <1>2. PICK url \in BOOLEAN : orderPage' = [orderPage EXCEPT !.url = url, !.loading = FALSE]
    BY DEF O!ShowUrl
  <1>3. /\ DOMAIN orderPage' = PageFields /\ orderPage'.order = orderPage.order
        /\ orderPage'.events = orderPage.events /\ orderPage'.driver = orderPage.driver
        /\ orderPage'.proof = orderPage.proof
        /\ orderPage'.overlapped = orderPage.overlapped
    BY <1>1, <1>2 DEF PageFields
  <1>4. ~orderPage.overlapped => O!DetailsMatch /\ orderPage.proof
    BY <1>1 DEF PageInvariant, LoadBelongs
  <1>5. ~orderPage.overlapped => (O!DetailsMatch)'
    BY <1>1, <1>3, <1>4 DEF O!DetailsMatch
  <1>6. PICK l : l = O!Idle
    OBVIOUS
  <1>7. Settled(k, l)'
    <2>1. orderPage'.events # None => IsTimeline(orderPage.events)'
      BY <1>1, <1>3 DEF PageInvariant, OrderTypeOK, IsTimeline
    <2> QED BY <1>1, <1>3, <1>5, <1>6, <2>1, IdleFlows DEF Settled, FlowStages
  <1>8. ~orderPage.overlapped => \A j \in O!Kinds : j # k => Stage(j) = "idle"
    BY <1>1, OnlyThis
  <1> QED BY <1>1, <1>3, <1>6, <1>7, <1>8, FlowMoves

LEMMA RetryKeeps ==
  ASSUME PageInvariant, O!Retry
  PROVE  PageInvariant'
  <1>1. /\ DOMAIN orderPage = PageFields /\ orderPage.order \in 0..Len(journal)
        /\ Stage("change") = "idle" /\ O!Kinds = {"start", "change"}
    BY DEF PageInvariant, OrderTypeOK, NothingToCommand, O!Retry, O!Kinds
  <1>2. /\ UNCHANGED journal /\ flow' = [flow EXCEPT !["start"] = O!Loading]
        /\ orderPage' = [orderPage EXCEPT !.loading = TRUE, !.error = FALSE]
        /\ orderPage.order = 0
    BY DEF O!Retry, O!stored
  <1>3. /\ DOMAIN orderPage' = PageFields /\ orderPage'.order = orderPage.order
        /\ orderPage'.loading /\ orderPage'.events = orderPage.events
    BY <1>1, <1>2 DEF PageFields
  <1>4. PICK l : l = O!Loading
    OBVIOUS
  <1>5. Settled("start", l)'
    <2>1. orderPage'.events # None => IsTimeline(orderPage.events)'
      BY <1>2, <1>3 DEF PageInvariant, OrderTypeOK, IsTimeline
    <2> QED BY <1>1, <1>2, <1>3, <1>4, <2>1, IdleFlows DEF Settled, FlowStages
  <1> QED BY <1>1, <1>2, <1>3, <1>4, <1>5, FlowMoves

LEMMA PageStep ==
  ASSUME PageInvariant, [O!Next]_(O!vars)
  PROVE  PageInvariant'
  <1>1. CASE UNCHANGED O!vars
    BY <1>1, ProofStored DEF O!vars
  <1>2. CASE O!Elsewhere
    BY <1>2, ElsewhereKeeps
  <1>3. CASE O!OpenDialog \/ O!CloseDialog \/ O!CopyFails
    BY <1>3, DialogKeeps
  <1>4. CASE O!StartDelivery \/ O!ChangeStatus
    BY <1>4, CommandKeeps
  <1>5. CASE O!Retry
    BY <1>5, RetryKeeps
  <1>6. ASSUME NEW k \in O!Kinds, O!Serve(k) \/ O!Answered(k) \/ O!CommandFails(k) \/ O!LoadFails(k)
        PROVE  PageInvariant'
    BY <1>6, ServiceKeeps, CommandAnswered, FailureKeeps
  <1>7. ASSUME NEW k \in O!Kinds,
               O!LoadOrder(k) \/ O!ReadDetail(k) \/ O!ShowDetails(k) \/ O!ShowUrl(k)
        PROVE  PageInvariant'
    BY <1>7, OrderLoaded, DetailRead, DetailsShown, UrlShown
  <1> QED BY <1>1, <1>2, <1>3, <1>4, <1>5, <1>6, <1>7 DEF O!Next

LEMMA PageInvariantHolds == O!Spec => []PageInvariant
  <1> QED BY PageInitially, PageStep, PTL DEF O!Spec

\* Whatever failed on the way and however far behind the events were read, a page at rest
\* shows the driver of the order it shows, and a timeline that has what brought the order
\* there, unless two of its loads have overlapped.
THEOREM SettledPageAgrees == O!Spec => []PageAgrees
  <1>1. PageInvariant => PageAgrees
    BY DEF PageInvariant
  <1> QED BY <1>1, PageInvariantHolds, PTL

-----------------------------------------------------------------------------
(* Accounts on a device.  What a logout has forgotten is in no outbox, and *)
(* in a flush only until somebody signs in again: nobody logs out between  *)
(* the return from Cognito and the end of the signing in.                  *)

Mutations == [id : Nat, by : Drivers, order : Orders]
TabFields == {"at", "code", "user", "loading", "queue", "leaving"}
PastFields == {"taps", "sessions", "faults", "forgotten", "held"}
RequestFields == {"m", "as", "session", "from", "stage"}

RequestOK(r) == DOMAIN r = RequestFields /\ r.m \in Mutations /\ r.session \in Nat

SessionTypeOK ==
  /\ DOMAIN tab = TabFields /\ tab.queue \in Seq(Mutations) /\ outbox \in Seq(Mutations)
  /\ DOMAIN past = PastFields /\ past.taps \in Nat /\ past.sessions \in Nat
  /\ past.forgotten \subseteq Nat \X Nat
  /\ holder \in [Orders -> Drivers]
  /\ \A r \in requests : RequestOK(r)

Forgotten(id) == \E f \in past.forgotten : f[1] = id

IdsAreGiven ==
  /\ \A m \in S!ToSet(outbox) : m.id <= past.taps
  /\ \A f \in past.forgotten : f[1] <= past.taps

SessionsArePast ==
  /\ \A r \in requests : r.session <= past.sessions
  /\ \A f \in past.forgotten : f[2] <= past.sessions

\* At most one request of the buttons, and one of the flush.
OneOfEach ==
  \A r, q \in requests : r.from = q.from /\ r.from \in {"tap", "flush"} => r = q

FlushHasQueue ==
  /\ tab.at = "away" => tab.queue = <<>>
  /\ \A r \in requests : r.from = "flush" => tab.queue # <<>>

\* What is tapped is not in the outbox before its request fails.
TapsAreNew ==
  \A r \in requests : r.from = "tap" =>
    /\ r.m.id <= past.taps /\ ~Forgotten(r.m.id)
    /\ \A m \in S!ToSet(outbox) : m.id # r.m.id

OutboxIsKept == \A m \in S!ToSet(outbox) : ~Forgotten(m.id)

\* A mutation of a flush that was forgotten was forgotten in this session.
EndsNow(m) ==
  /\ \A f \in past.forgotten : f[1] = m.id => f[2] >= past.sessions
  /\ tab.at = "callback" => ~Forgotten(m.id)

QueueEnds == \A m \in S!ToSet(tab.queue) : EndsNow(m)

RequestsEnd == \A r \in requests : S!EndsWithItsSession(r)

HoldersHeld == \A o \in Orders : <<o, holder[o]>> \in past.held

SessionInvariant ==
  /\ SessionTypeOK /\ IdsAreGiven /\ SessionsArePast /\ OneOfEach /\ TapsAreNew
  /\ OutboxIsKept /\ FlushHasQueue /\ QueueEnds /\ RequestsEnd /\ HoldersHeld
  /\ AdmittedInItsPlace

LEMMA OfNothing == S!ToSet(<<>>) = {}
  BY DEF S!ToSet

LEMMA OfSequence ==
  ASSUME NEW T, NEW s \in Seq(T)
  PROVE  \A x \in S!ToSet(s) : x \in T
  BY DEF S!ToSet

LEMMA OfAppended ==
  ASSUME NEW s \in Seq(Mutations), NEW m \in Mutations
  PROVE  Append(s, m) \in Seq(Mutations) /\ S!ToSet(Append(s, m)) = S!ToSet(s) \cup {m}
  <1>1. /\ Append(s, m) \in Seq(Mutations) /\ DOMAIN Append(s, m) = 1..(Len(s) + 1)
        /\ Append(s, m)[Len(s) + 1] = m /\ DOMAIN s = 1..Len(s) /\ Len(s) \in Nat
        /\ \A i \in 1..Len(s) : Append(s, m)[i] = s[i]
    OBVIOUS
  <1>2. 1..(Len(s) + 1) = 1..Len(s) \cup {Len(s) + 1}
    BY <1>1
  <1> HIDE DEF Mutations
  <1> QED BY <1>1, <1>2 DEF S!ToSet

LEMMA OfHeadAndTail ==
  ASSUME NEW s \in Seq(Mutations), s # <<>>
  PROVE  /\ Head(s) \in Mutations /\ Head(s) \in S!ToSet(s)
         /\ Tail(s) \in Seq(Mutations) /\ S!ToSet(Tail(s)) \subseteq S!ToSet(s)
  <1>1. /\ Head(s) = s[1] /\ 1 \in DOMAIN s /\ Tail(s) \in Seq(Mutations) /\ s[1] \in Mutations
        /\ \A i \in DOMAIN Tail(s) : i + 1 \in DOMAIN s /\ Tail(s)[i] = s[i + 1]
    OBVIOUS
  <1> QED BY <1>1 DEF S!ToSet

LEMMA OfRemoved ==
  ASSUME NEW T, NEW s \in Seq(T), NEW i \in 1..Len(s)
  PROVE  S!RemoveAt(s, i) \in Seq(T) /\ S!ToSet(S!RemoveAt(s, i)) \subseteq S!ToSet(s)
  <1> DEFINE a == SubSeq(s, 1, i - 1)
             b == SubSeq(s, i + 1, Len(s))
  <1>1. /\ a \in Seq(T) /\ Len(a) = i - 1
        /\ \A j \in 1..(i - 1) : a[j] = s[j]
    <2>1. \A j \in 1..(i - 1) : s[j] \in T
      OBVIOUS
    <2> QED BY <2>1, SubSeqProperties
  <1>2. /\ b \in Seq(T) /\ Len(b) = Len(s) - i
        /\ \A j \in 1..(Len(s) - i) : b[j] = s[i + j]
    <2>1. \A j \in (i + 1)..Len(s) : s[j] \in T
      OBVIOUS
    <2> QED BY <2>1, SubSeqProperties
  <1> HIDE DEF a, b
  <1>3. /\ a \o b \in Seq(T) /\ Len(a \o b) = Len(s) - 1
        /\ \A j \in 1..(Len(s) - 1) :
             (a \o b)[j] = IF j <= i - 1 THEN a[j] ELSE b[j - (i - 1)]
    <2>1. /\ a \o b \in Seq(T) /\ Len(a \o b) = Len(a) + Len(b)
          /\ \A j \in 1..(Len(a) + Len(b)) :
               (a \o b)[j] = IF j <= Len(a) THEN a[j] ELSE b[j - Len(a)]
      BY <1>1, <1>2, ConcatProperties
    <2>2. Len(a) + Len(b) = Len(s) - 1
      BY <1>1, <1>2
    <2> QED BY <1>1, <1>2, <2>1, <2>2
  <1>4. ASSUME NEW j \in 1..(Len(s) - 1)
        PROVE  \E n \in 1..Len(s) : (a \o b)[j] = s[n]
    <2>1. CASE j < i
      <3>1. j \in 1..Len(s) /\ (a \o b)[j] = s[j]
        BY <1>1, <1>3, <2>1
      <3> QED BY <3>1
    <2>2. CASE ~(j < i)
      <3>1. j - (i - 1) \in 1..(Len(s) - i) /\ i + (j - (i - 1)) = j + 1
        BY <2>2
      <3>2. j + 1 \in 1..Len(s) /\ (a \o b)[j] = s[j + 1]
        BY <1>2, <1>3, <2>2, <3>1
      <3> QED BY <3>2
    <2> QED BY <2>1, <2>2
  <1>5. PICK t : t = a \o b
    OBVIOUS
  <1>6. DOMAIN t = 1..(Len(s) - 1) /\ DOMAIN s = 1..Len(s)
    BY <1>3, <1>5
  <1>7. S!ToSet(t) \subseteq S!ToSet(s)
    BY <1>4, <1>5, <1>6 DEF S!ToSet
  <1>8. S!RemoveAt(s, i) = t
    BY <1>5 DEF S!RemoveAt, a, b
  <1> QED BY <1>3, <1>5, <1>7, <1>8

LEMMA SessionInitially == S!Init => SessionInvariant
  <1> SUFFICES ASSUME S!Init PROVE SessionInvariant
    OBVIOUS
  <1>1. tab.queue = <<>> /\ DOMAIN tab = TabFields
    BY DEF S!Init, S!Fresh, TabFields
  <1>2. /\ past.taps = 0 /\ past.sessions = 0 /\ past.forgotten = {} /\ DOMAIN past = PastFields
        /\ past.held = {<<o, holder[o]>> : o \in Orders}
    BY DEF S!Init, PastFields
  <1>3. /\ outbox = <<>> /\ requests = {} /\ holder \in [Orders -> Drivers]
        /\ <<>> \in Seq(Mutations)
    BY DEF S!Init
  <1>4. SessionTypeOK
    BY <1>1, <1>2, <1>3 DEF SessionTypeOK
  <1>5. IdsAreGiven /\ OutboxIsKept /\ QueueEnds
    BY <1>1, <1>2, <1>3, OfNothing DEF IdsAreGiven, OutboxIsKept, QueueEnds
  <1>6. SessionsArePast /\ OneOfEach /\ TapsAreNew /\ RequestsEnd /\ HoldersHeld
    BY <1>2, <1>3 DEF SessionsArePast, OneOfEach, TapsAreNew, RequestsEnd, HoldersHeld
  <1>7. AdmittedInItsPlace /\ FlushHasQueue
    BY <1>1, <1>3 DEF AdmittedInItsPlace, S!AdmittedInItsPlace, FlushHasQueue
  <1> QED BY <1>4, <1>5, <1>6, <1>7 DEF SessionInvariant

\* r is the request q, or what has become of it.
Follows(r, q) ==
  /\ RequestOK(r) /\ r.m = q.m /\ r.session = q.session /\ r.as = q.as
  /\ r.from \in {q.from, "gone"}
  /\ r.stage = "admitted" => q.stage = "admitted" \/ S!FromItsDriver(q)

RequestsFollow ==
  /\ \A r \in requests' : \E q \in requests : Follows(r, q)
  /\ OneOfEach'

\* The counters and the history stand still, but for the faults.
HistoryStands ==
  /\ DOMAIN past' = PastFields /\ past'.taps = past.taps /\ past'.sessions = past.sessions
  /\ past'.forgotten = past.forgotten /\ past'.held = past.held
  /\ UNCHANGED holder

QueueFollows ==
  \A m \in S!ToSet(tab'.queue) :
    \/ m \in S!ToSet(outbox)
    \/ m \in S!ToSet(tab.queue) /\ (tab'.at = "callback" => tab.at = "callback")

LEMMA SessionFollows ==
  ASSUME SessionInvariant, HistoryStands, RequestsFollow, QueueFollows, FlushHasQueue',
         outbox' \in Seq(Mutations), S!ToSet(outbox') \subseteq S!ToSet(outbox),
         DOMAIN tab' = TabFields, tab'.queue \in Seq(Mutations)
  PROVE  SessionInvariant'
  <1> USE DEF SessionInvariant
  <1>1. \A id : Forgotten(id)' = Forgotten(id)
    BY DEF Forgotten, HistoryStands
  <1>2. \A r, q : Follows(r, q) => S!EndsWithItsSession(r)' = S!EndsWithItsSession(q)
    BY DEF Follows, S!EndsWithItsSession, HistoryStands
  <1>3. \A r, q : Follows(r, q) => S!FromItsDriver(r)' = S!FromItsDriver(q)
    BY DEF Follows, S!FromItsDriver, HistoryStands
  <1>4. SessionTypeOK'
    <2>1. \A r \in requests' : RequestOK(r)
      BY DEF RequestsFollow, Follows
    <2> QED BY <2>1 DEF SessionTypeOK, HistoryStands, RequestOK
  <1>5. IdsAreGiven' /\ OutboxIsKept'
    BY <1>1 DEF IdsAreGiven, OutboxIsKept, HistoryStands
  <1>6. SessionsArePast'
    BY DEF SessionsArePast, RequestsFollow, Follows, HistoryStands
  <1>7. TapsAreNew'
    <2> SUFFICES ASSUME NEW r \in requests', r.from = "tap"
                 PROVE  /\ r.m.id <= past'.taps /\ ~Forgotten(r.m.id)'
                        /\ \A m \in S!ToSet(outbox') : m.id # r.m.id
      BY DEF TapsAreNew
    <2>1. PICK q \in requests : Follows(r, q)
      BY DEF RequestsFollow
    <2> QED BY <1>1, <2>1 DEF TapsAreNew, Follows, HistoryStands
  <1>8. QueueEnds'
    <2> SUFFICES ASSUME NEW m \in S!ToSet(tab'.queue) PROVE EndsNow(m)'
      BY DEF QueueEnds
    <2>1. CASE m \in S!ToSet(outbox)
      <3>1. ~Forgotten(m.id)
        BY <2>1 DEF OutboxIsKept
      <3> QED BY <1>1, <3>1 DEF EndsNow, Forgotten, HistoryStands
    <2>2. CASE m \in S!ToSet(tab.queue) /\ (tab'.at = "callback" => tab.at = "callback")
      BY <1>1, <2>2 DEF QueueEnds, EndsNow, HistoryStands
    <2> QED BY <2>1, <2>2 DEF QueueFollows
  <1>9. RequestsEnd'
    BY <1>2 DEF RequestsEnd, RequestsFollow
  <1>10. HoldersHeld'
    BY DEF HoldersHeld, HistoryStands
  <1>11. AdmittedInItsPlace'
    <2> SUFFICES ASSUME NEW r \in requests', r.stage = "admitted"
                 PROVE  S!EndsWithItsSession(r)' /\ S!FromItsDriver(r)'
      BY DEF AdmittedInItsPlace, S!AdmittedInItsPlace
    <2>1. PICK q \in requests : Follows(r, q)
      BY DEF RequestsFollow
    <2>2. q.stage = "admitted" \/ S!FromItsDriver(q)
      BY <2>1 DEF Follows
    <2>3. S!FromItsDriver(q)
      BY <2>2 DEF AdmittedInItsPlace, S!AdmittedInItsPlace
    <2> QED BY <1>3, <1>9, <2>1, <2>3 DEF RequestsEnd
  <1> QED BY <1>4, <1>5, <1>6, <1>7, <1>8, <1>9, <1>10, <1>11 DEF RequestsFollow

LEMMA SameRequestsFollow ==
  ASSUME SessionInvariant, UNCHANGED requests
  PROVE  RequestsFollow
  BY DEF SessionInvariant, SessionTypeOK, RequestsFollow, Follows, OneOfEach

LEMMA UnloadedRequestsFollow ==
  ASSUME SessionInvariant, requests' = {[r EXCEPT !.from = "gone"] : r \in requests}
  PROVE  RequestsFollow /\ \A r \in requests' : r.from = "gone"
  <1>1. ASSUME NEW r \in requests'
        PROVE  r.from = "gone" /\ \E q \in requests : Follows(r, q)
    <2>1. PICK q \in requests : r = [q EXCEPT !.from = "gone"]
      OBVIOUS
    <2>2. RequestOK(q)
      BY DEF SessionInvariant, SessionTypeOK
    <2>3. /\ DOMAIN r = RequestFields /\ r.m = q.m /\ r.session = q.session /\ r.as = q.as
          /\ r.stage = q.stage /\ r.from = "gone"
      BY <2>1, <2>2 DEF RequestOK, RequestFields
    <2> QED BY <2>2, <2>3 DEF Follows, RequestOK
  <1> QED BY <1>1 DEF RequestsFollow, OneOfEach

\* The page is left; what it sent is at the server.
LEMMA UnloadKeeps ==
  ASSUME SessionInvariant, NEW at, S!Unload(at), HistoryStands, UNCHANGED outbox
  PROVE  SessionInvariant'
  <1>1. DOMAIN tab' = TabFields /\ tab'.queue = <<>> /\ <<>> \in Seq(Mutations)
    BY DEF S!Unload, S!Fresh, TabFields
  <1>2. RequestsFollow /\ FlushHasQueue'
    BY <1>1, UnloadedRequestsFollow DEF S!Unload, FlushHasQueue
  <1>3. QueueFollows
    BY <1>1, OfNothing DEF QueueFollows
  <1> QED BY <1>1, <1>2, <1>3, SessionFollows DEF SessionInvariant, SessionTypeOK

\* Another page, with the flush that was under way or none.
LEMMA PageChanges ==
  ASSUME SessionInvariant, HistoryStands, UNCHANGED <<outbox, requests>>,
         DOMAIN tab' = TabFields,
         \/ tab'.queue = tab.queue /\ (tab'.at \in {"callback", "away"} => tab'.at = tab.at)
         \/ tab'.queue = <<>> /\ tab.at = "away"
         \/ tab'.queue = outbox /\ outbox # <<>> /\ tab'.at # "away"
  PROVE  SessionInvariant'
  <1>1. tab'.queue \in Seq(Mutations) /\ outbox \in Seq(Mutations)
    <2>1. <<>> \in Seq(Mutations)
      OBVIOUS
    <2> QED BY <2>1 DEF SessionInvariant, SessionTypeOK
  <1>2. RequestsFollow /\ FlushHasQueue'
    BY SameRequestsFollow DEF SessionInvariant, FlushHasQueue
  <1>3. QueueFollows
    BY OfNothing DEF QueueFollows
  <1> QED BY <1>1, <1>2, <1>3, SessionFollows

LEMMA FaultStands ==
  ASSUME SessionInvariant, UNCHANGED holder, S!Fault \/ UNCHANGED past
  PROVE  HistoryStands
  BY DEF SessionInvariant, SessionTypeOK, S!Fault, HistoryStands, PastFields

LEMMA PagesKeep ==
  ASSUME SessionInvariant,
         \/ S!Visit \/ S!Open \/ S!RestoreUser \/ S!ToLogin \/ S!Login \/ S!Return
         \/ S!Expire \/ S!RemoveUser \/ S!Leave \/ S!Flush
  PROVE  SessionInvariant'
  <1>1. DOMAIN tab = TabFields
    BY DEF SessionInvariant, SessionTypeOK
  <1>2. CASE S!Visit \/ S!Login \/ S!Leave
    <2>1. HistoryStands /\ UNCHANGED outbox
      BY <1>2, FaultStands DEF S!Visit, S!Login, S!Leave
    <2>2. PICK at : S!Unload(at)
      BY <1>2 DEF S!Visit, S!Login, S!Leave
    <2> QED BY <2>1, <2>2, UnloadKeeps
  <1>3. CASE S!Open \/ S!RestoreUser \/ S!ToLogin
    <2>1. HistoryStands /\ UNCHANGED <<outbox, requests>>
      BY <1>3, FaultStands DEF S!Open, S!RestoreUser, S!ToLogin
    <2>2. /\ DOMAIN tab' = TabFields /\ tab'.queue = tab.queue
          /\ tab'.at \in {"callback", "away"} => tab'.at = tab.at
      BY <1>1, <1>3 DEF S!Open, S!RestoreUser, S!ToLogin, TabFields
    <2> QED BY <2>1, <2>2, PageChanges
  <1>4. CASE S!Return
    <2>1. HistoryStands /\ UNCHANGED <<outbox, requests>>
      BY <1>4, FaultStands DEF S!Return
    <2>2. DOMAIN tab' = TabFields /\ tab'.queue = <<>> /\ tab.at = "away"
      BY <1>4 DEF S!Return, S!Fresh, TabFields
    <2> QED BY <2>1, <2>2, PageChanges
  <1>5. CASE S!Expire \/ S!RemoveUser
    <2>1. HistoryStands /\ UNCHANGED <<outbox, requests>>
      BY <1>5, FaultStands DEF S!Expire, S!RemoveUser
    <2>2. /\ DOMAIN tab' = TabFields /\ tab'.queue = tab.queue
          /\ tab'.at \in {"callback", "away"} => tab'.at = tab.at
      BY <1>1, <1>5 DEF S!Expire, S!RemoveUser, TabFields
    <2> QED BY <2>1, <2>2, PageChanges
  <1>6. CASE S!Flush
    <2>1. HistoryStands /\ UNCHANGED <<outbox, requests>>
      BY <1>6, FaultStands DEF S!Flush
    <2>2. /\ DOMAIN tab' = TabFields /\ tab'.queue = outbox /\ outbox # <<>>
          /\ tab'.at # "away"
      BY <1>1, <1>6 DEF S!Flush, TabFields
    <2> QED BY <2>1, <2>2, PageChanges
  <1> QED BY <1>2, <1>3, <1>4, <1>5, <1>6

\* Nobody has forgotten anything since the return, so the next session may send it all.
LEMMA LoginKeeps ==
  ASSUME SessionInvariant, S!CompleteLogin
  PROVE  SessionInvariant'
  <1> USE DEF SessionInvariant
  <1>1. /\ DOMAIN tab = TabFields /\ DOMAIN past = PastFields /\ past.sessions \in Nat
        /\ tab.at = "callback" /\ UNCHANGED <<outbox, requests, holder>>
    BY DEF SessionTypeOK, S!CompleteLogin
  <1>2. /\ DOMAIN tab' = TabFields /\ tab'.queue = tab.queue
        /\ tab'.at \notin {"callback", "away"}
        /\ DOMAIN past' = PastFields /\ past'.sessions = past.sessions + 1
        /\ past'.taps = past.taps /\ past'.forgotten = past.forgotten /\ past'.held = past.held
    BY <1>1 DEF S!CompleteLogin, TabFields, PastFields
  <1>3. \A m : Forgotten(m.id)' = Forgotten(m.id)
    BY <1>2 DEF Forgotten
  <1>4. SessionTypeOK' /\ IdsAreGiven' /\ OneOfEach' /\ FlushHasQueue' /\ HoldersHeld'
    BY <1>1, <1>2 DEF SessionTypeOK, IdsAreGiven, OneOfEach, FlushHasQueue, HoldersHeld
  <1>5. TapsAreNew' /\ OutboxIsKept'
    BY <1>1, <1>2, <1>3 DEF TapsAreNew, OutboxIsKept
  <1>6. SessionsArePast'
    <2>1. \A r \in requests : r.session \in Nat
      BY DEF SessionTypeOK, RequestOK
    <2>2. \A f \in past.forgotten : f[2] \in Nat
      BY DEF SessionTypeOK
    <2> QED BY <1>1, <1>2, <2>1, <2>2 DEF SessionsArePast
  <1>7. QueueEnds'
    BY <1>1, <1>2, <1>3 DEF QueueEnds, EndsNow, Forgotten
  <1>8. RequestsEnd' /\ AdmittedInItsPlace'
    BY <1>1, <1>2 DEF RequestsEnd, AdmittedInItsPlace, S!AdmittedInItsPlace,
                      S!EndsWithItsSession, S!FromItsDriver
  <1> QED BY <1>4, <1>5, <1>6, <1>7, <1>8

\* What is forgotten is forgotten in this session, and every request is of this one or an
\* earlier.
LEMMA ClearKeeps ==
  ASSUME SessionInvariant, S!ClearOfflineData
  PROVE  SessionInvariant'
  <1> USE DEF SessionInvariant
  <1>1. /\ DOMAIN tab = TabFields /\ DOMAIN past = PastFields
        /\ past.taps \in Nat /\ past.sessions \in Nat /\ past.forgotten \subseteq Nat \X Nat
        /\ UNCHANGED <<requests, holder>> /\ outbox' = <<>>
        /\ tab.at \in {"driver", "admin"}
    BY DEF SessionTypeOK, S!ClearOfflineData, S!Cleared, S!Renders
  <1>2. /\ DOMAIN tab' = TabFields /\ tab'.queue = tab.queue /\ tab'.at = tab.at
        /\ DOMAIN past' = PastFields /\ past'.sessions = past.sessions
        /\ past'.taps = past.taps /\ past'.held = past.held
        /\ past'.forgotten
             = past.forgotten \cup {<<m.id, past.sessions>> : m \in S!ToSet(outbox)}
    BY <1>1 DEF S!ClearOfflineData, TabFields, PastFields
  <1>3. \A m \in S!ToSet(outbox) : m \in Mutations /\ m.id \in Nat
    <2>1. outbox \in Seq(Mutations)
      BY DEF SessionTypeOK
    <2>2. \A m \in S!ToSet(outbox) : m \in Mutations
      BY <2>1, OfSequence
    <2>3. \A m \in Mutations : m.id \in Nat
      BY DEF Mutations
    <2> QED BY <2>2, <2>3
  <1>4. ASSUME NEW f \in past'.forgotten
        PROVE  \/ f \in past.forgotten
               \/ f[2] = past.sessions /\ \E m \in S!ToSet(outbox) : f[1] = m.id
    BY <1>2
  <1>5. SessionTypeOK'
    <2>1. past'.forgotten \subseteq Nat \X Nat
      BY <1>1, <1>2, <1>3
    <2>2. <<>> \in Seq(Mutations)
      OBVIOUS
    <2> QED BY <1>1, <1>2, <2>1, <2>2 DEF SessionTypeOK
  <1>6. IdsAreGiven' /\ OutboxIsKept'
    BY <1>1, <1>2, <1>4, OfNothing DEF IdsAreGiven, OutboxIsKept
  <1>7. SessionsArePast'
    BY <1>1, <1>2, <1>4 DEF SessionsArePast
  <1>8. OneOfEach' /\ FlushHasQueue' /\ HoldersHeld'
    BY <1>1, <1>2 DEF OneOfEach, FlushHasQueue, HoldersHeld
  <1>9. TapsAreNew'
    <2> SUFFICES ASSUME NEW r \in requests, r.from = "tap"
                 PROVE  /\ r.m.id <= past'.taps /\ ~Forgotten(r.m.id)'
                        /\ \A m \in S!ToSet(outbox') : m.id # r.m.id
      BY <1>1 DEF TapsAreNew
    <2>1. \A m \in S!ToSet(outbox) : m.id # r.m.id
      BY DEF TapsAreNew
    <2>2. r.m.id <= past.taps /\ \A f \in past.forgotten : f[1] # r.m.id
      BY DEF TapsAreNew, Forgotten
    <2> QED BY <1>1, <1>2, <1>4, <2>1, <2>2, OfNothing DEF Forgotten
  <1>10. QueueEnds'
    BY <1>1, <1>2, <1>4 DEF QueueEnds, EndsNow
  <1>11. RequestsEnd'
    BY <1>1, <1>4 DEF RequestsEnd, SessionsArePast, S!EndsWithItsSession
  <1>12. AdmittedInItsPlace'
    BY <1>1, <1>2, <1>11 DEF RequestsEnd, AdmittedInItsPlace, S!AdmittedInItsPlace,
                             S!FromItsDriver
  <1> QED BY <1>5, <1>6, <1>7, <1>8, <1>9, <1>10, <1>11, <1>12

LEMMA ReassignKeeps ==
  ASSUME SessionInvariant, S!Reassign
  PROVE  SessionInvariant'
  <1> USE DEF SessionInvariant
  <1>1. /\ UNCHANGED <<tab, outbox, requests>> /\ DOMAIN past = PastFields
        /\ holder \in [Orders -> Drivers]
    BY DEF S!Reassign, S!device, SessionTypeOK
  <1>2. PICK o \in Orders, d \in Drivers :
          /\ holder' = [holder EXCEPT ![o] = d]
          /\ past' = [past EXCEPT !.held = @ \cup {<<o, d>>}]
    BY DEF S!Reassign
  <1>3. /\ DOMAIN past' = PastFields /\ past'.taps = past.taps
        /\ past'.sessions = past.sessions /\ past'.forgotten = past.forgotten
        /\ past'.held = past.held \cup {<<o, d>>}
    BY <1>1, <1>2 DEF PastFields
  <1>4. \A id : Forgotten(id)' = Forgotten(id)
    BY <1>3 DEF Forgotten
  <1>5. SessionTypeOK'
    BY <1>1, <1>2, <1>3 DEF SessionTypeOK
  <1>6. IdsAreGiven' /\ SessionsArePast' /\ OneOfEach' /\ FlushHasQueue'
    BY <1>1, <1>3 DEF IdsAreGiven, SessionsArePast, OneOfEach, FlushHasQueue
  <1>7. TapsAreNew' /\ OutboxIsKept'
    BY <1>1, <1>3, <1>4 DEF TapsAreNew, OutboxIsKept
  <1>8. QueueEnds'
    BY <1>1, <1>3, <1>4 DEF QueueEnds, EndsNow
  <1>9. RequestsEnd'
    BY <1>1, <1>3 DEF RequestsEnd, S!EndsWithItsSession
  <1>10. HoldersHeld'
    BY <1>1, <1>2, <1>3 DEF HoldersHeld
  <1>11. AdmittedInItsPlace'
    BY <1>1, <1>3, <1>9 DEF RequestsEnd, AdmittedInItsPlace, S!AdmittedInItsPlace,
                            S!FromItsDriver
  <1> QED BY <1>5, <1>6, <1>7, <1>8, <1>9, <1>10, <1>11

LEMMA RequestReplaced ==
  ASSUME SessionInvariant, NEW r \in requests, NEW e, Follows(e, r),
         requests' = (requests \ {r}) \cup {e}
  PROVE  RequestsFollow
  <1>1. \A q \in requests : Follows(q, q)
    BY DEF SessionInvariant, SessionTypeOK, Follows
  <1>2. e.from \in {r.from, "gone"}
    BY DEF Follows
  <1>3. OneOfEach'
    BY <1>2 DEF SessionInvariant, OneOfEach
  <1> QED BY <1>1, <1>3 DEF RequestsFollow

LEMMA RequestEnds ==
  ASSUME SessionInvariant, NEW r \in requests, requests' = requests \ {r}
  PROVE  RequestsFollow
  BY DEF SessionInvariant, SessionTypeOK, RequestsFollow, Follows, OneOfEach

\* The request goes on to another stage, or its page is gone.
LEMMA RequestGoesOn ==
  ASSUME SessionInvariant, NEW r \in requests
  PROVE  /\ \A stage : stage # "admitted" \/ S!FromItsDriver(r)
                         => Follows([r EXCEPT !.stage = stage], r)
         /\ Follows([r EXCEPT !.from = "gone"], r)
  <1>1. RequestOK(r)
    BY DEF SessionInvariant, SessionTypeOK
  <1>2. ASSUME NEW stage, stage # "admitted" \/ S!FromItsDriver(r)
        PROVE  Follows([r EXCEPT !.stage = stage], r)
    <2>1. PICK e : e = [r EXCEPT !.stage = stage]
      OBVIOUS
    <2>2. /\ DOMAIN e = RequestFields /\ e.m = r.m /\ e.session = r.session /\ e.as = r.as
          /\ e.from = r.from /\ e.stage = stage
      BY <1>1, <2>1 DEF RequestOK, RequestFields
    <2> QED BY <1>1, <1>2, <2>1, <2>2 DEF Follows, RequestOK
  <1>3. Follows([r EXCEPT !.from = "gone"], r)
    <2>1. PICK e : e = [r EXCEPT !.from = "gone"]
      OBVIOUS
    <2>2. /\ DOMAIN e = RequestFields /\ e.m = r.m /\ e.session = r.session /\ e.as = r.as
          /\ e.from = "gone" /\ e.stage = r.stage
      BY <1>1, <2>1 DEF RequestOK, RequestFields
    <2> QED BY <1>1, <2>1, <2>2 DEF Follows, RequestOK
  <1> QED BY <1>2, <1>3

\* The guard of the API lets a driver in for the order he holds now.
LEMMA AdmittedFromItsDriver ==
  ASSUME SessionInvariant, NEW r \in requests, S!Admits(r)
  PROVE  S!FromItsDriver(r)
  <1>1. r.m \in Mutations
    BY DEF SessionInvariant, SessionTypeOK, RequestOK
  <1>2. r.m.order \in Orders
    BY <1>1 DEF Mutations
  <1> QED BY <1>2 DEF SessionInvariant, HoldersHeld, S!Admits, S!FromItsDriver

LEMMA StagesKeep ==
  ASSUME SessionInvariant, NEW r \in requests,
         S!TapAnswered(r) \/ S!Authorize(r) \/ S!Handle(r) \/ S!Unheard(r)
  PROVE  SessionInvariant'
  <1>1. HistoryStands /\ UNCHANGED <<tab, outbox>>
    BY FaultStands DEF S!TapAnswered, S!Authorize, S!Handle, S!Unheard, S!device
  <1>2. RequestsFollow
    <2>1. CASE S!TapAnswered(r) \/ S!Unheard(r)
      BY <2>1, RequestEnds DEF S!TapAnswered, S!Unheard
    <2>2. CASE S!Authorize(r)
      <3>1. PICK stage : /\ requests' = (requests \ {r}) \cup {[r EXCEPT !.stage = stage]}
                         /\ stage = "admitted" => S!Admits(r)
        BY <2>2 DEF S!Authorize
      <3> QED BY <3>1, AdmittedFromItsDriver, RequestGoesOn, RequestReplaced
    <2>3. CASE S!Handle(r)
      <3>1. requests' = (requests \ {r}) \cup {[r EXCEPT !.stage = "answered"]}
        BY <2>3 DEF S!Handle
      <3> QED BY <3>1, RequestGoesOn, RequestReplaced
    <2> QED BY <2>1, <2>2, <2>3
  <1>3. QueueFollows /\ FlushHasQueue'
    <2>1. \A e \in requests' : e.from = "flush" => \E q \in requests : q.from = "flush"
      BY <1>2 DEF RequestsFollow, Follows
    <2> QED BY <1>1, <2>1 DEF QueueFollows, SessionInvariant, FlushHasQueue
  <1> QED BY <1>1, <1>2, <1>3, SessionFollows DEF SessionInvariant, SessionTypeOK

LEMMA FlushGoesOn ==
  ASSUME SessionInvariant, NEW r \in requests, S!FlushAnswered(r) \/ S!FlushUnanswered(r)
  PROVE  SessionInvariant'
  <1>1. /\ DOMAIN tab = TabFields /\ tab.queue \in Seq(Mutations) /\ outbox \in Seq(Mutations)
        /\ r.from = "flush" /\ tab.queue # <<>> /\ tab.at # "away"
    BY DEF SessionInvariant, SessionTypeOK, FlushHasQueue, S!FlushAnswered, S!FlushUnanswered
  <1>2. \A q \in requests \ {r} : q.from # "flush"
    BY <1>1 DEF SessionInvariant, OneOfEach
  <1>3. HistoryStands
    BY FaultStands DEF S!FlushAnswered, S!FlushUnanswered
  <1>4. CASE S!FlushAnswered(r)
    <2>1. /\ DOMAIN tab' = TabFields /\ tab'.queue = Tail(tab.queue) /\ tab'.at = tab.at
          /\ requests' = requests \ {r}
      BY <1>1, <1>4 DEF S!FlushAnswered, TabFields
    <2>2. tab'.queue \in Seq(Mutations) /\ S!ToSet(tab'.queue) \subseteq S!ToSet(tab.queue)
      BY <1>1, <2>1, OfHeadAndTail
    <2>3. RequestsFollow
      BY <2>1, RequestEnds
    <2>4. outbox' \in Seq(Mutations) /\ S!ToSet(outbox') \subseteq S!ToSet(outbox)
      <3>1. CASE outbox' = outbox
        BY <1>1, <3>1
      <3>2. CASE \E i \in DOMAIN outbox : outbox' = S!RemoveAt(outbox, i)
        <4>1. PICK i \in DOMAIN outbox : outbox' = S!RemoveAt(outbox, i)
          BY <3>2
        <4>2. i \in 1..Len(outbox)
          BY <1>1, <4>1
        <4> QED BY <1>1, <4>1, <4>2, OfRemoved
      <3> QED BY <1>4, <3>1, <3>2 DEF S!FlushAnswered, S!RemoveQueuedMutation
    <2>5. QueueFollows /\ FlushHasQueue'
      BY <1>1, <1>2, <2>1, <2>2 DEF QueueFollows, FlushHasQueue
    <2> QED BY <1>3, <2>1, <2>2, <2>3, <2>4, <2>5, SessionFollows
  <1>5. CASE S!FlushUnanswered(r)
    <2>1. /\ DOMAIN tab' = TabFields /\ tab'.queue = <<>> /\ UNCHANGED outbox
          /\ requests' = (requests \ {r}) \cup {[r EXCEPT !.from = "gone"]}
      BY <1>1, <1>5 DEF S!FlushUnanswered, TabFields
    <2>2. PICK e : e = [r EXCEPT !.from = "gone"]
      OBVIOUS
    <2>3. Follows(e, r)
      BY <2>2, RequestGoesOn
    <2>4. e.from = "gone"
      BY <2>2 DEF SessionInvariant, SessionTypeOK, RequestOK, RequestFields
    <2>5. RequestsFollow
      BY <2>1, <2>2, <2>3, RequestReplaced
    <2>6. <<>> \in Seq(Mutations)
      OBVIOUS
    <2>7. QueueFollows /\ FlushHasQueue'
      BY <1>2, <2>1, <2>2, <2>4, OfNothing DEF QueueFollows, FlushHasQueue
    <2> QED BY <1>1, <1>3, <2>1, <2>5, <2>6, <2>7, SessionFollows
  <1> QED BY <1>4, <1>5

\* What is queued was of no logout, and no request of the buttons is left.
LEMMA QueuedTapKeeps ==
  ASSUME SessionInvariant, NEW r \in requests, S!TapUnanswered(r)
  PROVE  SessionInvariant'
  <1> USE DEF SessionInvariant
  <1>1. /\ outbox \in Seq(Mutations) /\ r.m \in Mutations /\ r.from = "tap"
        /\ UNCHANGED <<tab, holder>> /\ outbox' = Append(outbox, r.m)
        /\ requests' = (requests \ {r}) \cup {[r EXCEPT !.from = "gone"]}
    BY DEF SessionTypeOK, RequestOK, S!TapUnanswered
  <1>2. HistoryStands
    BY FaultStands DEF S!TapUnanswered
  <1>3. outbox' \in Seq(Mutations) /\ S!ToSet(outbox') = S!ToSet(outbox) \cup {r.m}
    BY <1>1, OfAppended
  <1>4. PICK e : e = [r EXCEPT !.from = "gone"]
    OBVIOUS
  <1>5. Follows(e, r) /\ e.from = "gone" /\ requests' = (requests \ {r}) \cup {e}
    BY <1>1, <1>4, RequestGoesOn DEF SessionTypeOK, RequestOK, RequestFields
  <1>6. RequestsFollow
    BY <1>5, RequestReplaced
  <1>7. \A q \in requests' : q.from # "tap"
    BY <1>1, <1>5 DEF OneOfEach
  <1>8. \A id : Forgotten(id)' = Forgotten(id)
    BY <1>2 DEF Forgotten, HistoryStands
  <1>9. SessionTypeOK'
    <2>1. \A q \in requests' : RequestOK(q)
      BY <1>6 DEF RequestsFollow, Follows
    <2> QED BY <1>1, <1>2, <1>3, <2>1 DEF SessionTypeOK, HistoryStands, RequestOK
  <1>10. r.m.id <= past.taps /\ ~Forgotten(r.m.id)
    BY <1>1 DEF TapsAreNew
  <1>11. IdsAreGiven' /\ OutboxIsKept' /\ TapsAreNew'
    BY <1>2, <1>3, <1>7, <1>8, <1>10 DEF IdsAreGiven, OutboxIsKept, TapsAreNew, HistoryStands
  <1>12. SessionsArePast'
    BY <1>2, <1>6 DEF SessionsArePast, RequestsFollow, Follows, HistoryStands
  <1>13. FlushHasQueue' /\ QueueEnds' /\ HoldersHeld'
    BY <1>1, <1>2, <1>5, <1>8 DEF FlushHasQueue, QueueEnds, EndsNow, HoldersHeld, HistoryStands
  <1>14. RequestsEnd'
    BY <1>2, <1>6 DEF RequestsEnd, RequestsFollow, Follows, S!EndsWithItsSession, HistoryStands
  <1>15. AdmittedInItsPlace'
    <2> SUFFICES ASSUME NEW q \in requests', q.stage = "admitted"
                 PROVE  S!EndsWithItsSession(q)' /\ S!FromItsDriver(q)'
      BY DEF AdmittedInItsPlace, S!AdmittedInItsPlace
    <2>1. PICK b \in requests : Follows(q, b)
      BY <1>6 DEF RequestsFollow
    <2>2. S!FromItsDriver(b)
      BY <2>1 DEF Follows, AdmittedInItsPlace, S!AdmittedInItsPlace
    <2> QED BY <1>2, <1>14, <2>1, <2>2 DEF RequestsEnd, Follows, S!FromItsDriver, HistoryStands
  <1> QED BY <1>6, <1>9, <1>11, <1>12, <1>13, <1>14, <1>15 DEF RequestsFollow

LEMMA RequestIsSent ==
  ASSUME SessionInvariant, NEW m \in Mutations, NEW from \in {"tap", "flush"},
         S!Request(m, from), S!Waiting(from) = {}, UNCHANGED <<tab, outbox, holder>>,
         DOMAIN past' = PastFields, past'.taps \in {past.taps, past.taps + 1},
         past'.sessions = past.sessions, past'.forgotten = past.forgotten,
         past'.held = past.held,
         \A f \in past.forgotten : f[1] = m.id => f[2] >= past.sessions,
         from = "tap" => m.id = past.taps + 1 /\ past'.taps = m.id,
         from = "flush" => tab.queue # <<>>
  PROVE  SessionInvariant'
  <1> USE DEF SessionInvariant
  <1>1. past.taps \in Nat /\ past.sessions \in Nat /\ past.taps <= past'.taps /\ past'.taps \in Nat
    BY DEF SessionTypeOK
  <1>2. PICK e : e = [m |-> m, as |-> S!Bearer, session |-> past.sessions, from |-> from,
                      stage |-> "sent"]
    OBVIOUS
  <1>3. /\ RequestOK(e) /\ e.m = m /\ e.session = past.sessions /\ e.from = from
        /\ e.stage = "sent"
    BY <1>1, <1>2 DEF RequestOK, RequestFields
  <1>4. requests' = requests \cup {e} /\ \A r \in requests : r.from # from
    BY <1>2 DEF S!Request, S!Waiting
  <1>5. \A id : Forgotten(id)' = Forgotten(id)
    BY DEF Forgotten
  <1>6. SessionTypeOK'
    BY <1>1, <1>3, <1>4 DEF SessionTypeOK, RequestOK
  <1>7. \A s \in S!ToSet(outbox) : s.id \in Nat /\ s.id <= past.taps
    <2>1. \A s \in S!ToSet(outbox) : s \in Mutations
      BY OfSequence DEF SessionTypeOK
    <2>2. \A s \in Mutations : s.id \in Nat
      BY DEF Mutations
    <2> QED BY <2>1, <2>2 DEF IdsAreGiven
  <1>8. \A f \in past.forgotten : f[1] \in Nat /\ f[1] <= past.taps
    BY DEF SessionTypeOK, IdsAreGiven
  <1>9. IdsAreGiven'
    BY <1>1, <1>7, <1>8 DEF IdsAreGiven
  <1>10. SessionsArePast'
    BY <1>1, <1>3, <1>4 DEF SessionsArePast
  <1>11. OneOfEach'
    BY <1>3, <1>4 DEF OneOfEach
  <1>12. TapsAreNew'
    <2> SUFFICES ASSUME NEW r \in requests', r.from = "tap"
                 PROVE  /\ r.m.id <= past'.taps /\ ~Forgotten(r.m.id)
                        /\ \A s \in S!ToSet(outbox) : s.id # r.m.id
      BY <1>5 DEF TapsAreNew
    <2>1. CASE r \in requests
      <3>1. r.m.id \in Nat
        BY <2>1 DEF SessionTypeOK, RequestOK, Mutations
      <3> QED BY <1>1, <2>1, <3>1 DEF TapsAreNew
    <2>2. CASE r = e
      <3>1. r.m.id = past.taps + 1 /\ past'.taps = past.taps + 1
        BY <1>3, <2>2
      <3> QED BY <1>1, <1>7, <1>8, <3>1 DEF Forgotten
    <2> QED BY <1>4, <2>1, <2>2
  <1>13. OutboxIsKept' /\ QueueEnds' /\ HoldersHeld'
    BY <1>5 DEF OutboxIsKept, QueueEnds, EndsNow, HoldersHeld
  <1>14. FlushHasQueue'
    BY <1>3, <1>4 DEF FlushHasQueue
  <1>15. RequestsEnd'
    BY <1>1, <1>3, <1>4, <1>8 DEF RequestsEnd, S!EndsWithItsSession, SessionTypeOK
  <1>16. AdmittedInItsPlace'
    BY <1>3, <1>4 DEF AdmittedInItsPlace, S!AdmittedInItsPlace, S!EndsWithItsSession,
                      S!FromItsDriver
  <1> QED BY <1>6, <1>9, <1>10, <1>11, <1>12, <1>13, <1>14, <1>15, <1>16

LEMMA TapKeeps ==
  ASSUME SessionInvariant, S!Tap
  PROVE  SessionInvariant'
  <1>1. /\ DOMAIN past = PastFields /\ past.taps \in Nat
        /\ UNCHANGED <<tab, outbox, holder>> /\ S!Waiting("tap") = {}
        /\ past' = [past EXCEPT !.taps = @ + 1]
    BY DEF SessionInvariant, SessionTypeOK, S!Tap, S!device
  <1>2. tab.user \in Drivers
    BY DEF S!Tap, S!Renders, S!Allowed
  <1>3. PICK o \in Orders : S!Request([id |-> past.taps + 1, by |-> tab.user, order |-> o], "tap")
    BY DEF S!Tap
  <1>4. PICK m : m = [id |-> past.taps + 1, by |-> tab.user, order |-> o]
    OBVIOUS
  <1>5. m \in Mutations /\ m.id = past.taps + 1 /\ S!Request(m, "tap")
    BY <1>1, <1>2, <1>3, <1>4 DEF Mutations
  <1>6. /\ DOMAIN past' = PastFields /\ past'.taps = past.taps + 1
        /\ past'.sessions = past.sessions /\ past'.forgotten = past.forgotten
        /\ past'.held = past.held
    BY <1>1 DEF PastFields
  <1>7. \A f \in past.forgotten : f[1] # m.id
    BY <1>1, <1>5 DEF SessionInvariant, SessionTypeOK, IdsAreGiven
  <1> QED BY <1>1, <1>5, <1>6, <1>7, RequestIsSent

LEMMA ReplayKeeps ==
  ASSUME SessionInvariant, S!Replay
  PROVE  SessionInvariant'
  <1>1. /\ tab.queue \in Seq(Mutations) /\ tab.queue # <<>> /\ DOMAIN past = PastFields
        /\ UNCHANGED <<tab, outbox, holder, past>> /\ S!Waiting("flush") = {}
        /\ S!Request(Head(tab.queue), "flush")
    BY DEF SessionInvariant, SessionTypeOK, S!Replay, S!device
  <1>2. PICK m \in Mutations : m = Head(tab.queue) /\ m \in S!ToSet(tab.queue)
    BY <1>1, OfHeadAndTail
  <1>3. \A f \in past.forgotten : f[1] = m.id => f[2] >= past.sessions
    BY <1>2 DEF SessionInvariant, QueueEnds, EndsNow
  <1> QED BY <1>1, <1>2, <1>3, RequestIsSent

LEMMA SessionStep ==
  ASSUME SessionInvariant, [S!Next]_(S!vars)
  PROVE  SessionInvariant'
  <1>1. CASE UNCHANGED S!vars
    <2>1. HistoryStands /\ UNCHANGED <<tab, outbox, requests>>
      BY <1>1, FaultStands DEF S!vars
    <2>2. FlushHasQueue'
      BY <2>1 DEF SessionInvariant, FlushHasQueue
    <2>3. QueueFollows
      BY <2>1 DEF QueueFollows
    <2> QED BY <2>1, <2>2, <2>3, SameRequestsFollow, SessionFollows
            DEF SessionInvariant, SessionTypeOK
  <1>2. CASE \/ S!Visit \/ S!Open \/ S!RestoreUser \/ S!ToLogin \/ S!Login \/ S!Return
             \/ S!Expire \/ S!RemoveUser \/ S!Leave \/ S!Flush
    BY <1>2, PagesKeep
  <1>3. CASE S!CompleteLogin \/ S!ClearOfflineData \/ S!Reassign
    BY <1>3, LoginKeeps, ClearKeeps, ReassignKeeps
  <1>4. CASE S!Tap \/ S!Replay
    BY <1>4, TapKeeps, ReplayKeeps
  <1>5. ASSUME NEW r \in requests,
               S!TapAnswered(r) \/ S!Authorize(r) \/ S!Handle(r) \/ S!Unheard(r)
        PROVE  SessionInvariant'
    BY <1>5, StagesKeep
  <1>6. ASSUME NEW r \in requests,
               S!TapUnanswered(r) \/ S!FlushAnswered(r) \/ S!FlushUnanswered(r)
        PROVE  SessionInvariant'
    BY <1>6, QueuedTapKeeps, FlushGoesOn
  <1> QED BY <1>1, <1>2, <1>3, <1>4, <1>5, <1>6 DEF S!Next

LEMMA SessionInvariantHolds == S!Spec => []SessionInvariant
  <1> QED BY SessionInitially, SessionStep, PTL DEF S!Spec

\* Whoever signs in on the device, and whatever was queued there before, a status that the
\* API admits was given to the driver it is admitted for, and no logout had forgotten it.
THEOREM AdmissionsAreInPlace == S!Spec => []AdmittedInItsPlace
  <1>1. SessionInvariant => AdmittedInItsPlace
    BY DEF SessionInvariant
  <1> QED BY <1>1, SessionInvariantHolds, PTL

-----------------------------------------------------------------------------
(* The pages as they are run.                                              *)

LEMMA PagesRun ==
  ASSUME [PagesNext]_<<part, analyticsVars, orderVars, sessionVars>>
  PROVE  [Next]_vars /\ [O!Next]_(O!vars) /\ [S!Next]_(S!vars)
  <1> USE DEF vars, O!vars, S!vars, analyticsVars, figureVars, orderVars, sessionVars
  <1>1. CASE UNCHANGED <<part, analyticsVars, orderVars, sessionVars>>
    BY <1>1
  <1>2. CASE Analyses
    <2>1. CASE Refreshes
      BY <1>2, <2>1 DEF Analyses, Refreshes
    <2>2. CASE Figures
      BY <1>2, <2>2 DEF Analyses, Figures
    <2>3. CASE Starts
      BY <1>2, <2>3 DEF Analyses, Starts
    <2> QED BY <1>2, <2>1, <2>2, <2>3 DEF Analyses
  <1>3. CASE Opens
    BY <1>3 DEF Opens
  <1>4. CASE SignsIn
    BY <1>4 DEF SignsIn
  <1> QED BY <1>1, <1>2, <1>3, <1>4 DEF PagesNext

\* The run of the pages implements each of its parts, so that what holds of the analytics run,
\* of the page of an order and of the accounts holds of it, whichever it follows.
THEOREM PagesAreSafe ==
  PagesSpec => []SnapshotIsNewest /\ []ProgressIsTrue /\ []PageAgrees /\ []AdmittedInItsPlace
  <1>1. PagesInit => Init /\ O!Init /\ S!Init
    BY DEF PagesInit, FaceInit
  <1>2. [PagesNext]_<<part, analyticsVars, orderVars, sessionVars>> =>
          [Next]_vars /\ [O!Next]_(O!vars) /\ [S!Next]_(S!vars)
    BY PagesRun
  <1>3. PagesSpec => Spec /\ O!Spec /\ S!Spec
    BY <1>1, <1>2, PTL DEF PagesSpec, Spec, O!Spec, S!Spec
  <1> QED BY <1>3, SnapshotStaysNewest, ShownProgressIsTrue, SettledPageAgrees, AdmissionsAreInPlace, PTL
=============================================================================
