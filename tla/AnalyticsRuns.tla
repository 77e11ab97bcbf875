--------------------------- MODULE AnalyticsRuns ---------------------------
(***************************************************************************)
(* An analytics refresh: AnalyticsRunService starts a Step Functions       *)
(* execution that exports the table, runs a Spark job (EMR Serverless or   *)
(* Glue) and ends; the job overwrites the latest snapshot; the page that   *)
(* started the run polls it (AnalyticsOverview).  The snapshot says how    *)
(* things stood when its export began.                                     *)
(***************************************************************************)
EXTENDS Naturals

CONSTANTS Runs,     \* executions that may be started
          Callers,  \* who may ask for one: "page", the page followed, and others
  Engines,  \* Spark engines a deployment may have: "emr", "glue"
          MaxJobs,  \* bound: jobs started for one execution
          None

ASSUME RunAssumption ==
  None \notin Runs /\ Engines \subseteq {"emr", "glue"} /\ MaxJobs \in Nat \ {0}

VARIABLES
  engine,     \* the engine of this deployment
  exec,       \* run -> its execution, with the place of its export among the exports
  exports,    \* exports begun
  job,        \* run -> its Spark jobs: how many were started, and the last one
  published,  \* runs whose snapshot was written
  snapshot,   \* the run that wrote the latest snapshot, or None
  crossed,    \* history: starts passed each other, or a job outlived its execution
  caller,     \* the page or another dispatcher -> its start request
  run,        \* the run the page follows, or None
  poll        \* the page's poll of that run

outcome == <<published, snapshot>>
pipeline == <<engine, exec, exports, job, outcome, crossed>>
follow == <<caller, run, poll>>
vars == <<pipeline, follow>>

Terminal == {"SUCCEEDED", "FAILED", "TIMED_OUT"}
Active == {"export", "exporting", "starting", "running"}
Steps == {"EXPORT", "EMR_START", "SPARK", "PUBLISH"}
NoPoll == [phase |-> "off", status |-> None, seen |-> None]

Init ==
  /\ engine \in Engines
  /\ exec = [r \in Runs |-> [stage |-> "none", export |-> "none", asOf |-> 0, reached |-> 0]]
  /\ exports = 0
  /\ job = [r \in Runs |-> [started |-> 0, attempt |-> 0, last |-> "none"]]
  /\ published = {} /\ snapshot = None /\ crossed = FALSE
  /\ caller = [c \in Callers |-> "idle"]
  /\ run = None /\ poll = NoPoll

-----------------------------------------------------------------------------
(* Starting a run: list the running executions, then start one.            *)

Running(r) == exec[r].stage \in Active

\* The button is off while a request is open and while the run shown is running.
AskStart(c) ==
  /\ caller[c] = "idle"
  /\ c = "page" /\ run # None => run.status # "RUNNING"
  /\ caller' = [caller EXCEPT ![c] = "asking"]
  /\ UNCHANGED <<pipeline, run, poll>>

\* Fault: a run in progress is no obstacle.
AnyMayStart(c, found) == caller' = [caller EXCEPT ![c] = "free"]

\* 409 when a running one is found.
MayStart(c, found) == caller' = [caller EXCEPT ![c] = IF found = {} THEN "free" ELSE "idle"]

\* The list of executions lags behind: one that was only just started may be missing.
List(c) ==
  /\ caller[c] = "asking"
  /\ \E missing \in SUBSET {r \in Runs : exec[r].stage = "export"} :
       /\ MayStart(c, {r \in Runs : Running(r)} \ missing)
       /\ crossed' = (crossed \/ /\ caller'[c] = "free"
                                 /\ missing # {} \/ \E d \in Callers \ {c} : caller[d] = "free")
  /\ UNCHANGED <<engine, exec, exports, job, outcome, run, poll>>

\* Fault: a step counts as completed when it was entered.
ProgressOnEntry(status, seen) ==
  [EXPORT |-> 1 \in seen, EMR_START |-> 2 \in seen, SPARK |-> 3 \in seen,
   PUBLISH |-> 4 \in seen]

\* The completed steps, from a status and the milestones seen entered:
\* 1 the export, 2 the start of the job, 3 the wait for it, 4 the end.
Progress(status, seen) ==
  [EXPORT |-> 2 \in seen, EMR_START |-> 3 \in seen, SPARK |-> 4 \in seen,
   PUBLISH |-> status = "SUCCEEDED"]

Unused == {r \in Runs : exec[r].stage = "none"}
NewRun == CHOOSE r \in Unused : TRUE
Started == Unused # {} /\ exec' = [exec EXCEPT ![NewRun].stage = "export", ![NewRun].reached = 1]

StartExecution(c) ==
  /\ caller[c] = "free"
  /\ Started
  /\ run' = IF c = "page"
            THEN [id |-> NewRun, status |-> "RUNNING", done |-> Progress("RUNNING", {})]
            ELSE run
  /\ poll' = IF c = "page" THEN [NoPoll EXCEPT !.phase = "timer"] ELSE poll
  /\ caller' = [caller EXCEPT ![c] = "idle"]
  /\ UNCHANGED <<engine, exports, job, outcome, crossed>>

\* An error, or no answer: the execution may have been started.  A request the page no
\* longer waits for is another caller's.
StartFails(c) ==
  /\ caller[c] \in {"asking", "free"}
  /\ caller' = [caller EXCEPT ![c] = "idle"]
  /\ \/ UNCHANGED exec
     \/ caller[c] = "free" /\ Started
  /\ UNCHANGED <<engine, exports, job, outcome, crossed, run, poll>>

-----------------------------------------------------------------------------
(* The execution.  A Lambda task whose answer is lost is invoked again.    *)

\* The export carries the run as its client token: repeated, it is the same one.
StartExport(r) ==
  /\ exec[r].stage = "export"
  /\ \E answered \in BOOLEAN :
       exec' = [exec EXCEPT ![r].export = IF @ = "none" THEN "IN_PROGRESS" ELSE @,
                            ![r].asOf = IF @ = 0 THEN exports + 1 ELSE @,
                            ![r].stage = IF answered THEN "exporting" ELSE @]
  /\ exports' = IF exec[r].asOf = 0 THEN exports + 1 ELSE exports
  /\ UNCHANGED <<engine, job, outcome, crossed, follow>>

ExportEnds(r) ==
  /\ exec[r].export = "IN_PROGRESS"
  /\ \E s \in {"COMPLETED", "FAILED"} : exec' = [exec EXCEPT ![r].export = s]
  /\ UNCHANGED <<engine, exports, job, outcome, crossed, follow>>

\* Every 20 seconds, until it has ended.
CheckExport(r) ==
  /\ exec[r].stage = "exporting" /\ exec[r].export # "IN_PROGRESS"
  /\ exec' = IF exec[r].export = "COMPLETED"
             THEN [exec EXCEPT ![r].stage = "starting", ![r].reached = 2]
             ELSE [exec EXCEPT ![r].stage = "FAILED"]
  /\ UNCHANGED <<engine, exports, job, outcome, crossed, follow>>

\* EMR knows the client token again.  Glue is given none; it takes one run at a time.
NewJob(r) == job[r].started < (IF engine = "glue" THEN MaxJobs ELSE 1)

\* An execution that ends leaves its job to itself.
Outlived(r) == crossed' = (crossed \/ job[r].last = "RUNNING")

\* Glue refuses a second run (as EMR may fail), which fails the execution.
StartJob(r) ==
  /\ exec[r].stage = "starting"
  /\ IF engine = "glue" /\ \E q \in Runs : job[q].last = "RUNNING"
     THEN /\ exec' = [exec EXCEPT ![r].stage = "FAILED"]
          /\ Outlived(r)
          /\ UNCHANGED job
     ELSE /\ job' = IF NewJob(r)
                    THEN [job EXCEPT ![r] = [started |-> @.started + 1, attempt |-> 1,
                                             last |-> "RUNNING"]]
                    ELSE job
          /\ exec' \in {exec, [exec EXCEPT ![r].stage = "running", ![r].reached = 3]}
          /\ UNCHANGED crossed
  /\ UNCHANGED <<engine, exports, outcome, follow>>

\* EMR runs a job that failed once more; Glue is told not to.
Attempts == IF engine = "emr" THEN 2 ELSE 1

\* The job replaces the latest snapshot by its own; it may fail before or after.
JobEnds(r) ==
  /\ job[r].last = "RUNNING"
  /\ \E wrote, succeeded \in BOOLEAN :
       /\ succeeded => wrote
       /\ published' = IF wrote THEN published \cup {r} ELSE published
       /\ snapshot' = IF wrote THEN r ELSE snapshot
       /\ job' = CASE succeeded -> [job EXCEPT ![r].last = "SUCCESS"]
                   [] ~succeeded /\ job[r].attempt < Attempts -> [job EXCEPT ![r].attempt = @ + 1]
                   [] OTHER -> [job EXCEPT ![r].last = "FAILED"]
  /\ UNCHANGED <<engine, exports, exec, crossed, follow>>

\* Every 30 seconds, until it has ended.
CheckJob(r) ==
  /\ exec[r].stage = "running" /\ job[r].last # "RUNNING"
  /\ exec' = IF job[r].last = "SUCCESS"
             THEN [exec EXCEPT ![r].stage = "SUCCEEDED", ![r].reached = 4]
             ELSE [exec EXCEPT ![r].stage = "FAILED"]
  /\ UNCHANGED <<engine, exports, job, outcome, crossed, follow>>

\* A task has failed for good, or the two hours are over; the job goes on.
Abandon(r) ==
  /\ Running(r)
  /\ \E s \in {"FAILED", "TIMED_OUT"} : exec' = [exec EXCEPT ![r].stage = s]
  /\ Outlived(r)
  /\ UNCHANGED <<engine, exports, job, outcome, follow>>

-----------------------------------------------------------------------------
(* The page follows its run: a poll five seconds after each answer.        *)

Status(r) == IF Running(r) THEN "RUNNING" ELSE exec[r].stage

Poll ==
  /\ poll.phase = "timer"
  /\ poll' = [poll EXCEPT !.phase = "asked"]
  /\ UNCHANGED <<pipeline, caller, run>>

\* The execution and its history are read side by side; its description may be late.
DescribeExecution ==
  /\ poll.phase = "asked" /\ poll.status = None
  /\ \E status \in {Status(run.id), "RUNNING"} : poll' = [poll EXCEPT !.status = status]
  /\ UNCHANGED <<pipeline, caller, run>>

\* Its last 100 events: a long wait for the export pushes out the first milestone, and
\* one for the job all but its own.
Pushed(reached) == {0} \cup (IF reached >= 1 THEN {1} ELSE {}) \cup (IF reached >= 3 THEN {2} ELSE {})

GetHistory ==
  /\ poll.phase = "asked" /\ poll.seen = None
  /\ \E pushed \in Pushed(exec[run.id].reached) :
       poll' = [poll EXCEPT !.seen = pushed + 1 .. exec[run.id].reached]
  /\ UNCHANGED <<pipeline, caller, run>>

\* A run that has ended is not polled again.
Answer ==
  /\ poll.status # None /\ poll.seen # None
  /\ run' = [run EXCEPT !.status = poll.status, !.done = Progress(poll.status, poll.seen)]
  /\ poll' = IF poll.status = "RUNNING" THEN [NoPoll EXCEPT !.phase = "timer"] ELSE NoPoll
  /\ UNCHANGED <<pipeline, caller>>

\* An error is shown; nothing the effect depends on changes, and no timer is set.
PollFails ==
  /\ poll.phase = "asked"
  /\ poll' = [NoPoll EXCEPT !.phase = "stopped"]
  /\ UNCHANGED <<pipeline, caller, run>>

\* Applying another range sets the effect up anew and forgets an answer under way.
RangeChanges ==
  /\ poll.phase # "off"
  /\ poll' = [NoPoll EXCEPT !.phase = "timer"]
  /\ UNCHANGED <<pipeline, caller, run>>

-----------------------------------------------------------------------------
Next ==
  \/ \E c \in Callers : AskStart(c) \/ List(c) \/ StartExecution(c) \/ StartFails(c)
  \/ \E r \in Runs : \/ StartExport(r) \/ ExportEnds(r) \/ CheckExport(r)
                     \/ StartJob(r) \/ JobEnds(r) \/ CheckJob(r) \/ Abandon(r)
  \/ Poll \/ DescribeExecution \/ GetHistory \/ Answer \/ PollFails \/ RangeChanges

Spec == Init /\ [][Next]_vars

-----------------------------------------------------------------------------
\* The figures do not go back in time: while starts do not pass each other and no job
\* outlives its execution, the latest snapshot is of the newest export ever published,
\* whatever is invoked again, fails and is run once more.
SnapshotIsNewest ==
  ~crossed => \A q \in published : exec[q].asOf <= exec[snapshot].asOf

\* What the page says of its run was true: a step shown completed was passed and an
\* end shown is the execution's, although status and a cut history are read apart.
ProgressIsTrue ==
  run # None =>
    /\ run.status \in Terminal => exec[run.id].stage = run.status
    /\ run.done.EXPORT => exec[run.id].export = "COMPLETED"
    /\ run.done.EMR_START => job[run.id].started > 0
    /\ run.done.SPARK \/ run.done.PUBLISH => run.id \in published
=============================================================================
